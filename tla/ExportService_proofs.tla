------------------------ MODULE ExportService_proofs ------------------------
(***************************************************************************)
(* What holds of ExportService for any recordings, dates, requests and     *)
(* exports and any number of crashes and failed writes.  Theorems that     *)
(* assume NoReadFaults need that a file that is there can be read; the     *)
(* runs with ReadFaults show what happens otherwise.  The inductive        *)
(* invariant has layers, each using the ones before it: the types and what *)
(* the protocol task holds at each place of a request, how that relates to *)
(* the card, that no other export has the request or the date, what has    *)
(* been deleted and what the host knows of it.  Steady is the layer that   *)
(* failing reads leave.                                                    *)
(***************************************************************************)
EXTENDS ExportService, FiniteSetTheorems, TLAPS

Beginning == {"begin_manifest", "begin_state"}
Deleting == {"mark", "erase", "rmdir", "progress", "note", "finish"}

\* What the protocol task has in memory at each place of a request.
Shape ==
    /\ pc = "idle" => cur = Nothing /\ info = Nothing /\ plan = Nothing
    /\ pc # "idle" => cur \in Export /\ info \in States
    /\ pc \notin {"erase", "note"} => file = 1
    /\ pc = "erase" /\ file # 1 => Victim \in dir
    /\ man = [e \in Export |-> man[e]]
    /\ \A e \in Export : man[e] = Nothing => st[e] = EmptyCell
    /\ pc \in Beginning => info = Prepared /\ plan # Nothing /\ st[cur] = EmptyCell
    /\ pc = "begin_manifest" => man[cur] = Nothing
    /\ pc = "begin_state" => man[cur] = plan
    /\ pc \in Deleting => man[cur] # Nothing /\ plan = man[cur]
    /\ pc = "abort" => man[cur] # Nothing /\ plan = Nothing

Types == TypeOK /\ Shape

\* What is in memory and what a reader of the card would load.
Stage ==
    /\ pc \in Deleting \cup {"abort"} => Load(cur) # Nothing
    /\ pc = "mark" => /\ Load(cur).phase = "prepared"
                      /\ info = [phase |-> "committing", deleted |-> 0]
    /\ pc \in {"erase", "rmdir", "note"} => info = Load(cur) /\ info.phase = "committing"
    /\ pc \in {"erase", "rmdir"} => info.deleted < Len(plan.names)
    /\ pc = "progress" =>
          /\ Load(cur).phase = "committing" /\ info.phase = "committing"
          /\ info.deleted = Load(cur).deleted + 1 /\ info.deleted <= Len(plan.names)
    /\ pc = "finish" =>
          /\ Load(cur).phase = "committing" /\ Load(cur).deleted = Len(plan.names)
          /\ info.phase = "committed" /\ info.deleted = Len(plan.names)
    /\ pc = "abort" => Load(cur).phase = "prepared" /\ info.phase = "aborted"

ActiveExports == {e \in Export : Active(e)}

\* Nobody but the export that is being prepared has its request or its date.
Alone ==
    /\ OneActivePerDate /\ OneExportPerRequest /\ ActiveBounded
    /\ pc \in Beginning =>
          /\ \A e \in Export : Load(e) # Nothing => man[e].req # plan.req
          /\ \A e \in Export : Active(e) => man[e].date # plan.date
          /\ Cardinality(ActiveExports) < MaxActive

OfDate(m) == \A r \in Names(m) : r \in born /\ DateOf[r] = m.date

Frozen(m, r) == r \in dir \ extra /\ size[r] = m.sizes[r]

\* What is deleted, on whose behalf, and what the host was told of it.
Progress ==
    /\ \A e \in Export : man[e] # Nothing => OfDate(man[e])
    /\ plan # Nothing => OfDate(plan)
    /\ pc \in Deleting => cur \in confirmed
    /\ pc = "mark" => \A r \in Names(plan) : Frozen(plan, r)
    /\ pc = "progress" => plan.names[info.deleted] \notin dir
    /\ \A e \in Export : Phase(e) \in {"committing", "committed"} =>
          \A i \in DOMAIN man[e].names : i <= Load(e).deleted => man[e].names[i] \notin dir
    /\ \A e \in Export : Phase(e) = "committed" => Load(e).deleted = Len(man[e].names)
    /\ \A e \in Export : \A p \in told[e] :
          Load(e) # Nothing /\ (p \in {"aborted", "committed"} => Load(e).phase = p)

\* Without edits: what an active export has not come to is as it was frozen,
\* and of the recording at its cursor nothing but whole files can be missing.
Intact ==
    edits = 0 =>
       /\ extra = {}
       /\ pc \in Beginning => \A r \in Names(plan) : Frozen(plan, r)
       /\ \A e \in Export : Phase(e) = "prepared" =>
             \A r \in Names(man[e]) : Frozen(man[e], r)
       /\ \A e \in Export : Phase(e) = "committing" =>
             /\ Load(e).deleted <= Len(man[e].names)
             /\ \A i \in DOMAIN man[e].names :
                   /\ i > Load(e).deleted + 1 => Frozen(man[e], man[e].names[i])
                   /\ i = Load(e).deleted + 1 /\ man[e].names[i] \in dir =>
                         \A f \in Files : size[man[e].names[i]][f]
                                            \in {Absent, man[e].sizes[man[e].names[i]][f]}

\* The files of the recording at the cursor go in order, then its directory.
Torn ==
    /\ pc = "erase" => \A f \in 1..file - 1 : size[Victim][f] = Absent
    /\ pc = "rmdir" => Victim \in dir /\ \A f \in Files : size[Victim][f] = Absent

------------------------------------------------------------------------------
(***************************************************************************)
(* Writing a file.                                                         *)
(***************************************************************************)
\* After a write that succeeded, a reader obtains what was written.
LEMMA Replaced ==
    ASSUME NEW c \in Cells(States), NEW v \in States, NEW k \in OkOutcomes(c, v)
    PROVE  k \in Cells(States) /\ Readable(k) = v /\ k # EmptyCell
  BY NothingIsNoState DEF Cells, OkOutcomes, Readable, EmptyCell

\* After a write that failed, a reader obtains what it did before.
LEMMA Kept ==
    ASSUME NEW c \in Cells(States), NEW k \in FailOutcomes(c)
    PROVE  /\ k \in Cells(States) /\ Readable(k) = Readable(c)
           /\ (c = EmptyCell) <=> (k = EmptyCell)
  BY DEF Cells, FailOutcomes, Readable, EmptyCell

------------------------------------------------------------------------------
(***************************************************************************)
(* Manifests.                                                              *)
(***************************************************************************)
\* A manifest lists finitely many recordings, at least one, each once, and has
\* the sizes of their files.
LEMMA ManifestFacts ==
    ASSUME NEW m, IsManifest(m)
    PROVE  /\ m # Nothing
           /\ Len(m.names) \in Nat \ {0}
           /\ DOMAIN m.names = 1..Len(m.names)
           /\ Names(m) \subseteq Record /\ Names(m) # {}
           /\ \A i, j \in DOMAIN m.names : m.names[i] = m.names[j] => i = j
           /\ m.sizes \in [Names(m) -> [Files -> Nat \ {Absent}]]
  <1>1. PICK S \in SUBSET Record :
            /\ S # {}
            /\ m \in [req : Request, date : Date, names : Sorted(S),
                      sizes : [S -> [Files -> Nat \ {Absent}]]]
    BY DEF IsManifest
  <1> DEFINE n == Cardinality(S)
  <1>2. n \in Nat
    BY ConstantsOK, FS_Subset, FS_CardinalityType
  <1>3. /\ m.names \in [1..n -> S]
        /\ \A i, j \in 1..n : i < j => m.names[i] < m.names[j]
        /\ \A r \in S : \E i \in 1..n : m.names[i] = r
    BY <1>1 DEF Sorted
  <1> HIDE DEF n
  <1>4. Len(m.names) = n /\ DOMAIN m.names = 1..n
    BY <1>2, <1>3
  <1>5. Names(m) = S
    BY <1>3, <1>4 DEF Names
  <1>6. n # 0
    BY <1>1, <1>2, <1>3
  <1>7. ASSUME NEW i \in 1..n, NEW j \in 1..n, m.names[i] = m.names[j]
        PROVE  i = j
    <2>1. m.names[i] \in Nat /\ m.names[j] \in Nat
      BY <1>3, <1>1, ConstantsOK
    <2>2. ~(i < j) /\ ~(j < i)
      BY <2>1, <1>3, <1>7
    <2> QED  BY <2>2, <1>2
  <1> QED  BY <1>1, <1>2, <1>4, <1>5, <1>6, <1>7, NothingIsNoManifest

\* The names that the qsort of a set of recordings gives are those recordings.
LEMMA SortedNames ==
    ASSUME NEW S \in SUBSET Record, NEW names \in Sorted(S)
    PROVE  \A r : r \in S <=> \E i \in DOMAIN names : names[i] = r
  BY DEF Sorted

------------------------------------------------------------------------------
(***************************************************************************)
(* Types.                                                                  *)
(***************************************************************************)
\* What a reader of the card obtains.
LEMMA LoadTypes ==
    ASSUME Types, NEW e \in Export
    PROVE  /\ Loads(e) \subseteq States \cup {Nothing}
           /\ Load(e) \in Loads(e)
           /\ \A s \in Loads(e) : s # Nothing => man[e] # Nothing /\ IsManifest(man[e])
           /\ Load(e) # Nothing => Load(e) = Readable(st[e])
  BY DEF Types, TypeOK, Cells, Loads, Load, Readable

\* A write that succeeded, as the readers of all exports see it.
LEMMA WriteOkFacts ==
    ASSUME Types, pc # "idle", WriteOk
    PROVE  /\ st' \in [Export -> Cells(States)]
           /\ \A e \in Export : e # cur => st'[e] = st[e]
           /\ Readable(st'[cur]) = info
  <1>1. cur \in Export /\ info \in States /\ st \in [Export -> Cells(States)]
    BY DEF Types, TypeOK, Shape
  <1>2. PICK c \in OkOutcomes(st[cur], info) : st' = [st EXCEPT ![cur] = c]
    BY DEF WriteOk
  <1>3. c \in Cells(States) /\ Readable(c) = info
    BY <1>1, Replaced
  <1> QED  BY <1>1, <1>2, <1>3

\* A write that failed.
LEMMA WriteFailsFacts ==
    ASSUME Types, pc # "idle", WriteFails
    PROVE  /\ st' \in [Export -> Cells(States)]
           /\ \A e \in Export : e # cur => st'[e] = st[e]
           /\ Readable(st'[cur]) = Readable(st[cur])
           /\ st[cur] = EmptyCell => st'[cur] = EmptyCell
           /\ faults' \in 0..MaxFaults
  <1>1. cur \in Export /\ info \in States /\ st \in [Export -> Cells(States)]
    BY DEF Types, TypeOK, Shape
  <1>2. PICK c \in FailOutcomes(st[cur]) : st' = [st EXCEPT ![cur] = c]
    BY DEF WriteFails
  <1>3. /\ c \in Cells(States) /\ Readable(c) = Readable(st[cur])
        /\ st[cur] = EmptyCell => c = EmptyCell
    BY <1>1, Kept
  <1>4. faults' \in 0..MaxFaults
    BY ConstantsOK DEF WriteFails, CanFault, Types, TypeOK
  <1> QED  BY <1>1, <1>2, <1>3, <1>4

\* A write that power loss or the deletion of the task cut off.
LEMMA WriteCutFacts ==
    ASSUME Types, pc # "idle",
           \E c \in CrashOutcomes(st[cur], info) : st' = [st EXCEPT ![cur] = c]
    PROVE  /\ st' \in [Export -> Cells(States)]
           /\ \A e \in Export : e # cur => st'[e] = st[e]
           /\ Readable(st'[cur]) \in {info, Readable(st[cur])}
  <1>1. cur \in Export /\ info \in States /\ st \in [Export -> Cells(States)]
    BY DEF Types, TypeOK, Shape
  <1>2. PICK c \in CrashOutcomes(st[cur], info) : st' = [st EXCEPT ![cur] = c]
    OBVIOUS
  <1>3. c \in Cells(States) /\ Readable(c) \in {info, Readable(st[cur])}
    BY <1>1, Replaced, Kept DEF CrashOutcomes
  <1> QED  BY <1>1, <1>2, <1>3

LEMMA TypesInit == Init => Types
  <1> SUFFICES ASSUME Init PROVE Types
    OBVIOUS
  <1>1. TypeOK
    <2>1. size \in [Record -> [Files -> Nat]]
      BY DEF Init, Absent
    <2>2. st \in [Export -> Cells(States)]
      BY DEF Init, EmptyCell, Cells
    <2>3. faults \in 0..MaxFaults /\ edits \in 0..MaxEdits /\ file \in Files
      BY ConstantsOK DEF Init, Files
    <2> QED  BY <2>1, <2>2, <2>3 DEF Init, TypeOK
  <1>2. Shape
    BY DEF Init, Shape, Beginning, Deleting
  <1> QED  BY <1>1, <1>2 DEF Types

\* What a new manifest is made of.
LEMMA NewManifest ==
    ASSUME TypeOK, NEW q \in Request, NEW d \in Date, NEW names \in Sorted(RecordsOf(d)),
           RecordsOf(d) # {}
    PROVE  IsManifest([req |-> q, date |-> d, names |-> names,
                       sizes |-> [r \in RecordsOf(d) |-> size[r]]])
  <1>1. RecordsOf(d) \in SUBSET Record
    BY DEF RecordsOf
  <1>2. [r \in RecordsOf(d) |-> size[r]] \in [RecordsOf(d) -> [Files -> Nat \ {Absent}]]
    <2> SUFFICES ASSUME NEW r \in RecordsOf(d) PROVE size[r] \in [Files -> Nat \ {Absent}]
      OBVIOUS
    <2> QED  BY DEF RecordsOf, Complete, TypeOK
  <1> QED  BY <1>1, <1>2 DEF IsManifest

\* Requests that find their answer, and those that freeze a date.
LEMMA TypesBegin ==
    ASSUME Types, NEW q \in Request, NEW d \in Date, BeginKnown(q, d) \/ BeginFresh(q, d)
    PROVE  Types'
  <1>1. CASE BeginKnown(q, d)
    <2>1. PICK e \in Export : \E s \in Loads(e) :
              /\ Answers(e, s, q) /\ told' = [told EXCEPT ![e] = @ \cup {s.phase}]
              /\ Counted(s # Load(e))
      BY <1>1 DEF BeginKnown, ReplyState
    <2> PICK s \in Loads(e) :
              /\ Answers(e, s, q) /\ told' = [told EXCEPT ![e] = @ \cup {s.phase}]
              /\ Counted(s # Load(e))
      BY <2>1
    <2>2. s \in States
      BY LoadTypes DEF Answers
    <2>3. told' \in [Export -> SUBSET Phases]
      BY <2>2 DEF Types, TypeOK, States
    <2>4. faults' \in 0..MaxFaults
      BY ConstantsOK DEF Counted, Loads, CanFault, Types, TypeOK
    <2>5. UNCHANGED <<card, task, confirmed, edits>>
      BY <1>1 DEF BeginKnown
    <2> QED  BY <2>3, <2>4, <2>5
           DEF Types, TypeOK, Shape, card, task, EmptyCell, Victim
  <1>2. CASE BeginFresh(q, d)
    <2>1. PICK names \in Sorted(RecordsOf(d)) :
              plan' = [req |-> q, date |-> d, names |-> names,
                       sizes |-> [r \in RecordsOf(d) |-> size[r]]]
      BY <1>2 DEF BeginFresh
    <2>2. IsManifest(plan')
      BY <1>2, <2>1, NewManifest DEF BeginFresh, Types
    <2>3. plan' # Nothing
      BY <2>2, ManifestFacts
    <2>4. cur' \in Export /\ man[cur'] = Nothing
      BY <1>2 DEF BeginFresh
    <2>5. st[cur'] = EmptyCell
      BY <2>4 DEF Types, Shape
    <2>6. faults' \in 0..MaxFaults
      <3>1. PICK view \in {v \in [Export -> UNION {Loads(e) : e \in Export}] :
                       \A e \in Export : v[e] \in Loads(e)} :
                Counted(\E e \in Export : view[e] # Load(e))
        BY <1>2 DEF BeginFresh
      <3>2. CASE \E e \in Export : view[e] # Load(e)
        BY <3>1, <3>2, ConstantsOK DEF Counted, Loads, CanFault, Types, TypeOK
      <3>3. CASE ~ \E e \in Export : view[e] # Load(e)
        BY <3>1, <3>3 DEF Counted, Types, TypeOK
      <3> QED  BY <3>2, <3>3
    <2>7. /\ UNCHANGED <<card, file, hist, edits>> /\ pc' = "begin_manifest"
          /\ info' = Prepared /\ pc = "idle"
      BY <1>2 DEF BeginFresh, Idle
    <2>8. TypeOK'
      BY <2>2, <2>4, <2>6, <2>7 DEF Types, TypeOK, card, hist, Prepared, States, Phases
    <2>9. Shape'
      BY <2>3, <2>4, <2>5, <2>7
         DEF Types, Shape, card, Prepared, States, Phases, Beginning, Deleting, EmptyCell
    <2> QED  BY <2>8, <2>9 DEF Types
  <1> QED  BY <1>1, <1>2

\* The other requests, up to their first write.
LEMMA TypesRequest ==
    ASSUME Types, NEW e \in Export, Commit(e) \/ Abort(e) \/ GetStatus(e)
    PROVE  Types'
  <1>1. \E s \in Loads(e) \ {Nothing} : Counted(s # Load(e)) \/ (CanFault /\ Counted(TRUE))
    BY DEF Commit, Abort, GetStatus, Counted
  <1>2. faults' \in 0..MaxFaults
    BY <1>1, ConstantsOK DEF Counted, Loads, CanFault, Types, TypeOK
  <1>3. pc = "idle" /\ UNCHANGED <<card, edits>>
    BY DEF Commit, Abort, GetStatus, Idle
  <1>4. \A t \in Loads(e) \ {Nothing} :
            /\ t \in States /\ man[e] # Nothing /\ IsManifest(man[e])
            /\ [t EXCEPT !.phase = "committed"] \in States
            /\ [t EXCEPT !.phase = "aborted"] \in States
    BY LoadTypes DEF States, Phases
  <1>5. \A t \in States : [told EXCEPT ![e] = @ \cup {t.phase}] \in [Export -> SUBSET Phases]
    BY DEF Types, TypeOK, States
  <1>6. told' \in [Export -> SUBSET Phases] /\ confirmed' \subseteq Export
    <2>1. CASE Commit(e)
      BY <2>1, <1>4, <1>5 DEF Commit, ReplyState, Types, TypeOK, States, Phases
    <2>2. CASE Abort(e)
      BY <2>2, <1>4, <1>5 DEF Abort, ReplyState, Types, TypeOK
    <2>3. CASE GetStatus(e)
      <3>1. PICK t \in Loads(e) \ {Nothing} : told' = [told EXCEPT ![e] = @ \cup {t.phase}]
        BY <2>3 DEF GetStatus, ReplyState
      <3>2. UNCHANGED confirmed
        BY <2>3 DEF GetStatus
      <3> QED  BY <3>1, <3>2, <1>4, <1>5 DEF Types, TypeOK
    <2> QED  BY <2>1, <2>2, <2>3
  <1>7. CASE UNCHANGED task
    BY <1>2, <1>3, <1>6, <1>7
       DEF Types, TypeOK, Shape, card, task, EmptyCell, Victim
  <1>8. CASE ~UNCHANGED task
    <2>1. /\ pc' \in {"mark", "note", "erase", "finish", "abort"}
          /\ cur' = e /\ info' \in States /\ file' = file /\ man[e] # Nothing
          /\ pc' = "abort" => plan' = Nothing
          /\ pc' # "abort" => plan' = man[e] /\ IsManifest(plan')
      <3>1. CASE Commit(e)
        <4>1. PICK t \in Loads(e) \ {Nothing} :
                  /\ pc' \in {"mark", "note", "erase", "finish"}
                  /\ cur' = e /\ plan' = man[e] /\ UNCHANGED file
                  /\ info' \in {[phase |-> "committing", deleted |-> 0],
                                [t EXCEPT !.phase = "committed"], t}
          BY <3>1, <1>8 DEF Commit
        <4>2. [phase |-> "committing", deleted |-> 0] \in States
          BY DEF States, Phases
        <4>3. info' \in States
          BY <4>1, <4>2, <1>4
        <4> QED  BY <4>1, <4>3, <1>4
      <3>2. CASE Abort(e)
        BY <3>2, <1>4, <1>8 DEF Abort, Idle, Types, Shape
      <3>3. CASE GetStatus(e)
        BY <3>3, <1>8 DEF GetStatus
      <3> QED  BY <3>1, <3>2, <3>3
    <2>2. TypeOK'
      BY <1>2, <1>3, <1>6, <2>1 DEF Types, TypeOK, card
    <2>3. Shape'
      BY <1>3, <2>1 DEF Types, Shape, Beginning, Deleting, card, EmptyCell
    <2> QED  BY <2>2, <2>3 DEF Types
  <1> QED  BY <1>7, <1>8

\* The writes of a request that begins an export.
LEMMA TypesBeginWrite ==
    ASSUME Types, BeginManifest \/ BeginState
    PROVE  Types'
  <1>1. /\ cur \in Export /\ info = Prepared /\ info \in States /\ IsManifest(plan)
        /\ plan # Nothing /\ st[cur] = EmptyCell /\ man = [e \in Export |-> man[e]]
    BY DEF BeginManifest, BeginState, Types, TypeOK, Shape, Beginning
  <1>2. CASE BeginManifest
    <2>1. man' \in {man, [man EXCEPT ![cur] = plan], [man EXCEPT ![cur] = Nothing]}
      BY <1>2 DEF BeginManifest, BeginCleanup
    <2>2. /\ \A e \in Export : man'[e] \in {man[e], plan, Nothing}
          /\ \A e \in Export : e # cur => man'[e] = man[e]
          /\ man' = [e \in Export |-> man'[e]]
      BY <2>1, <1>1
    <2>3. faults' \in 0..MaxFaults
      BY <1>2, ConstantsOK DEF BeginManifest, CanFault, Types, TypeOK
    <2>4. TypeOK'
      BY <1>2, <1>1, <2>2, <2>3, ConstantsOK
         DEF BeginManifest, BeginCleanup, Done, Types, TypeOK, hist, Files
    <2>5. Shape'
      <3>1. CASE pc' = "begin_state"
        BY <1>2, <1>1, <2>2, <3>1
           DEF BeginManifest, BeginCleanup, Done, Types, Shape, Beginning, Deleting, EmptyCell
      <3>2. CASE pc' # "begin_state"
        BY <1>2, <1>1, <2>2, <3>2
           DEF BeginManifest, BeginCleanup, Done, Types, Shape, Beginning, Deleting, EmptyCell
      <3> QED  BY <3>1, <3>2
    <2> QED  BY <2>4, <2>5 DEF Types
  <1>3. CASE BeginState
    <2>1. man' \in {man, [man EXCEPT ![cur] = Nothing]}
      BY <1>3 DEF BeginState, BeginCleanup
    <2>2. /\ \A e \in Export : man'[e] \in {man[e], Nothing}
          /\ \A e \in Export : e # cur => man'[e] = man[e]
          /\ man' = [e \in Export |-> man'[e]]
      BY <2>1, <1>1
    <2>3. pc # "idle" /\ man[cur] = plan
      BY <1>3 DEF BeginState, Types, Shape
    <2>4. /\ st' \in [Export -> Cells(States)] /\ faults' \in 0..MaxFaults
          /\ \A e \in Export : e # cur => st'[e] = st[e]
          /\ man'[cur] = Nothing => st'[cur] = EmptyCell
      <3>1. CASE WriteOk /\ UNCHANGED <<man, faults>>
        BY <3>1, <1>1, <2>3, WriteOkFacts DEF Types, TypeOK
      <3>2. CASE WriteFails
        BY <3>2, <1>1, <2>3, WriteFailsFacts
      <3> QED  BY <3>1, <3>2, <1>3 DEF BeginState
    <2>5. told' \in [Export -> SUBSET Phases]
      BY <1>3, <1>1 DEF BeginState, ReplyState, Types, TypeOK, Phases
    <2>6. Done /\ UNCHANGED <<born, dir, size, extra, confirmed, edits>>
      BY <1>3 DEF BeginState, BeginCleanup
    <2>7. TypeOK'
      <3>1. \A e \in Export : man'[e] # Nothing => IsManifest(man'[e])
        BY <2>2 DEF Types, TypeOK
      <3>2. UNCHANGED <<born, dir, size, extra>> /\ TypeOK
        BY <2>6 DEF Types
      <3>3. 1 \in Files
        BY ConstantsOK DEF Files
      <3> HIDE DEF Types
      <3> QED  BY <2>4, <2>5, <2>6, <3>1, <3>2, <3>3 DEF Done, TypeOK
    <2>8. Shape'
      BY <2>2, <2>4, <2>6 DEF Done, Types, Shape, Beginning, Deleting, EmptyCell
    <2> QED  BY <2>7, <2>8 DEF Types
  <1> QED  BY <1>2, <1>3

\* The writes of a commit and of an abort.
LEMMA TypesWrite ==
    ASSUME Types, CommitMark \/ CommitProgress \/ CommitNote \/ CommitFinish \/ AbortWrite
    PROVE  Types'
  <1>1. /\ pc \in {"mark", "progress", "note", "finish", "abort"}
        /\ pc # "idle" /\ cur \in Export /\ info \in States /\ man[cur] # Nothing
    BY DEF CommitMark, CommitProgress, CommitNote, CommitFinish, AbortWrite, Types, Shape,
           Deleting
  <1>2. /\ st' \in [Export -> Cells(States)] /\ faults' \in 0..MaxFaults
        /\ \A e \in Export : e # cur => st'[e] = st[e]
    <2>1. (WriteOk /\ UNCHANGED faults) \/ WriteFails
      BY DEF CommitMark, CommitProgress, CommitNote, CommitFinish, AbortWrite
    <2> QED  BY <1>1, <2>1, WriteOkFacts, WriteFailsFacts DEF Types, TypeOK
  <1>3. told' \in [Export -> SUBSET Phases]
    <2>1. \/ told' = told
          \/ \E p \in {"aborted", "committed"} : told' = [told EXCEPT ![cur] = @ \cup {p}]
      BY DEF CommitMark, CommitProgress, CommitNote, CommitFinish, AbortWrite, hist, ReplyState
    <2>2. told \in [Export -> SUBSET Phases] /\ {"aborted", "committed"} \subseteq Phases
      BY DEF Types, TypeOK, Phases
    <2> QED  BY <2>1, <2>2
  <1>4. UNCHANGED <<born, dir, size, extra, man, confirmed, edits>>
    BY DEF CommitMark, CommitProgress, CommitNote, CommitFinish, AbortWrite, hist
  <1>5. CASE Done
    <2>1. TypeOK'
      BY <1>2, <1>3, <1>4, <1>5, ConstantsOK DEF Done, Types, TypeOK, Files
    <2>2. Shape'
      BY <1>1, <1>2, <1>4, <1>5 DEF Done, Types, Shape, Beginning, Deleting, EmptyCell
    <2> QED  BY <2>1, <2>2 DEF Types
  <1>6. CASE ~Done
    <2>1. /\ pc \in {"mark", "progress"} /\ pc' \in {"erase", "finish"}
          /\ UNCHANGED <<cur, plan, file>>
          /\ info' \in {info, [info EXCEPT !.phase = "committed"]}
      BY <1>6 DEF CommitMark, CommitProgress, CommitNote, CommitFinish, AbortWrite
    <2>2. info' \in States
      BY <1>1, <2>1 DEF States, Phases
    <2>3. TypeOK'
      BY <1>2, <1>3, <1>4, <2>1, <2>2 DEF Types, TypeOK
    <2>4. Shape'
      BY <1>1, <1>2, <1>4, <2>1, <2>2 DEF Types, Shape, Beginning, Deleting, EmptyCell
    <2> QED  BY <2>3, <2>4 DEF Types
  <1> QED  BY <1>5, <1>6

\* Deleting a file or a directory.
LEMMA TypesDelete ==
    ASSUME Types, CommitErase \/ CommitRmdir
    PROVE  Types'
  <1>1. /\ pc \in {"erase", "rmdir"} /\ cur \in Export /\ info \in States
        /\ file \in 1..NumFiles
    BY DEF CommitErase, CommitRmdir, Types, TypeOK, Shape, Files
  <1>2. faults' \in 0..MaxFaults
    BY ConstantsOK DEF CommitErase, CommitRmdir, CanFault, Types, TypeOK
  <1>3. size' \in [Record -> [Files -> Nat]]
    <2>1. CASE size' = [size EXCEPT ![Victim][file] = Absent]
      <3> DEFINE v == Victim
      <3>1. size \in [Record -> [Files -> Nat]]
        BY DEF Types, TypeOK
      <3>2. size' = [size EXCEPT ![v] = [size[v] EXCEPT ![file] = Absent]]
        BY <2>1
      <3>3. ASSUME v \in Record
            PROVE  [size[v] EXCEPT ![file] = Absent] \in [Files -> Nat]
        BY <3>1, <3>3 DEF Absent
      <3> HIDE DEF v
      <3> QED  BY <3>1, <3>2, <3>3
    <2> QED  BY <2>1 DEF CommitErase, CommitRmdir, Types, TypeOK
  <1>4. dir' \subseteq born /\ extra \subseteq dir'
    BY DEF CommitErase, CommitRmdir, Types, TypeOK
  <1>5. file' \in 1..NumFiles /\ (pc' \notin {"erase", "note"} => file' = 1)
    <2>1. CASE CommitErase /\ Victim \notin dir /\ pc' = "progress"
      BY <2>1, <1>1 DEF CommitErase, DeleteFails, Types, Shape
    <2>2. CASE CommitErase /\ pc' # "progress"
      BY <2>2, <1>1, ConstantsOK DEF CommitErase, DeleteFails
    <2>3. CASE CommitRmdir
      BY <2>3, <1>1 DEF CommitRmdir, DeleteFails, Types, Shape
    <2> QED  BY <2>1, <2>2, <2>3 DEF CommitErase, DeleteFails
  <1>6. info' \in States /\ pc' \in {"erase", "rmdir", "progress", "note"}
    <2>1. [info EXCEPT !.deleted = @ + 1] \in States
      BY <1>1 DEF States
    <2> QED  BY <1>1, <2>1 DEF CommitErase, CommitRmdir, DeleteFails
  <1>7. UNCHANGED <<cur, plan, born, extra, man, st, told, confirmed, edits>>
    BY DEF CommitErase, CommitRmdir, DeleteFails, hist
  <1>8. TypeOK'
    BY <1>1, <1>2, <1>3, <1>4, <1>5, <1>6, <1>7 DEF Types, TypeOK, Files
  <1>9. pc' = "erase" /\ file' # 1 => Victim' \in dir'
    BY DEF CommitErase, CommitRmdir, DeleteFails, Victim
  <1>10. Shape'
    BY <1>1, <1>5, <1>6, <1>7, <1>9 DEF Types, Shape, Beginning, Deleting, EmptyCell
  <1> QED  BY <1>8, <1>10 DEF Types

\* The recorder, the host's edits, and the end of a request at any place.
LEMMA TypesAround ==
    ASSUME Types, (\E r \in Record : NewRecording(r) \/ HostEdit(r)) \/ Crash
    PROVE  Types'
  <1>1. CASE \E r \in Record : NewRecording(r)
    <2>1. PICK r \in Record : NewRecording(r)
      BY <1>1
    <2>2. size' \in [Record -> [Files -> Nat]]
      BY <2>1 DEF NewRecording, Types, TypeOK
    <2>3. TypeOK'
      BY <2>1, <2>2 DEF NewRecording, Types, TypeOK, task, hist
    <2>4. Shape'
      BY <2>1 DEF NewRecording, Types, Shape, task, EmptyCell, Victim
    <2> QED  BY <2>3, <2>4 DEF Types
  <1>2. CASE \E r \in Record : HostEdit(r)
    <2>1. PICK r \in Record : HostEdit(r)
      BY <1>2
    <2>2. size' \in [Record -> [Files -> Nat]]
      <3>1. size \in [Record -> [Files -> Nat]]
        BY DEF Types, TypeOK
      <3>2. CASE UNCHANGED size
        BY <3>1, <3>2
      <3>3. CASE size' = [size EXCEPT ![r] = [f \in Files |-> Absent]]
        BY <3>1, <3>3 DEF Absent
      <3>4. CASE \E f \in Files : \E n \in {Absent, 2} : size' = [size EXCEPT ![r][f] = n]
        <4>1. PICK f \in Files, n \in {Absent, 2} :
                  size' = [size EXCEPT ![r] = [size[r] EXCEPT ![f] = n]]
          BY <3>4
        <4>2. [size[r] EXCEPT ![f] = n] \in [Files -> Nat]
          BY <3>1 DEF Absent
        <4> QED  BY <3>1, <4>1, <4>2
      <3> QED  BY <2>1, <3>2, <3>3, <3>4 DEF HostEdit
    <2>3. /\ dir' \subseteq born /\ extra' \subseteq dir' /\ edits' \in 0..MaxEdits
          /\ UNCHANGED <<born, man, st, task, hist, faults>> /\ pc = "idle"
      <3>1. edits' \in 0..MaxEdits
        BY <2>1, ConstantsOK DEF HostEdit, Types, TypeOK
      <3>2. dir' \in {dir, dir \ {r}} /\ extra' \in {extra, extra \ {r}, extra \cup {r}}
            /\ (dir' # dir => extra' = extra \ {r}) /\ r \in dir
        BY <2>1 DEF HostEdit
      <3>3. dir' \subseteq born /\ extra' \subseteq dir'
        BY <3>2 DEF Types, TypeOK
      <3> QED  BY <2>1, <3>1, <3>3 DEF HostEdit, Idle
    <2>4. TypeOK'
      BY <2>2, <2>3 DEF Types, TypeOK, task, hist
    <2>5. Shape'
      BY <2>3 DEF Types, Shape, task, EmptyCell, Beginning, Deleting
    <2> QED  BY <2>4, <2>5 DEF Types
  <1>3. CASE Crash
    <2>1. /\ pc # "idle" /\ cur \in Export /\ info \in States
          /\ man = [e \in Export |-> man[e]]
      BY <1>3 DEF Crash, Idle, Types, Shape
    <2>2. /\ st' \in [Export -> Cells(States)]
          /\ \A e \in Export : e # cur => st'[e] = st[e]
          /\ ~Writing => st' = st
      <3>1. CASE Writing
        BY <1>3, <2>1, <3>1, WriteCutFacts DEF Crash
      <3>2. CASE ~Writing
        BY <1>3, <3>2 DEF Crash, Types, TypeOK
      <3> QED  BY <3>1, <3>2
    <2>3. /\ man' = [e \in Export |-> man'[e]]
          /\ \A e \in Export : e # cur => man'[e] = man[e]
          /\ pc # "begin_manifest" => man' = man
          /\ man'[cur] \in {man[cur], plan}
      BY <1>3, <2>1 DEF Crash
    <2>4. \A e \in Export : man'[e] # Nothing => IsManifest(man'[e])
      BY <2>3 DEF Types, TypeOK
    <2>5. \A e \in Export : man'[e] = Nothing => st'[e] = EmptyCell
      <3>1. CASE pc = "begin_manifest"
        BY <2>1, <2>2, <2>3, <3>1 DEF Types, Shape, Writing, EmptyCell
      <3>2. CASE pc # "begin_manifest"
        <4>1. man[cur] # Nothing
          BY <2>1, <3>2, <1>3
             DEF Crash, Types, TypeOK, Shape, Idle, Beginning, Deleting
        <4> QED  BY <2>1, <2>2, <2>3, <3>2, <4>1 DEF Types, Shape
      <3> QED  BY <3>1, <3>2
    <2>6. /\ Done /\ UNCHANGED <<born, dir, size, extra, hist, edits>>
          /\ faults' \in 0..MaxFaults /\ 1 \in Files
      BY <1>3, ConstantsOK DEF Crash, CanFault, Types, TypeOK, Files
    <2>7. TypeOK'
      BY <2>2, <2>4, <2>6 DEF Done, Types, TypeOK, hist
    <2>8. Shape'
      BY <2>3, <2>5, <2>6 DEF Done, Types, Shape, Beginning, Deleting, EmptyCell
    <2> QED  BY <2>7, <2>8 DEF Types
  <1> QED  BY <1>1, <1>2, <1>3

LEMMA TypesKept ==
    ASSUME Types, [Next]_vars
    PROVE  Types'
  <1>1. CASE UNCHANGED vars
    BY <1>1 DEF vars, card, task, hist, Types, TypeOK, Shape, EmptyCell, Victim
  <1>2. CASE Refuse
    BY <1>1, <1>2 DEF Refuse
  <1>3. CASE TaskStep
    BY <1>3, TypesBeginWrite, TypesWrite, TypesDelete DEF TaskStep
  <1> QED  BY <1>1, <1>2, <1>3, TypesBegin, TypesRequest, TypesAround DEF Next

\* TypeOK: every variable keeps its type, and every file of /EXPORTS its form.
THEOREM TypeCorrect == Spec => []TypeOK
<1>1. Init => Types
  BY TypesInit
<1>2. Types /\ [Next]_vars => Types'
  BY TypesKept
<1> QED  BY <1>1, <1>2, PTL DEF Spec, Types

------------------------------------------------------------------------------
(***************************************************************************)
(* What a step changes of what readers load.                               *)
(***************************************************************************)
\* Files that are there can be read.
NoReadFaults == ~ReadFaults

LEMMA PlainLoads ==
    ASSUME NoReadFaults, NEW e \in Export
    PROVE  Loads(e) = {Load(e)}
  BY DEF NoReadFaults, Loads

LEMMA LoadWriteOk ==
    ASSUME Types, pc # "idle", WriteOk, man' = man, man[cur] # Nothing
    PROVE  \A e \in Export : Load(e)' = IF e = cur THEN info ELSE Load(e)
  BY WriteOkFacts DEF Load, Readable

LEMMA LoadWriteFails ==
    ASSUME Types, pc # "idle", WriteFails, man' = man
    PROVE  \A e \in Export : Load(e)' = Load(e)
  <1>1. \A e \in Export : Readable(st'[e]) = Readable(st[e])
    BY WriteFailsFacts
  <1> QED  BY <1>1 DEF Load, Readable

\* Only the export being served changes for a reader, to what the task has in
\* memory; an export that can be loaded keeps its manifest.
LEMMA LoadStep ==
    ASSUME Types, [Next]_vars, NEW e \in Export
    PROVE  /\ \/ Load(e)' = Load(e)
              \/ /\ e = cur /\ Load(e)' = info
                 /\ pc \in {"begin_state", "mark", "progress", "note", "finish", "abort"}
           /\ Load(e) # Nothing \/ Load(e)' # Nothing => man'[e] = man[e]
  <1>1. CASE UNCHANGED <<man, st>>
    BY <1>1 DEF Load, Readable
  <1>2. CASE BeginManifest \/ (Crash /\ pc = "begin_manifest")
    <2>1. /\ cur \in Export /\ man[cur] = Nothing /\ st[cur] = EmptyCell /\ st' = st
          /\ \A o \in Export : o # cur => man'[o] = man[o]
      BY <1>2 DEF BeginManifest, BeginCleanup, Crash, Idle, Writing, Types, TypeOK, Shape,
                  Beginning
    <2> QED  BY <2>1 DEF Load, Readable, EmptyCell
  <1>3. CASE BeginState
    <2>1. /\ cur \in Export /\ st[cur] = EmptyCell /\ pc # "idle" /\ man[cur] = plan
          /\ plan # Nothing
      BY <1>3 DEF BeginState, Types, Shape, Beginning
    <2>2. CASE WriteOk /\ UNCHANGED man
      BY <1>3, <2>1, <2>2, LoadWriteOk DEF BeginState
    <2>3. CASE WriteFails /\ man' \in {man, [man EXCEPT ![cur] = Nothing]}
      <3>1. \A o \in Export : o # cur => man'[o] = man[o] /\ st'[o] = st[o]
        BY <2>1, <2>3, WriteFailsFacts DEF Types, Shape
      <3>2. st'[cur] = EmptyCell
        BY <2>1, <2>3, WriteFailsFacts
      <3> QED  BY <2>1, <3>1, <3>2 DEF Load, Readable, EmptyCell
    <2> QED  BY <1>3, <2>2, <2>3 DEF BeginState, BeginCleanup
  <1>4. CASE CommitMark \/ CommitProgress \/ CommitNote \/ CommitFinish \/ AbortWrite
    <2>1. /\ pc \in {"mark", "progress", "note", "finish", "abort"} /\ man' = man
          /\ WriteOk \/ WriteFails
      BY <1>4 DEF CommitMark, CommitProgress, CommitNote, CommitFinish, AbortWrite
    <2>2. man[cur] # Nothing
      BY <2>1 DEF Types, Shape, Deleting
    <2> QED  BY <2>1, <2>2, LoadWriteOk, LoadWriteFails
  <1>5. CASE Crash /\ pc # "begin_manifest"
    <2>1. man' = man /\ pc # "idle"
      BY <1>5 DEF Crash, Idle
    <2>2. CASE Writing
      <3>1. \A o \in Export : o # cur => st'[o] = st[o]
        BY <1>5, <2>1, <2>2, WriteCutFacts DEF Crash
      <3>2. Readable(st'[cur]) \in {info, Readable(st[cur])}
        BY <1>5, <2>1, <2>2, WriteCutFacts DEF Crash
      <3> QED  BY <2>1, <2>2, <3>1, <3>2 DEF Load, Readable, Writing
    <2>3. CASE ~Writing
      BY <1>5, <2>1, <2>3, <1>1 DEF Crash
    <2> QED  BY <2>2, <2>3
  <1>6. CASE \E q \in Request, d \in Date : BeginKnown(q, d) \/ BeginFresh(q, d)
    BY <1>1, <1>6 DEF BeginKnown, BeginFresh, card
  <1>7. CASE \E o \in Export : Commit(o) \/ Abort(o) \/ GetStatus(o)
    BY <1>1, <1>7 DEF Commit, Abort, GetStatus, card
  <1>8. CASE Refuse \/ UNCHANGED vars \/ CommitErase \/ CommitRmdir
    BY <1>1, <1>8 DEF Refuse, vars, card, CommitErase, CommitRmdir
  <1>9. CASE \E r \in Record : NewRecording(r) \/ HostEdit(r)
    BY <1>1, <1>9 DEF NewRecording, HostEdit
  <1> QED  BY <1>2, <1>3, <1>4, <1>5, <1>6, <1>7, <1>8, <1>9 DEF Next, TaskStep

------------------------------------------------------------------------------
(***************************************************************************)
(* What is in memory and what is on the card.                              *)
(***************************************************************************)
LEMMA StageRequest ==
    ASSUME Types, NoReadFaults, NEW e \in Export, Commit(e) \/ Abort(e) \/ GetStatus(e)
    PROVE  Stage'
  <1>1. /\ pc = "idle" /\ UNCHANGED card /\ Load(e) # Nothing /\ Load(e) \in States
        /\ Load(e)' = Load(e)
    BY PlainLoads, LoadTypes
       DEF Commit, Abort, GetStatus, Idle, card, Load, Readable
  <1>2. CASE UNCHANGED task
    BY <1>1, <1>2 DEF task, Stage, Deleting
  <1>3. CASE ~UNCHANGED task
    <2>1. CASE Abort(e)
      BY <1>1, <1>3, <2>1, PlainLoads DEF Abort, Stage, Deleting, States
    <2>2. CASE Commit(e)
      <3> DEFINE s == Load(e)
      <3>1. /\ cur' = e /\ plan' = man[e]
            /\ \/ /\ s.phase = "prepared" /\ pc' = "mark"
                  /\ info' = [phase |-> "committing", deleted |-> 0]
               \/ /\ s.phase = "committing" /\ pc' = "note" /\ info' = s
               \/ /\ s.phase = "committing" /\ pc' = "erase" /\ info' = s
                  /\ s.deleted < Len(man[e].names)
               \/ /\ s.phase = "committing" /\ pc' = "finish"
                  /\ s.deleted = Len(man[e].names)
                  /\ info' = [s EXCEPT !.phase = "committed"]
        <4>1. s.deleted \in Nat /\ Len(man[e].names) \in Nat
          BY <1>1, LoadTypes, ManifestFacts DEF States
        <4>2. s.phase = "prepared" \/ s.phase = "committing"
          BY <1>3, <2>2, PlainLoads DEF Commit
        <4>3. CASE s.phase = "prepared"
          BY <1>3, <2>2, <4>3, PlainLoads DEF Commit
        <4>4. CASE s.phase = "committing"
          <5>1. PICK passes \in BOOLEAN :
                /\ passes => Preflight(man[e], s.deleted, TRUE)
                /\ cur' = e /\ plan' = man[e]
                /\ pc' = IF ~passes THEN "note"
                         ELSE IF s.deleted < Len(man[e].names) THEN "erase" ELSE "finish"
                /\ info' = IF passes /\ s.deleted = Len(man[e].names)
                             THEN [s EXCEPT !.phase = "committed"] ELSE s
            BY <1>3, <2>2, <4>4, PlainLoads DEF Commit
          <5>2. passes => s.deleted <= Len(man[e].names)
            BY <5>1 DEF Preflight
          <5> QED  BY <4>1, <4>4, <5>1, <5>2
        <4> QED  BY <4>2, <4>3, <4>4
      <3> QED  BY <1>1, <3>1 DEF Stage, Deleting, States
    <2> QED  BY <1>3, <2>1, <2>2 DEF GetStatus
  <1> QED  BY <1>2, <1>3

LEMMA StageTask ==
    ASSUME Types, Stage, TaskStep
    PROVE  Stage'
  <1>1. pc # "idle" /\ cur \in Export /\ info \in States
    BY DEF TaskStep, BeginManifest, BeginState, CommitMark, CommitErase, CommitRmdir,
           CommitProgress, CommitNote, CommitFinish, AbortWrite, Types, Shape
  <1>2. CASE Done \/ pc' = "begin_state"
    BY <1>2 DEF Done, Stage, Deleting
  <1>3. CASE CommitMark /\ ~Done
    <2>1. WriteOk /\ pc' = "erase" /\ UNCHANGED <<cur, info, plan>> /\ man' = man
      BY <1>3 DEF CommitMark
    <2>2. man[cur] # Nothing /\ Len(plan.names) \in Nat \ {0}
      BY <1>3, ManifestFacts DEF CommitMark, Types, TypeOK, Shape, Deleting
    <2>3. Load(cur)' = info
      BY <1>1, <2>1, <2>2, LoadWriteOk
    <2> QED  BY <1>1, <1>3, <2>1, <2>2, <2>3, NothingIsNoState
             DEF CommitMark, Stage, Deleting
  <1>4. CASE CommitProgress /\ ~Done
    <2>1. /\ WriteOk /\ UNCHANGED <<cur, plan>> /\ man' = man
          /\ IF info.deleted < Len(plan.names)
               THEN pc' = "erase" /\ info' = info
               ELSE pc' = "finish" /\ info' = [info EXCEPT !.phase = "committed"]
      BY <1>4 DEF CommitProgress
    <2>2. man[cur] # Nothing /\ Len(plan.names) \in Nat \ {0}
      BY <1>4, ManifestFacts DEF CommitProgress, Types, TypeOK, Shape, Deleting
    <2>3. Load(cur)' = info
      BY <1>1, <2>1, <2>2, LoadWriteOk
    <2>4. info # Nothing /\ info.deleted \in Nat /\ info.deleted <= Len(plan.names)
          /\ info.phase = "committing"
      BY <1>1, <1>4, NothingIsNoState DEF CommitProgress, Stage, States
    <2>5. CASE info.deleted < Len(plan.names)
      BY <2>1, <2>3, <2>4, <2>5 DEF Stage, Deleting
    <2>6. CASE ~(info.deleted < Len(plan.names))
      BY <1>1, <2>1, <2>2, <2>3, <2>4, <2>6 DEF Stage, Deleting, States
    <2> QED  BY <2>5, <2>6
  <1>5. CASE (CommitErase \/ CommitRmdir) /\ ~Done
    <2>1. /\ pc \in {"erase", "rmdir"} /\ UNCHANGED <<cur, plan, man, st>>
          /\ \/ pc' \in {"erase", "rmdir", "note"} /\ info' = info
             \/ pc' = "progress" /\ info' = [info EXCEPT !.deleted = @ + 1]
      BY <1>5 DEF CommitErase, CommitRmdir, DeleteFails
    <2>2. /\ info = Load(cur) /\ info # Nothing /\ info.phase = "committing"
          /\ info.deleted < Len(plan.names)
      BY <2>1 DEF Stage, Deleting
    <2>3. Load(cur)' = Load(cur)
      BY <2>1 DEF Load, Readable
    <2>4. Len(plan.names) \in Nat
      BY <2>1, ManifestFacts DEF Types, TypeOK, Shape, Deleting
    <2> QED  BY <1>1, <2>1, <2>2, <2>3, <2>4 DEF Stage, Deleting, States
  <1> QED  BY <1>2, <1>3, <1>4, <1>5
           DEF TaskStep, BeginManifest, BeginState, BeginCleanup, CommitNote, CommitFinish,
               AbortWrite

LEMMA StageKept ==
    ASSUME Types, Stage, NoReadFaults, [Next]_vars
    PROVE  Stage'
  <1>1. CASE UNCHANGED <<man, st, task>>
    BY <1>1 DEF task, Stage, Load, Readable
  <1>2. CASE \E q \in Request, d \in Date : BeginKnown(q, d) \/ BeginFresh(q, d)
    <2>1. CASE pc' = "begin_manifest"
      BY <2>1 DEF Stage, Deleting
    <2> QED  BY <1>1, <1>2, <2>1 DEF BeginKnown, BeginFresh, card
  <1>3. CASE Crash
    BY <1>3 DEF Crash, Done, Stage, Deleting
  <1>4. CASE Refuse \/ UNCHANGED vars \/ \E r \in Record : NewRecording(r) \/ HostEdit(r)
    BY <1>1, <1>4 DEF Refuse, vars, card, NewRecording, HostEdit
  <1> QED  BY <1>2, <1>3, <1>4, StageRequest, StageTask DEF Next

------------------------------------------------------------------------------
(***************************************************************************)
(* No other export has the request or the date.                            *)
(***************************************************************************)
\* An export that can be loaded, or is active, was so before the step, or is
\* the one whose first state is written.
LEMMA NewlyKnown ==
    ASSUME Types, Stage, [Next]_vars, NEW e \in Export
    PROVE  /\ Load(e)' # Nothing => Load(e) # Nothing \/ (e = cur /\ pc = "begin_state")
           /\ Active(e)' => Active(e) \/ (e = cur /\ pc = "begin_state")
           /\ Active(e) <=> ActiveState(Load(e))
           /\ Active(e)' <=> ActiveState(Load(e)')
  <1>1. Active(e) <=> ActiveState(Load(e))
    BY DEF Active, Phase, ActiveState
  <1>2. Active(e)' <=> ActiveState(Load(e)')
    BY DEF Active, Phase, ActiveState
  <1>3. CASE Load(e)' = Load(e)
    BY <1>1, <1>2, <1>3
  <1>4. CASE /\ e = cur
             /\ pc \in {"begin_state", "mark", "progress", "note", "finish", "abort"}
    <2>1. pc # "begin_state" => Load(e) # Nothing
      BY <1>4 DEF Stage, Deleting
    <2>2. pc # "begin_state" => Load(e).phase \in {"prepared", "committing"}
      BY <1>4 DEF Stage
    <2> QED  BY <1>1, <1>2, <1>4, <2>1, <2>2 DEF ActiveState
  <1> QED  BY <1>1, <1>2, <1>3, <1>4, LoadStep

\* The scan that lets a request begin an export has seen all exports.
LEMMA AloneBegin ==
    ASSUME Types, Alone, NoReadFaults, NEW q \in Request, NEW d \in Date, BeginFresh(q, d)
    PROVE  Alone'
  <1>1. PICK view \in {v \in [Export -> UNION {Loads(e) : e \in Export}] :
                           \A e \in Export : v[e] \in Loads(e)} :
            /\ \A e \in Export : /\ ~Answers(e, view[e], q)
                                 /\ ActiveState(view[e]) => man[e].date # d
            /\ RoomForOne(view)
    BY DEF BeginFresh
  <1>2. \A e \in Export : view[e] = Load(e)
    BY <1>1, PlainLoads
  <1>3. \A e \in Export : Active(e) <=> ActiveState(view[e])
    BY <1>2 DEF Active, Phase, ActiveState
  <1>4. ActiveExports = {e \in Export : ActiveState(view[e])}
    BY <1>3 DEF ActiveExports
  <1>5. /\ UNCHANGED card /\ pc' = "begin_manifest"
        /\ plan'.req = q /\ plan'.date = d
    BY DEF BeginFresh
  <1>6. \A e \in Export : Load(e)' = Load(e)
    BY <1>5 DEF card, Load, Readable
  <1>7. (\A e \in Export : Active(e)' = Active(e) /\ Phase(e)' = Phase(e))
        /\ ActiveExports' = ActiveExports
    BY <1>6 DEF Active, Phase, ActiveExports
  <1>8. /\ \A e \in Export : Load(e) # Nothing => man[e].req # plan'.req
        /\ \A e \in Export : Active(e) => man[e].date # plan'.date
        /\ Cardinality(ActiveExports) < MaxActive
    BY <1>1, <1>2, <1>3, <1>4, <1>5 DEF Answers, RoomForOne
  <1> QED  BY <1>5, <1>6, <1>7, <1>8
           DEF Alone, OneActivePerDate, OneExportPerRequest, ActiveBounded, ActiveExports, card

\* An export is being prepared after a step only if the step began it or left
\* it alone.
LEMMA Beginnings ==
    ASSUME Types, [Next]_vars, pc' \in Beginning
    PROVE  \/ \E q \in Request, d \in Date : BeginFresh(q, d)
           \/ /\ pc \in Beginning /\ UNCHANGED <<plan, cur, st, extra, edits>>
              /\ dir \subseteq dir' /\ \A r \in dir : size'[r] = size[r]
  <1>1. CASE TaskStep
    BY <1>1
       DEF TaskStep, BeginManifest, BeginState, BeginCleanup, CommitMark, CommitErase,
           CommitRmdir, DeleteFails, CommitProgress, CommitNote, CommitFinish, AbortWrite,
           Done, Beginning
  <1>2. CASE \E e \in Export : Commit(e) \/ Abort(e) \/ GetStatus(e)
    BY <1>2 DEF Commit, Abort, GetStatus, Idle, task, Beginning
  <1>3. CASE \E r \in Record : NewRecording(r) \/ HostEdit(r)
    BY <1>3 DEF NewRecording, HostEdit, Idle, task, Beginning, Types, TypeOK
  <1>4. CASE Crash \/ Refuse \/ UNCHANGED vars
    BY <1>4 DEF Crash, Done, Refuse, Idle, vars, task, card, Beginning
  <1>5. CASE \E q \in Request, d \in Date : BeginKnown(q, d)
    BY <1>5 DEF BeginKnown, Idle, task, Beginning
  <1> QED  BY <1>1, <1>2, <1>3, <1>4, <1>5 DEF Next

LEMMA AloneKept ==
    ASSUME Types, Stage, Alone, NoReadFaults, [Next]_vars
    PROVE  Alone'
  <1>1. \A e \in Export :
            /\ Load(e)' # Nothing => Load(e) # Nothing \/ (e = cur /\ pc = "begin_state")
            /\ Active(e)' => Active(e) \/ (e = cur /\ pc = "begin_state")
            /\ Load(e)' # Nothing => man'[e] = man[e]
            /\ Active(e)' => Load(e)' # Nothing
    BY NewlyKnown, LoadStep DEF ActiveState
  <1>2. pc = "begin_state" => man[cur] = plan
    BY DEF Types, Shape
  <1>3. OneActivePerDate'
    <2> SUFFICES ASSUME NEW a \in Export, NEW b \in Export, a # b, Active(a)', Active(b)'
                 PROVE  man'[a].date # man'[b].date
      BY DEF OneActivePerDate
    <2> QED  BY <1>1, <1>2 DEF Alone, OneActivePerDate, Beginning
  <1>4. OneExportPerRequest'
    <2> SUFFICES ASSUME NEW a \in Export, NEW b \in Export, a # b,
                        Phase(a)' # "none", Phase(b)' # "none"
                 PROVE  man'[a].req # man'[b].req
      BY DEF OneExportPerRequest
    <2>1. \A e \in Export : Load(e) # Nothing => Phase(e) # "none"
      BY LoadTypes DEF Phase, States, Phases
    <2>2. Load(a)' # Nothing /\ Load(b)' # Nothing
      BY DEF Phase
    <2> QED  BY <1>1, <1>2, <2>1, <2>2 DEF Alone, OneExportPerRequest, Beginning
  <1>5. ActiveBounded'
    <2>1. IsFiniteSet(ActiveExports) /\ Cardinality(ActiveExports) \in Nat
          /\ Cardinality(ActiveExports) <= MaxActive
      BY ConstantsOK, FS_Subset, FS_CardinalityType
         DEF ActiveExports, Alone, ActiveBounded
    <2>2. CASE pc = "begin_state"
      <3>1. ActiveExports' \subseteq ActiveExports \cup {cur}
        BY <1>1 DEF ActiveExports
      <3>2. /\ IsFiniteSet(ActiveExports \cup {cur})
            /\ Cardinality(ActiveExports \cup {cur}) <= Cardinality(ActiveExports) + 1
        BY <2>1, FS_AddElement
      <3>3. Cardinality(ActiveExports') <= Cardinality(ActiveExports \cup {cur})
        BY <3>1, <3>2, FS_Subset
      <3>4. Cardinality(ActiveExports) < MaxActive
        BY <2>2 DEF Alone, Beginning
      <3>5. /\ Cardinality(ActiveExports') \in Nat
            /\ Cardinality(ActiveExports \cup {cur}) \in Nat
        BY <3>1, <3>2, FS_Subset, FS_CardinalityType
      <3> QED  BY <2>1, <3>2, <3>3, <3>4, <3>5, ConstantsOK DEF ActiveBounded, ActiveExports
    <2>3. CASE pc # "begin_state"
      <3>1. ActiveExports' \subseteq ActiveExports
        BY <1>1, <2>3 DEF ActiveExports
      <3>2. /\ Cardinality(ActiveExports') <= Cardinality(ActiveExports)
            /\ Cardinality(ActiveExports') \in Nat
        BY <2>1, <3>1, FS_Subset, FS_CardinalityType
      <3> QED  BY <2>1, <3>2, ConstantsOK DEF ActiveBounded, ActiveExports
    <2> QED  BY <2>2, <2>3
  <1>6. CASE pc \in Beginning /\ pc' \in Beginning /\ UNCHANGED <<plan, st>>
    <2>1. \A e \in Export : Load(e)' = Load(e) /\ (Active(e)' <=> Active(e))
      <3> SUFFICES ASSUME NEW e \in Export, Load(e)' # Load(e) PROVE FALSE
        BY DEF Active, Phase
      <3>1. Load(e)' \in {Readable(st[e]), Nothing} /\ Load(e) \in {Readable(st[e]), Nothing}
        BY <1>6 DEF Load, Readable
      <3>2. Load(e) # Nothing \/ Load(e)' # Nothing
        OBVIOUS
      <3>3. man'[e] = man[e]
        BY <3>2, LoadStep
      <3> QED  BY <1>6, <3>3 DEF Load, Readable
    <2>2. ActiveExports' = ActiveExports
      BY <2>1 DEF ActiveExports
    <2>3. \A e \in Export : Active(e) => Load(e) # Nothing
      BY DEF Active, Phase
    <2> QED  BY <1>1, <1>3, <1>4, <1>5, <1>6, <2>1, <2>2, <2>3
             DEF Alone
  <1>7. CASE pc' \notin Beginning
    BY <1>3, <1>4, <1>5, <1>7 DEF Alone
  <1> QED  BY <1>6, <1>7, Beginnings, AloneBegin

\* One active export per date, one export per request, and the bound.
THEOREM ExportInvariant ==
    ASSUME NoReadFaults PROVE Spec => [](Types /\ Stage /\ Alone)
<1>1. Init => Types /\ Stage /\ Alone
  <2> SUFFICES ASSUME Init PROVE Stage /\ Alone
    BY TypesInit
  <2>1. \A e \in Export : Load(e) = Nothing
    BY DEF Init, Load
  <2>2. ActiveExports = {}
    BY <2>1 DEF ActiveExports, Active, Phase
  <2>3. ActiveBounded
    BY <2>2, FS_EmptySet, ConstantsOK DEF ActiveBounded, ActiveExports
  <2> QED  BY <2>1, <2>3
           DEF Init, Stage, Deleting, Alone, OneActivePerDate, OneExportPerRequest, Active,
               Phase, Beginning
<1>2. Types /\ Stage /\ Alone /\ [Next]_vars => (Types /\ Stage /\ Alone)'
  BY TypesKept, StageKept, AloneKept
<1> QED  BY <1>1, <1>2, PTL DEF Spec

\* OneActivePerDate: the scan before a begin keeps the dates of the active
\* exports distinct, across every crash and every failed write.
THEOREM OneActivePerDateCorrect ==
    ASSUME NoReadFaults PROVE Spec => []OneActivePerDate
<1>1. Types /\ Stage /\ Alone => OneActivePerDate
  BY DEF Alone
<1> QED  BY <1>1, ExportInvariant, PTL

\* OneExportPerRequest: a begin that is repeated finds the first one's export.
THEOREM OneExportPerRequestCorrect ==
    ASSUME NoReadFaults PROVE Spec => []OneExportPerRequest
<1>1. Types /\ Stage /\ Alone => OneExportPerRequest
  BY DEF Alone
<1> QED  BY <1>1, ExportInvariant, PTL

\* ActiveBounded: there are never more than MaxActive active exports.
THEOREM ActiveBoundedCorrect ==
    ASSUME NoReadFaults PROVE Spec => []ActiveBounded
<1>1. Types /\ Stage /\ Alone => ActiveBounded
  BY DEF Alone
<1> QED  BY <1>1, ExportInvariant, PTL

------------------------------------------------------------------------------
(***************************************************************************)
(* What is deleted, and what the host knows of it.                         *)
(***************************************************************************)
\* Names are never used again: a recording that is gone stays gone.
LEMMA GoneStaysGone ==
    ASSUME Types, [Next]_vars
    PROVE  born \subseteq born' /\ \A r \in born : r \notin dir => r \notin dir'
  <1>1. CASE TaskStep
    BY <1>1
       DEF TaskStep, BeginManifest, BeginState, CommitMark, CommitErase,
           CommitRmdir, CommitProgress, CommitNote, CommitFinish, AbortWrite
  <1>2. CASE \E e \in Export : Commit(e) \/ Abort(e) \/ GetStatus(e)
    BY <1>2 DEF Commit, Abort, GetStatus, card
  <1>3. CASE \E r \in Record : NewRecording(r) \/ HostEdit(r)
    BY <1>3 DEF NewRecording, HostEdit
  <1>4. CASE Crash \/ Refuse \/ UNCHANGED vars
    BY <1>4 DEF Crash, Refuse, vars, card
  <1>5. CASE \E q \in Request, d \in Date : BeginKnown(q, d) \/ BeginFresh(q, d)
    BY <1>5 DEF BeginKnown, BeginFresh, card
  <1> QED  BY <1>1, <1>2, <1>3, <1>4, <1>5 DEF Next

\* Where the manifests after a step come from.
LEMMA ManifestStep ==
    ASSUME Types, [Next]_vars
    PROVE  /\ \A e \in Export : man'[e] \in {man[e], plan, Nothing}
           /\ \/ plan' \in {plan, Nothing}
              \/ \E e \in Export : plan' = man[e] /\ man[e] # Nothing
              \/ \E q \in Request, d \in Date : BeginFresh(q, d)
  <1>1. man = [e \in Export |-> man[e]]
    BY DEF Types, Shape
  <1>2. CASE TaskStep
    BY <1>1, <1>2
       DEF TaskStep, BeginManifest, BeginState, BeginCleanup, CommitMark, CommitErase,
           CommitRmdir, DeleteFails, CommitProgress, CommitNote, CommitFinish, AbortWrite,
           Done
  <1>3. CASE \E e \in Export : Commit(e) \/ Abort(e) \/ GetStatus(e)
    BY <1>3 DEF Commit, Abort, GetStatus, card, task
  <1>4. CASE \E r \in Record : NewRecording(r) \/ HostEdit(r)
    BY <1>4 DEF NewRecording, HostEdit, task
  <1>5. CASE Crash \/ Refuse \/ UNCHANGED vars
    BY <1>1, <1>5 DEF Crash, Done, Refuse, vars, card, task
  <1>6. CASE \E q \in Request, d \in Date : BeginKnown(q, d) \/ BeginFresh(q, d)
    BY <1>6 DEF BeginKnown, BeginFresh, card, task
  <1> QED  BY <1>2, <1>3, <1>4, <1>5, <1>6 DEF Next

\* What begin freezes is there, whole, and of the date.
LEMMA FreshPlan ==
    ASSUME Types, NEW q \in Request, NEW d \in Date, BeginFresh(q, d)
    PROVE  /\ OfDate(plan')
           /\ extra = {} => \A r \in Names(plan') : Frozen(plan', r)
  <1>1. PICK names \in Sorted(RecordsOf(d)) :
            plan' = [req |-> q, date |-> d, names |-> names,
                     sizes |-> [r \in RecordsOf(d) |-> size[r]]]
    BY DEF BeginFresh
  <1>2. RecordsOf(d) \subseteq Record
    BY DEF RecordsOf
  <1>3. Names(plan') = RecordsOf(d)
    BY <1>1, <1>2, SortedNames DEF Names
  <1> QED  BY <1>1, <1>3 DEF OfDate, Frozen, RecordsOf, Complete, Types, TypeOK

\* A preflight that does not resume passes only over what is as it was frozen.
LEMMA PreflightFrozen ==
    ASSUME TypeOK, NEW m, IsManifest(m), NEW deleted, Preflight(m, deleted, FALSE)
    PROVE  \A r \in Names(m) : Frozen(m, r)
  <1> SUFFICES ASSUME NEW r \in Names(m) PROVE Frozen(m, r)
    OBVIOUS
  <1>1. /\ r \in dir \ extra
        /\ \A f \in Files : size[r][f] = m.sizes[r][f]
    BY DEF Preflight, DirectoryOK, SizeMatches, Names
  <1>2. size[r] \in [Files -> Nat] /\ m.sizes[r] \in [Files -> Nat \ {Absent}]
    BY ManifestFacts DEF TypeOK
  <1> QED  BY <1>1, <1>2 DEF Frozen

\* A reply reports what is on the card now.
LEMMA ToldStep ==
    ASSUME Types, Stage, NoReadFaults, [Next]_vars, NEW e \in Export, NEW p \in told'[e]
    PROVE  p \in told[e] \/ (Load(e)' # Nothing /\ p = Load(e)'.phase)
  <1>1. CASE told' = told
    BY <1>1
  <1>2. CASE UNCHANGED card /\ \E o \in Export : Load(o) # Nothing /\ ReplyState(o, Load(o).phase)
    BY <1>2 DEF ReplyState, card, Load, Readable, Types, TypeOK
  <1>3. CASE /\ WriteOk /\ man' = man
             /\ \/ pc = "begin_state" /\ ReplyState(cur, "prepared")
                \/ pc = "finish" /\ ReplyState(cur, "committed")
                \/ pc = "abort" /\ ReplyState(cur, "aborted")
    <2>1. /\ pc # "idle" /\ man[cur] # Nothing /\ cur \in Export /\ info # Nothing
          /\ told' = [told EXCEPT ![cur] = @ \cup {info.phase}]
      BY <1>3, NothingIsNoState
         DEF ReplyState, Types, Shape, Stage, Prepared, Beginning, Deleting
    <2>2. Load(e)' = IF e = cur THEN info ELSE Load(e)
      BY <1>3, <2>1, LoadWriteOk
    <2> QED  BY <2>1, <2>2 DEF Types, TypeOK
  <1>4. CASE TaskStep
    BY <1>1, <1>3, <1>4
       DEF TaskStep, BeginManifest, BeginState, CommitMark, CommitErase,
           CommitRmdir, CommitProgress, CommitNote, CommitFinish, AbortWrite, hist
  <1>5. CASE \E o \in Export : Commit(o) \/ Abort(o) \/ GetStatus(o)
    BY <1>1, <1>2, <1>5, PlainLoads DEF Commit, Abort, GetStatus
  <1>6. CASE \E q \in Request, d \in Date : BeginKnown(q, d) \/ BeginFresh(q, d)
    BY <1>1, <1>2, <1>6, PlainLoads DEF BeginKnown, BeginFresh, Answers, hist
  <1>7. CASE Crash \/ Refuse \/ UNCHANGED vars \/ \E r \in Record : NewRecording(r) \/ HostEdit(r)
    BY <1>1, <1>7 DEF Crash, Refuse, vars, hist, NewRecording, HostEdit
  <1> QED  BY <1>4, <1>5, <1>6, <1>7 DEF Next

\* A deletion is going on after a step only if the step started it, or left it
\* to its export; only a recording made meanwhile leaves it in its place.
LEMMA DeletingStep ==
    ASSUME Types, [Next]_vars, pc' \in Deleting
    PROVE  \/ \E e \in Export : /\ Commit(e) /\ pc = "idle"
                                /\ cur' = e /\ plan' = man[e] /\ pc' # "progress"
           \/ /\ pc \in Deleting /\ UNCHANGED <<cur, plan, confirmed>>
              /\ \/ /\ UNCHANGED <<task, extra, edits>>
                    /\ dir \subseteq dir' /\ \A r \in dir : size'[r] = size[r]
                 \/ pc' \notin {"mark", "progress"}
                 \/ CommitErase \/ CommitRmdir
  <1>1. CASE TaskStep
    BY <1>1
       DEF TaskStep, BeginManifest, BeginState, BeginCleanup, CommitMark, CommitErase,
           CommitRmdir, DeleteFails, CommitProgress, CommitNote, CommitFinish, AbortWrite,
           Done, Deleting, hist
  <1>2. CASE \E e \in Export : Commit(e)
    <2>1. PICK e \in Export : Commit(e)
      BY <1>2
    <2>2. pc = "idle" /\ (UNCHANGED task \/ (cur' = e /\ plan' = man[e] /\ pc' # "progress"))
      BY <2>1 DEF Commit, Idle
    <2> QED  BY <2>1, <2>2 DEF task, Deleting
  <1>3. CASE \E e \in Export : Abort(e) \/ GetStatus(e)
    BY <1>3 DEF Abort, GetStatus, Idle, task, Deleting
  <1>4. CASE \E r \in Record : NewRecording(r) \/ HostEdit(r)
    BY <1>4 DEF NewRecording, HostEdit, Idle, task, hist, Deleting, Types, TypeOK
  <1>5. CASE Crash \/ Refuse \/ UNCHANGED vars
    BY <1>5 DEF Crash, Done, Refuse, Idle, vars, task, card, hist, Deleting
  <1>6. CASE \E q \in Request, d \in Date : BeginKnown(q, d) \/ BeginFresh(q, d)
    BY <1>6 DEF BeginKnown, BeginFresh, Idle, task, Deleting
  <1> QED  BY <1>1, <1>2, <1>3, <1>4, <1>5, <1>6 DEF Next

LEMMA ProgressKept ==
    ASSUME Types, Stage, Progress, NoReadFaults, [Next]_vars
    PROVE  Progress'
  <1>1. Types' /\ Stage'
    BY TypesKept, StageKept
  <1>2. \A e \in Export : man'[e] # Nothing => OfDate(man[e])'
    BY ManifestStep, GoneStaysGone DEF Progress, OfDate, Names
  <1>3. plan' # Nothing => OfDate(plan)'
    <2>1. CASE \E q \in Request, d \in Date : BeginFresh(q, d)
      BY <2>1, FreshPlan, GoneStaysGone DEF OfDate, Names
    <2>2. CASE plan' \in {plan, Nothing} \/ \E e \in Export : plan' = man[e] /\ man[e] # Nothing
      BY <2>2, GoneStaysGone DEF Progress, OfDate, Names
    <2> QED  BY <2>1, <2>2, ManifestStep
  <1>4. pc' \in Deleting => cur' \in confirmed'
    BY DeletingStep DEF Progress, Commit
  <1>5. ASSUME pc' = "mark" PROVE \A r \in Names(plan)' : Frozen(plan, r)'
    <2>1. CASE \E e \in Export : Commit(e) /\ pc = "idle" /\ cur' = e /\ plan' = man[e]
      <3>1. PICK e \in Export : Commit(e) /\ pc = "idle" /\ cur' = e /\ plan' = man[e]
        BY <2>1
      <3>2. Preflight(man[e], Load(e).deleted, FALSE) /\ man[e] # Nothing /\ UNCHANGED card
        BY <3>1, <1>5, PlainLoads DEF Commit, task
      <3>3. \A r \in Names(man[e]) : Frozen(man[e], r)
        BY <3>2, PreflightFrozen DEF Types, TypeOK
      <3> QED  BY <3>1, <3>2, <3>3 DEF Frozen, Names, card
    <2>2. CASE /\ pc \in Deleting /\ UNCHANGED <<plan, task, extra>>
               /\ dir \subseteq dir' /\ \A r \in dir : size'[r] = size[r]
      BY <1>5, <2>2 DEF Progress, Frozen, Names, task
    <2> QED  BY <1>5, <2>1, <2>2, DeletingStep
             DEF CommitErase, CommitRmdir, DeleteFails, Deleting
  <1>6. ASSUME pc' = "progress" PROVE plan'.names[info'.deleted] \notin dir'
    <2>1. pc \in Deleting /\ plan' = plan /\ IsManifest(plan) /\ info \in States
      BY <1>6, DeletingStep DEF Commit, task, Types, TypeOK, Shape, Deleting
    <2>2. CASE UNCHANGED task
      <3>1. info.deleted \in 1..Len(plan.names)
        BY <1>6, <2>1, <2>2, LoadTypes, ManifestFacts
           DEF Stage, States, Deleting, Types, Shape, task
      <3>2. plan.names[info.deleted] \in born
        <4>1. plan # Nothing /\ plan.names[info.deleted] \in Names(plan)
          BY <2>1, <3>1, ManifestFacts DEF Names
        <4> QED  BY <4>1 DEF Progress, OfDate
      <3> QED  BY <1>6, <2>2, <3>2, GoneStaysGone DEF Progress, task
    <2>3. CASE CommitErase \/ CommitRmdir
      BY <1>6, <2>1, <2>3 DEF CommitErase, CommitRmdir, DeleteFails, Victim, States
    <2> QED  BY <1>6, <2>2, <2>3, DeletingStep DEF Deleting
  <1>7. ASSUME NEW e \in Export
        PROVE  /\ Phase(e)' \in {"committing", "committed"} =>
                     \A i \in DOMAIN man'[e].names :
                         i <= Load(e)'.deleted => man'[e].names[i] \notin dir'
               /\ Phase(e)' = "committed" => Load(e)'.deleted = Len(man'[e].names)
               /\ \A p \in told'[e] :
                     /\ Load(e)' # Nothing
                     /\ p \in {"aborted", "committed"} => Load(e)'.phase = p
    <2> DEFINE old == Load(e)
               new == Load(e)'
    <2>1. /\ new = old \/ /\ e = cur /\ new = info /\ info \in States
                          /\ pc \in {"begin_state", "mark", "progress", "note", "finish", "abort"}
          /\ old # Nothing \/ new # Nothing => man'[e] = man[e]
          /\ Phase(e) = IF old = Nothing THEN "none" ELSE old.phase
          /\ Phase(e)' = IF new = Nothing THEN "none" ELSE new.phase
          /\ old # Nothing => IsManifest(man[e]) /\ old \in States /\ OfDate(man[e])
          /\ \A p \in told'[e] : p \in told[e] \/ (new # Nothing /\ p = new.phase)
      BY LoadStep, LoadTypes, ToldStep DEF Phase, Types, Shape, Progress
    <2>2. /\ pc = "begin_state" => info.phase = "prepared" /\ Load(cur) = Nothing
          /\ pc = "mark" => /\ info.phase = "committing" /\ info.deleted = 0
                            /\ Load(cur).phase = "prepared"
          /\ pc = "progress" => /\ info.deleted = Load(cur).deleted + 1
                                /\ Load(cur).phase = "committing" /\ info.phase = "committing"
          /\ pc = "note" => info = Load(cur) /\ info.phase = "committing"
          /\ pc = "finish" => /\ Load(cur).phase = "committing"
                              /\ Load(cur).deleted = Len(plan.names)
                              /\ info.deleted = Len(plan.names) /\ info.phase = "committed"
          /\ pc = "abort" => info.phase = "aborted" /\ Load(cur).phase = "prepared"
          /\ pc \in {"mark", "progress", "note", "finish", "abort"} => Load(cur) # Nothing
          /\ pc \in {"mark", "progress", "note", "finish"} => plan = man[cur]
      BY DEF Stage, Types, Shape, Beginning, Deleting, Prepared, Load, EmptyCell, Readable
    <2> HIDE DEF old, new
    <2>3. ASSUME Phase(e)' \in {"committing", "committed"},
                 NEW i \in DOMAIN man'[e].names, i <= new.deleted
          PROVE  man'[e].names[i] \notin dir'
      <3>1. new # Nothing /\ man'[e] = man[e] /\ old # Nothing
        BY <2>1, <2>2, <2>3 DEF old
      <3>2. man[e].names[i] \in born /\ i \in 1..Len(man[e].names)
        BY <2>1, <2>3, <3>1, ManifestFacts DEF OfDate, Names
      <3>3. CASE old.phase \in {"committing", "committed"} /\ i <= old.deleted
        BY <2>1, <3>1, <3>2, <3>3, GoneStaysGone DEF Progress, old
      <3>4. CASE pc = "progress" /\ e = cur /\ i = info.deleted
        BY <2>2, <3>1, <3>2, <3>4, GoneStaysGone DEF Progress
      <3>5. old.deleted \in Nat
        BY <2>1, <3>1 DEF States
      <3>6. CASE new = old
        BY <2>1, <2>3, <3>1, <3>3, <3>6
      <3>7. CASE e = cur /\ new = info /\ pc \in {"mark", "progress", "note", "finish", "abort"}
        BY <2>1, <2>2, <2>3, <3>1, <3>2, <3>3, <3>4, <3>5, <3>7 DEF old
      <3> QED  BY <2>1, <2>2, <2>3, <3>1, <3>6, <3>7
    <2>4. ASSUME Phase(e)' = "committed" PROVE new.deleted = Len(man'[e].names)
      <3>1. new # Nothing /\ man'[e] = man[e] /\ old # Nothing
        BY <2>1, <2>2, <2>4 DEF old
      <3> QED  BY <2>1, <2>2, <2>4, <3>1 DEF Progress, old
    <2>5. ASSUME NEW p \in told'[e]
          PROVE  /\ new # Nothing
                 /\ p \in {"aborted", "committed"} => new.phase = p
      <3>1. CASE p \in told[e]
        <4>1. old # Nothing /\ (p \in {"aborted", "committed"} => old.phase = p)
          BY <3>1 DEF Progress, old
        <4>2. CASE new = old
          BY <4>1, <4>2
        <4>3. CASE /\ e = cur /\ new = info /\ info \in States
                   /\ pc \in {"begin_state", "mark", "progress", "note", "finish", "abort"}
          BY <2>1, <2>2, <4>1, <4>3, NothingIsNoState DEF old
        <4> QED  BY <2>1, <4>2, <4>3
      <3> QED  BY <2>1, <3>1
    <2> QED  BY <2>3, <2>4, <2>5 DEF new
  <1>8. Progress'
    BY <1>2, <1>3, <1>4, <1>5, <1>6, <1>7 DEF Progress
  <1> QED  BY <1>8

THEOREM ProgressInvariant ==
    ASSUME NoReadFaults PROVE Spec => [](Types /\ Stage /\ Progress)
<1>1. Init => Types /\ Stage /\ Progress
  <2> SUFFICES ASSUME Init PROVE Stage /\ Progress
    BY TypesInit
  <2>1. \A e \in Export : Load(e) = Nothing
    BY DEF Init, Load
  <2> QED  BY <2>1 DEF Init, Stage, Deleting, Progress, Phase
<1>2. Types /\ Stage /\ Progress /\ [Next]_vars => (Types /\ Stage /\ Progress)'
  BY TypesKept, StageKept, ProgressKept
<1> QED  BY <1>1, <1>2, PTL DEF Spec

\* AcknowledgedIsDurable: no crash and no failed write takes back what a reply
\* told the host.
THEOREM AcknowledgedIsDurableCorrect ==
    ASSUME NoReadFaults PROVE Spec => []AcknowledgedIsDurable
<1>1. Types /\ Stage /\ Progress => AcknowledgedIsDurable
  <2> SUFFICES ASSUME Types, Progress, NEW e \in Export, NEW p \in told[e]
               PROVE  /\ Phase(e) # "none"
                      /\ p \in {"aborted", "committed"} => Phase(e) = p
                      /\ p = "committed" => Names(man[e]) \cap dir = {}
    BY DEF AcknowledgedIsDurable
  <2>1. /\ Load(e) # Nothing /\ Load(e) \in States /\ man[e] # Nothing
        /\ p \in {"aborted", "committed"} => Load(e).phase = p
    BY LoadTypes DEF Progress, Load
  <2>2. Phase(e) # "none" /\ (p \in {"aborted", "committed"} => Phase(e) = p)
    BY <2>1 DEF Phase, States, Phases
  <2>3. ASSUME Phase(e) = "committed"
        PROVE  Names(man[e]) \cap dir = {}
    <3>1. \A i \in DOMAIN man[e].names : i <= Len(man[e].names)
      BY <2>1, ManifestFacts DEF Types, TypeOK
    <3> QED  BY <2>3, <3>1 DEF Progress, Names
  <2> QED  BY <2>2, <2>3
<1> QED  BY <1>1, ProgressInvariant, PTL

\* The recording being deleted is the one at the cursor of its export.
LEMMA VictimFacts ==
    ASSUME Types, Stage, pc \in {"erase", "rmdir"}
    PROVE  /\ info \in States /\ info = Load(cur) /\ Phase(cur) = "committing" /\ Active(cur)
           /\ plan = man[cur] /\ IsManifest(plan) /\ cur \in Export
           /\ info.deleted + 1 \in DOMAIN plan.names
           /\ Victim \in Names(plan) /\ Victim \in Record
  <1>1. /\ info \in States /\ info = Load(cur) /\ info.phase = "committing"
        /\ info.deleted < Len(plan.names) /\ plan = man[cur] /\ cur \in Export
        /\ IsManifest(plan)
    BY DEF Stage, Types, TypeOK, Shape, Deleting
  <1>2. info.deleted + 1 \in DOMAIN plan.names
    BY <1>1, ManifestFacts DEF States
  <1>3. Phase(cur) = "committing"
    BY <1>1, NothingIsNoState DEF Phase
  <1>4. Victim \in Names(plan)
    BY <1>2 DEF Victim, Names
  <1> QED  BY <1>1, <1>2, <1>3, <1>4, ManifestFacts DEF Active

\* Unless the host edits, a file goes only where a commit deletes it.
LEMMA Erased ==
    ASSUME Types, [Next]_vars, NEW r \in Record, NEW f \in Files,
           size[r][f] # Absent, size'[r][f] = Absent, edits' = edits
    PROVE  /\ pc = "erase" /\ r = Victim /\ f = file
           /\ plan.sizes[r][f] = size[r][f]
  <1>1. size \in [Record -> [Files -> Nat]] /\ edits \in Nat
    BY ConstantsOK DEF Types, TypeOK
  <1>2. size' # size
    OBVIOUS
  <1>3. CASE CommitErase
    <2>1. /\ pc = "erase" /\ SizeMatches(plan, Victim, file)
          /\ size' = [size EXCEPT ![Victim] = [size[Victim] EXCEPT ![file] = Absent]]
      BY <1>2, <1>3 DEF CommitErase
    <2> QED  BY <1>1, <2>1 DEF SizeMatches
  <1>4. CASE \E o \in Record : NewRecording(o)
    BY <1>1, <1>4 DEF NewRecording, Absent
  <1>5. CASE \E o \in Record : HostEdit(o)
    BY <1>1, <1>5 DEF HostEdit
  <1> QED  BY <1>2, <1>3, <1>4, <1>5
           DEF Next, TaskStep, BeginKnown, BeginFresh, Commit, Abort, GetStatus, Refuse,
               BeginManifest, BeginState, CommitMark, CommitRmdir, CommitProgress, CommitNote,
               CommitFinish, AbortWrite, Crash, vars, card

\* DeletesOnlyConfirmed: a file goes only in the deletion of its own recording,
\* which the host asked for and the card remembers.
THEOREM DeletesOnlyConfirmedCorrect ==
    ASSUME NoReadFaults PROVE Spec => DeletesOnlyConfirmed
<1> DEFINE Deletes ==
        \A r \in Record, f \in Files :
            size[r][f] # Absent /\ size'[r][f] = Absent /\ edits' = edits =>
                \E e \in confirmed :
                    /\ Phase(e) = "committing" /\ r \in Names(man[e])
                    /\ man[e].sizes[r][f] = size[r][f]
<1>1. Types /\ Stage /\ Progress /\ [Next]_vars => [Deletes]_vars
  <2> SUFFICES ASSUME Types, Stage, Progress, [Next]_vars,
                      NEW r \in Record, NEW f \in Files,
                      size[r][f] # Absent, size'[r][f] = Absent, edits' = edits
               PROVE  \E e \in confirmed :
                          /\ Phase(e) = "committing" /\ r \in Names(man[e])
                          /\ man[e].sizes[r][f] = size[r][f]
    OBVIOUS
  <2>1. pc = "erase" /\ r = Victim /\ plan.sizes[r][f] = size[r][f]
    BY Erased
  <2>2. Phase(cur) = "committing" /\ plan = man[cur] /\ Victim \in Names(plan)
    BY <2>1, VictimFacts
  <2> QED  BY <2>1, <2>2 DEF Progress, Deleting
<1> QED  BY <1>1, ProgressInvariant, PTL DEF Spec, DeletesOnlyConfirmed

------------------------------------------------------------------------------
(***************************************************************************)
(* What holds also when reads fail: the state that a request works with    *)
(* may be the backup's, older than the card's.                             *)
(***************************************************************************)
\* Some state of the export, read or not, is that of a deletion begun.
Begun(e) == \E v \in {st[e].main, st[e].bak} \ {Nothing} : v.phase = "committing"

\* A prepared export has no older state, so that none is read in its place; one that
\* the host confirmed can be loaded; and a deletion goes on for such an export only,
\* once its committing state was on the card.
Steady ==
    /\ \A e \in Export : st[e].main # Nothing /\ st[e].main.phase = "prepared" =>
                            st[e].bak = Nothing
    /\ \A e \in confirmed : Load(e) # Nothing
    /\ pc \in Deleting => cur \in confirmed
    /\ pc = "mark" => /\ info.phase = "committing" /\ info.deleted = 0
                      /\ \A r \in Names(plan) : Frozen(plan, r)
    /\ pc \in Deleting \ {"mark"} => Begun(cur) /\ info.phase \in {"committing", "committed"}
    /\ pc \in {"erase", "rmdir"} => info.deleted < Len(plan.names)
    /\ pc \in {"erase", "rmdir", "progress"} => info.phase = "committing"
    /\ pc = "abort" => info.phase = "aborted"

\* Only the state being written changes, in one of the ways a write can end.
LEMMA CellStep ==
    ASSUME Types, [Next]_vars, NEW e \in Export
    PROVE  \/ st'[e] = st[e]
           \/ e = cur /\ Writing /\ st'[e] \in CrashOutcomes(st[e], info)
  <1>1. st \in [Export -> Cells(States)]
    BY DEF Types, TypeOK
  <1>2. CASE WriteOk /\ Writing
    BY <1>1, <1>2 DEF WriteOk, CrashOutcomes
  <1>3. CASE WriteFails /\ Writing
    BY <1>1, <1>3 DEF WriteFails, CrashOutcomes
  <1>4. CASE TaskStep
    BY <1>2, <1>3, <1>4
       DEF TaskStep, BeginManifest, BeginState, CommitMark, CommitErase, CommitRmdir,
           CommitProgress, CommitNote, CommitFinish, AbortWrite, Writing
  <1>5. CASE Crash
    BY <1>1, <1>5 DEF Crash
  <1>6. CASE UNCHANGED st
    BY <1>6
  <1> QED  BY <1>4, <1>5, <1>6
           DEF Next, BeginKnown, BeginFresh, Commit, Abort, GetStatus, Refuse, NewRecording,
               HostEdit, vars, card

\* What a confirmation reads is a state of the export, and it changes no file.
LEMMA CommitReads ==
    ASSUME Types, NEW e \in Export, Commit(e)
    PROVE  \E s \in Loads(e) :
              /\ s # Nothing /\ s \in States /\ Load(e) # Nothing /\ IsManifest(man[e])
              /\ s \in {st[e].main, st[e].bak}
              /\ UNCHANGED card /\ pc = "idle" /\ confirmed' = confirmed \cup {e}
              /\ \/ UNCHANGED task
                 \/ /\ cur' = e /\ plan' = man[e]
                    /\ \/ /\ pc' = "mark" /\ s.phase = "prepared"
                          /\ info' = [phase |-> "committing", deleted |-> 0]
                          /\ Preflight(man[e], s.deleted, FALSE)
                       \/ /\ s.phase = "committing"
                          /\ \/ pc' = "note" /\ info' = s
                             \/ pc' = "erase" /\ info' = s /\ s.deleted < Len(man[e].names)
                             \/ pc' = "finish" /\ info' = [s EXCEPT !.phase = "committed"]
  <1>1. PICK s \in Loads(e) \ {Nothing}, passes \in BOOLEAN :
           LET resuming == s.phase = "committing"
           IN  /\ passes => Preflight(man[e], s.deleted, resuming)
               /\ \/ UNCHANGED task
                  \/ /\ s.phase = "prepared" /\ passes
                     /\ pc' = "mark"
                     /\ info' = [phase |-> "committing", deleted |-> 0]
                     /\ cur' = e /\ plan' = man[e]
                  \/ /\ resuming
                     /\ pc' = IF ~passes THEN "note"
                              ELSE IF s.deleted < Len(man[e].names) THEN "erase" ELSE "finish"
                     /\ info' = IF passes /\ s.deleted = Len(man[e].names)
                                  THEN [s EXCEPT !.phase = "committed"] ELSE s
                     /\ cur' = e /\ plan' = man[e]
    BY DEF Commit
  <1>2. /\ s # Nothing /\ s \in States /\ man[e] # Nothing /\ IsManifest(man[e])
        /\ s \in {st[e].main, st[e].bak} /\ Load(e) # Nothing
        /\ s.deleted \in Nat /\ Len(man[e].names) \in Nat
    BY LoadTypes, ManifestFacts DEF Loads, Load, Readable, States
  <1>3. UNCHANGED card /\ pc = "idle" /\ confirmed' = confirmed \cup {e}
    BY DEF Commit, Idle
  <1>4. CASE UNCHANGED task
    BY <1>2, <1>3, <1>4
  <1>5. CASE /\ s.phase = "prepared" /\ Preflight(man[e], s.deleted, FALSE) /\ pc' = "mark"
             /\ info' = [phase |-> "committing", deleted |-> 0] /\ cur' = e /\ plan' = man[e]
    BY <1>2, <1>3, <1>5
  <1>6. CASE s.phase = "committing" /\ ~UNCHANGED task
    <2>1. /\ passes => Preflight(man[e], s.deleted, TRUE)
          /\ cur' = e /\ plan' = man[e]
          /\ pc' = IF ~passes THEN "note"
                   ELSE IF s.deleted < Len(man[e].names) THEN "erase" ELSE "finish"
          /\ info' = IF passes /\ s.deleted = Len(man[e].names)
                       THEN [s EXCEPT !.phase = "committed"] ELSE s
      BY <1>1, <1>6
    <2>2. passes => s.deleted <= Len(man[e].names)
      BY <2>1 DEF Preflight
    <2>3. \/ pc' = "note" /\ info' = s
          \/ pc' = "erase" /\ info' = s /\ s.deleted < Len(man[e].names)
          \/ pc' = "finish" /\ info' = [s EXCEPT !.phase = "committed"]
      BY <1>2, <2>1, <2>2
    <2> QED  BY <1>2, <1>3, <1>6, <2>1, <2>3
  <1>7. s.phase = "committing" \/ UNCHANGED task \/
        (/\ s.phase = "prepared" /\ Preflight(man[e], s.deleted, FALSE) /\ pc' = "mark"
         /\ info' = [phase |-> "committing", deleted |-> 0] /\ cur' = e /\ plan' = man[e])
    BY <1>1
  <1> QED  BY <1>4, <1>5, <1>6, <1>7

LEMMA SteadyKept ==
    ASSUME Types, Steady, [Next]_vars
    PROVE  Steady'
  <1>1. ASSUME NEW e \in Export, st'[e].main # Nothing, st'[e].main.phase = "prepared"
        PROVE  st'[e].bak = Nothing
    <2>1. CASE st'[e] = st[e]
      BY <1>1, <2>1 DEF Steady
    <2>2. CASE e = cur /\ Writing /\ st'[e] \in OkOutcomes(st[e], info)
      <3>1. st'[e].main = info
        BY <2>2 DEF OkOutcomes
      <3>2. pc = "begin_state"
        BY <1>1, <2>2, <3>1 DEF Steady, Writing, Deleting
      <3> QED  BY <2>2, <3>2 DEF Types, Shape, Beginning, OkOutcomes, EmptyCell
    <2>3. CASE st'[e] \in FailOutcomes(st[e])
      BY <1>1, <2>3 DEF FailOutcomes, Steady
    <2> QED  BY <2>1, <2>2, <2>3, CellStep DEF CrashOutcomes
  <1>2. ASSUME NEW e \in confirmed' PROVE Load(e)' # Nothing
    <2>1. e \in Export
      BY <1>2, TypesKept DEF Types, TypeOK
    <2>2. Load(e) # Nothing
      <3>1. CASE \E o \in Export : Commit(o)
        BY <1>2, <3>1, CommitReads DEF Steady
      <3>2. CASE confirmed' = confirmed
        BY <1>2, <3>2 DEF Steady
      <3> QED  BY <3>1, <3>2
               DEF Next, TaskStep, BeginKnown, BeginFresh, Abort, GetStatus, Refuse,
                   BeginManifest, BeginState, CommitMark, CommitErase, CommitRmdir,
                   CommitProgress, CommitNote, CommitFinish, AbortWrite, Crash, NewRecording,
                   HostEdit, vars, hist
    <2> QED  BY <2>1, <2>2, LoadStep, NothingIsNoState DEF Types, Shape
  <1> DEFINE Task ==
        /\ pc \in Deleting => cur \in confirmed
        /\ pc = "mark" => /\ info.phase = "committing" /\ info.deleted = 0
                          /\ \A r \in Names(plan) : Frozen(plan, r)
        /\ pc \in Deleting \ {"mark"} =>
              Begun(cur) /\ info.phase \in {"committing", "committed"}
        /\ pc \in {"erase", "rmdir"} => info.deleted < Len(plan.names)
        /\ pc \in {"erase", "rmdir", "progress"} => info.phase = "committing"
        /\ pc = "abort" => info.phase = "aborted"
  <1>3. ASSUME NEW e \in Export, Commit(e), ~UNCHANGED task PROVE Task'
    <2>1. PICK s \in Loads(e) :
             /\ s # Nothing /\ s \in States /\ IsManifest(man[e])
             /\ s \in {st[e].main, st[e].bak}
             /\ UNCHANGED card /\ confirmed' = confirmed \cup {e}
             /\ cur' = e /\ plan' = man[e]
             /\ \/ /\ pc' = "mark" /\ s.phase = "prepared"
                   /\ info' = [phase |-> "committing", deleted |-> 0]
                   /\ Preflight(man[e], s.deleted, FALSE)
                \/ /\ s.phase = "committing"
                   /\ \/ pc' = "note" /\ info' = s
                      \/ pc' = "erase" /\ info' = s /\ s.deleted < Len(man[e].names)
                      \/ pc' = "finish" /\ info' = [s EXCEPT !.phase = "committed"]
      BY <1>3, CommitReads
    <2>2. pc' = "mark" => \A r \in Names(man[e]) : Frozen(man[e], r)
      BY <2>1, PreflightFrozen DEF Types
    <2>3. pc' = "mark" => \A r \in Names(plan)' : Frozen(plan, r)'
      BY <2>1, <2>2 DEF Frozen, Names, card
    <2>4. pc' # "mark" => Begun(cur)'
      BY <2>1 DEF Begun, card
    <2>5. pc' # "mark" => info'.phase \in {"committing", "committed"}
      BY <2>1 DEF States
    <2>6. cur' \in confirmed'
      BY <2>1
    <2>7. CASE pc' = "mark"
      BY <2>1, <2>3, <2>6, <2>7
    <2>8. CASE pc' \in {"note", "erase", "finish"}
      BY <2>1, <2>4, <2>5, <2>6, <2>8
    <2> QED  BY <2>1, <2>7, <2>8
  <1>4. ASSUME CommitMark /\ ~Done
        PROVE  Task'
    <2>1. /\ WriteOk /\ pc' = "erase" /\ UNCHANGED <<cur, info, plan, confirmed>>
          /\ pc = "mark" /\ cur \in Export /\ info \in States
      BY <1>4 DEF CommitMark, hist, Types, Shape
    <2>2. st'[cur].main = info
      BY <2>1 DEF WriteOk, OkOutcomes, Types, TypeOK
    <2>3. Begun(cur)'
      BY <2>1, <2>2, NothingIsNoState DEF Begun, Steady
    <2>4. Len(plan.names) \in Nat \ {0}
      BY <2>1, ManifestFacts DEF Types, TypeOK, Shape, Deleting
    <2> QED  BY <2>1, <2>3, <2>4 DEF Steady, Deleting
  <1>5. ASSUME CommitProgress /\ ~Done
        PROVE  Task'
    <2>1. /\ WriteOk /\ UNCHANGED <<cur, plan, confirmed>>
          /\ pc = "progress" /\ cur \in Export /\ info \in States
          /\ IF info.deleted < Len(plan.names)
               THEN pc' = "erase" /\ UNCHANGED info
               ELSE pc' = "finish" /\ info' = [info EXCEPT !.phase = "committed"]
      BY <1>5 DEF CommitProgress, hist, Types, Shape
    <2>2. st'[cur].main = info
      BY <2>1 DEF WriteOk, OkOutcomes, Types, TypeOK
    <2>3. Begun(cur)'
      BY <2>1, <2>2, NothingIsNoState DEF Begun, Steady
    <2>4. info'.phase \in {"committing", "committed"}
      BY <2>1 DEF Steady, States
    <2> QED  BY <2>1, <2>3, <2>4 DEF Steady, Deleting
  <1>6. ASSUME (CommitErase \/ CommitRmdir) /\ ~Done
        PROVE  Task'
    <2>1. /\ pc \in {"erase", "rmdir"} /\ UNCHANGED <<cur, plan, st, confirmed>>
          /\ \/ pc' \in {"erase", "rmdir", "note"} /\ info' = info
             \/ pc' = "progress" /\ info' = [info EXCEPT !.deleted = @ + 1]
      BY <1>6 DEF CommitErase, CommitRmdir, DeleteFails, hist
    <2>2. info.phase = "committing" => info'.phase = "committing"
      BY <2>1 DEF Types, Shape, States
    <2> QED  BY <2>1, <2>2 DEF Steady, Deleting, Begun
  <1>7. ASSUME Done \/ pc' \in Beginning
        PROVE  Task'
    BY <1>7 DEF Done, Deleting, Beginning
  <1>8. ASSUME UNCHANGED <<task, st>> /\ confirmed \subseteq confirmed' /\
             (pc = "idle" \/ (UNCHANGED extra /\ dir \subseteq dir' /\ \A r \in dir : size'[r] = size[r]))
        PROVE  Task'
    BY <1>8 DEF Steady, task, Deleting, Begun, Frozen, Names
  <1>9. ASSUME \E e \in Export : Abort(e)
        PROVE  Task'
    BY <1>8, <1>9, LoadTypes DEF Abort, Idle, card, Deleting, States
  <1>10. ASSUME TaskStep
        PROVE  Task'
    BY <1>4, <1>5, <1>6, <1>7, <1>10
       DEF TaskStep, BeginManifest, BeginState, BeginCleanup, CommitNote, CommitFinish,
           AbortWrite, Beginning
  <1>11. ASSUME \E r \in Record : NewRecording(r) \/ HostEdit(r)
        PROVE  Task'
    BY <1>8, <1>11 DEF NewRecording, HostEdit, Idle, hist, task, Types, TypeOK
  <1>12. Task'
    <2>1. ASSUME NEW e \in Export, Commit(e), UNCHANGED task
          PROVE  Task'
      <3>1. UNCHANGED card /\ pc = "idle" /\ confirmed' = confirmed \cup {e}
        BY <2>1, CommitReads
      <3> HIDE DEF Task
      <3> QED  BY <1>8, <2>1, <3>1 DEF card
    <2>2. ASSUME NEW e \in Export, Commit(e)
          PROVE  Task'
      BY <1>3, <2>1, <2>2
    <2> QED
      BY <1>7, <1>8, <1>9, <1>10, <1>11, <2>2
         DEF Next, BeginKnown, BeginFresh, GetStatus, Refuse, Idle, Crash, vars, card,
             hist, task, Beginning
  <1> HIDE DEF Task
  <1>13. (\A e \in Export : st[e].main # Nothing /\ st[e].main.phase = "prepared" =>
                                st[e].bak = Nothing)'
    BY <1>1
  <1>14. (\A e \in confirmed : Load(e) # Nothing)'
    BY <1>2
  <1> QED  BY <1>12, <1>13, <1>14 DEF Steady, Task

\* The invariant that no failed read breaks.
THEOREM SteadyInvariant == Spec => [](Types /\ Steady)
<1>1. Init => Types /\ Steady
  BY TypesInit DEF Init, Steady, Deleting, EmptyCell
<1>2. Types /\ Steady /\ [Next]_vars => (Types /\ Steady)'
  BY TypesKept, SteadyKept
<1> QED  BY <1>1, <1>2, PTL DEF Spec

\* StartsOnlyIntact: the state that starts a deletion is written only while all
\* recordings it lists are as they were frozen, also when reads fail.
THEOREM StartsOnlyIntactCorrect == Spec => StartsOnlyIntact
<1> DEFINE Starts ==
        \A e \in Export : Phase(e) = "prepared" /\ Phase(e)' = "committing" =>
            \A r \in Names(man[e]) : r \in dir \ extra /\ size[r] = man[e].sizes[r]
<1>1. Types /\ Steady /\ [Next]_vars => [Starts]_vars
  <2> SUFFICES ASSUME Types, Steady, [Next]_vars, NEW e \in Export,
                      Phase(e) = "prepared", Phase(e)' = "committing",
                      NEW r \in Names(man[e])
               PROVE  r \in dir \ extra /\ size[r] = man[e].sizes[r]
    OBVIOUS
  <2>1. Load(e) # Nothing /\ Load(e).phase = "prepared"
        /\ Load(e)' # Nothing /\ Load(e)'.phase = "committing"
    BY DEF Phase
  <2>2. ~Begun(e)
    BY <2>1 DEF Begun, Steady, Load, Readable
  <2>3. e = cur /\ pc = "mark"
    BY <2>1, <2>2, LoadStep DEF Steady, Types, Shape, Beginning, Prepared, Deleting
  <2> QED  BY <2>3 DEF Steady, Frozen, Types, Shape, Deleting
<1> QED  BY <1>1, SteadyInvariant, PTL DEF Spec, StartsOnlyIntact

LEMMA VictimListed ==
    ASSUME Types, Steady, pc \in {"erase", "rmdir"}
    PROVE  /\ cur \in confirmed /\ Begun(cur)
           /\ plan = man[cur] /\ Victim \in Names(plan)
  <1>1. /\ cur \in confirmed /\ Begun(cur) /\ plan = man[cur] /\ IsManifest(plan)
        /\ info \in States /\ info.deleted < Len(plan.names)
    BY DEF Steady, Types, TypeOK, Shape, Deleting
  <1>2. info.deleted + 1 \in DOMAIN plan.names
    BY <1>1, ManifestFacts DEF States
  <1> QED  BY <1>1, <1>2 DEF Victim, Names

\* What is left of DeletesOnlyConfirmed when an old state may be read in place of the
\* last one, of an export that was aborted since: a file is deleted only if the host
\* confirmed the export, the deletion was marked on the card, and the manifest lists the
\* file with the size it has (868-916).
DeletesOnlyListed ==
    [][\A r \in Record, f \in Files :
          size[r][f] # Absent /\ size'[r][f] = Absent /\ edits' = edits =>
              \E e \in confirmed : /\ Begun(e) /\ r \in Names(man[e])
                                   /\ man[e].sizes[r][f] = size[r][f]]_vars

\* DeletesOnlyListed holds whatever cannot be read.
THEOREM DeletesOnlyListedCorrect == Spec => DeletesOnlyListed
<1> DEFINE Deletes ==
        \A r \in Record, f \in Files :
            size[r][f] # Absent /\ size'[r][f] = Absent /\ edits' = edits =>
                \E e \in confirmed : /\ Begun(e) /\ r \in Names(man[e])
                                     /\ man[e].sizes[r][f] = size[r][f]
<1>1. Types /\ Steady /\ [Next]_vars => [Deletes]_vars
  BY Erased, VictimListed
<1> QED  BY <1>1, SteadyInvariant, PTL DEF Spec, DeletesOnlyListed

------------------------------------------------------------------------------
(***************************************************************************)
(* Without edits by the host, every deletion can be resumed.               *)
(***************************************************************************)
\* No other active export lists the recording being deleted.
LEMMA OtherVictim ==
    ASSUME Types, Stage, Alone, Progress, pc \in {"erase", "rmdir"},
           NEW e \in Export, e # cur, Active(e)
    PROVE  Victim \notin Names(man[e])
  <1>1. man[e].date # man[cur].date
    BY VictimFacts DEF Alone, OneActivePerDate
  <1>2. man[e] # Nothing /\ man[cur] # Nothing
    BY VictimFacts, ManifestFacts DEF Active, Phase, Load
  <1> QED  BY <1>1, <1>2, VictimFacts DEF Progress, OfDate

\* What a step may do to the files of recordings while the host does not edit.
LEMMA DiskStep ==
    ASSUME Types, [Next]_vars, edits' = 0
    PROVE  /\ edits = 0 /\ extra' = extra
           /\ \A r \in dir : \/ r \in dir' /\ size'[r] = size[r]
                             \/ pc \in {"erase", "rmdir"} /\ r = Victim
           /\ \A r \in dir : \A f \in Files : size'[r][f] \in {size[r][f], Absent}
  <1>1. edits \in Nat /\ size \in [Record -> [Files -> Nat]] /\ dir \subseteq Record
        /\ dir \subseteq born
    BY ConstantsOK DEF Types, TypeOK
  <1>2. CASE UNCHANGED <<dir, size, extra, edits>>
    BY <1>2
  <1>3. CASE CommitErase
    BY <1>1, <1>3 DEF CommitErase, DeleteFails, Absent
  <1>4. CASE CommitRmdir
    BY <1>1, <1>4 DEF CommitRmdir, DeleteFails
  <1>5. CASE \E r \in Record : NewRecording(r)
    BY <1>1, <1>5 DEF NewRecording
  <1>6. CASE \E r \in Record : HostEdit(r)
    BY <1>1, <1>6 DEF HostEdit
  <1> QED  BY <1>2, <1>3, <1>4, <1>5, <1>6
           DEF Next, TaskStep, BeginKnown, BeginFresh, Commit, Abort, GetStatus, Refuse,
               BeginManifest, BeginState, CommitMark, CommitProgress, CommitNote,
               CommitFinish, AbortWrite, Crash, vars, card

LEMMA IntactKept ==
    ASSUME Types, Stage, Alone, Progress, Intact, NoReadFaults, [Next]_vars
    PROVE  Intact'
  <1> SUFFICES ASSUME edits' = 0
               PROVE  /\ extra' = {}
                      /\ pc' \in Beginning => \A r \in Names(plan)' : Frozen(plan, r)'
                      /\ \A e \in Export : Phase(e)' = "prepared" =>
                            \A r \in Names(man'[e]) : Frozen(man[e], r)'
                      /\ \A e \in Export : Phase(e)' = "committing" =>
                            /\ Load(e)'.deleted <= Len(man'[e].names)
                            /\ \A i \in DOMAIN man'[e].names :
                                  /\ i > Load(e)'.deleted + 1 => Frozen(man[e], man[e].names[i])'
                                  /\ i = Load(e)'.deleted + 1 /\ man'[e].names[i] \in dir' =>
                                        \A f \in Files : size'[man'[e].names[i]][f]
                                          \in {Absent, man'[e].sizes[man'[e].names[i]][f]}
    BY DEF Intact, Names
  <1>1. edits = 0 /\ extra = {} /\ extra' = {}
    BY DiskStep DEF Intact
  <1>2. ASSUME NEW m, NEW r, Frozen(m, r), ~(pc \in {"erase", "rmdir"} /\ r = Victim)
        PROVE  r \in dir' \ extra' /\ size'[r] = m.sizes[r]
    BY <1>1, <1>2, DiskStep DEF Frozen
  <1>3. pc' \in Beginning => \A r \in Names(plan)' : Frozen(plan, r)'
    <2>1. CASE \E q \in Request, d \in Date : BeginFresh(q, d)
      BY <1>1, <2>1, FreshPlan DEF BeginFresh, card, Frozen, Names
    <2>2. CASE pc \in Beginning /\ plan' = plan
      BY <1>1, <1>2, <2>2 DEF Intact, Beginning, Frozen, Names
    <2> QED  BY <2>1, <2>2, Beginnings
  <1>4. ASSUME NEW e \in Export, Phase(e)' = "prepared"
        PROVE  \A r \in Names(man'[e]) : Frozen(man[e], r)'
    <2>1. /\ Load(e)' # Nothing /\ Load(e)'.phase = "prepared" /\ man'[e] = man[e]
      BY <1>4, LoadStep DEF Phase
    <2>2. CASE Load(e)' = Load(e)
      <3>1. Phase(e) = "prepared" /\ Active(e)
        BY <2>1, <2>2 DEF Phase, Active
      <3>2. pc \in {"erase", "rmdir"} => Victim \notin Names(man[e])
        BY <3>1, VictimFacts, OtherVictim
      <3> QED  BY <1>1, <1>2, <2>1, <3>1, <3>2 DEF Intact, Frozen
    <2>3. CASE e = cur /\ pc = "begin_state"
      BY <1>1, <1>2, <2>1, <2>3 DEF Intact, Beginning, Frozen, Types, Shape
    <2> QED  BY <2>1, <2>2, <2>3, LoadStep DEF Stage
  <1>5. ASSUME NEW e \in Export, Phase(e)' = "committing"
        PROVE  /\ Load(e)'.deleted <= Len(man'[e].names)
               /\ \A i \in DOMAIN man'[e].names :
                     /\ i > Load(e)'.deleted + 1 => Frozen(man[e], man[e].names[i])'
                     /\ i = Load(e)'.deleted + 1 /\ man'[e].names[i] \in dir' =>
                           \A f \in Files : size'[man'[e].names[i]][f]
                                          \in {Absent, man'[e].sizes[man'[e].names[i]][f]}
    <2>1. /\ Load(e)' # Nothing /\ Load(e)'.phase = "committing" /\ man'[e] = man[e]
      BY <1>5, LoadStep DEF Phase
    <2> DEFINE nm == man[e].names
    <2>2. CASE Load(e)' = Load(e)
      <3>1. /\ Phase(e) = "committing" /\ Active(e) /\ Load(e) \in States
            /\ IsManifest(man[e]) /\ OfDate(man[e])
        BY <2>1, <2>2, LoadTypes DEF Phase, Active, Progress
      <3>2. /\ DOMAIN nm = 1..Len(nm) /\ Load(e).deleted \in Nat
            /\ \A i, j \in DOMAIN nm : nm[i] = nm[j] => i = j
            /\ \A i \in DOMAIN nm : nm[i] \in Names(man[e]) /\ nm[i] \in born
        <4>1. \A i \in DOMAIN nm : nm[i] \in Names(man[e])
          BY DEF Names
        <4>2. Load(e).deleted \in Nat
          BY <3>1 DEF States
        <4> QED  BY <3>1, <4>1, <4>2, ManifestFacts DEF OfDate
      <3>3. ASSUME NEW i \in DOMAIN nm, i > Load(e).deleted + 1,
                   pc \in {"erase", "rmdir"}
            PROVE  nm[i] # Victim
        <4>1. CASE e = cur
          BY <3>2, <3>3, <4>1, VictimFacts DEF Victim
        <4>2. CASE e # cur
          BY <3>1, <3>2, <3>3, <4>2, OtherVictim
        <4> QED  BY <4>1, <4>2
      <3>4. ASSUME NEW i \in DOMAIN nm, i > Load(e).deleted + 1
            PROVE  Frozen(man[e], nm[i])'
        <4>1. Frozen(man[e], nm[i])
          BY <1>1, <3>1, <3>4 DEF Intact
        <4> QED  BY <1>2, <2>1, <3>3, <3>4, <4>1 DEF Frozen
      <3>5. ASSUME NEW i \in DOMAIN nm, i = Load(e).deleted + 1, nm[i] \in dir',
                   NEW f \in Files
            PROVE  size'[nm[i]][f] \in {Absent, man[e].sizes[nm[i]][f]}
        <4>1. nm[i] \in dir
          BY <3>2, <3>5, GoneStaysGone
        <4>2. size[nm[i]][f] \in {Absent, man[e].sizes[nm[i]][f]}
          BY <1>1, <3>1, <3>5, <4>1 DEF Intact
        <4> QED  BY <4>1, <4>2, DiskStep
      <3>6. Load(e).deleted <= Len(nm)
        BY <1>1, <3>1 DEF Intact
      <3> QED  BY <2>1, <2>2, <3>4, <3>5, <3>6
    <2>3. ASSUME e = cur, Load(e)' = info, info.deleted <= Len(nm), pc \in {"mark", "progress"},
                 \A i \in DOMAIN nm : i > info.deleted => Frozen(man[e], nm[i])
          PROVE  /\ Load(e)'.deleted <= Len(man'[e].names)
                 /\ \A i \in DOMAIN man'[e].names :
                     /\ i > Load(e)'.deleted + 1 => Frozen(man[e], man[e].names[i])'
                     /\ i = Load(e)'.deleted + 1 /\ man'[e].names[i] \in dir' =>
                           \A f \in Files : size'[man'[e].names[i]][f]
                                          \in {Absent, man'[e].sizes[man'[e].names[i]][f]}
      <3>1. info.deleted \in Nat /\ DOMAIN nm = 1..Len(nm)
        BY <2>3, ManifestFacts DEF Types, TypeOK, Shape, States, Deleting
      <3>2. \A i \in DOMAIN nm : i > info.deleted =>
                nm[i] \in dir' \ extra' /\ size'[nm[i]] = man[e].sizes[nm[i]]
        BY <1>2, <2>3
      <3>3. \A i \in DOMAIN nm : i >= info.deleted + 1 => i > info.deleted
        BY <3>1
      <3> QED  BY <2>1, <2>3, <3>1, <3>2, <3>3 DEF Frozen
    <2>4. CASE e = cur /\ pc = "mark" /\ Load(e)' = info
      <3>1. /\ Phase(e) = "prepared" /\ info.deleted = 0 /\ IsManifest(man[e])
        BY <2>4 DEF Stage, Phase, Types, TypeOK, Shape, Deleting
      <3>2. \A i \in DOMAIN nm : Frozen(man[e], nm[i])
        BY <1>1, <3>1 DEF Intact, Names
      <3>3. info.deleted <= Len(nm)
        BY <3>1, ManifestFacts
      <3> QED  BY <2>3, <2>4, <3>2, <3>3
    <2>5. CASE e = cur /\ pc = "progress" /\ Load(e)' = info
      <3>1. /\ Phase(e) = "committing" /\ info.deleted = Load(e).deleted + 1
            /\ info.deleted <= Len(nm)
        BY <2>5 DEF Stage, Phase, Types, Shape, Deleting
      <3>2. \A i \in DOMAIN nm : i > Load(e).deleted + 1 => Frozen(man[e], nm[i])
        BY <1>1, <3>1 DEF Intact
      <3> QED  BY <2>3, <2>5, <3>1, <3>2
    <2>6. CASE pc = "note" /\ e = cur /\ Load(e)' = info
      BY <2>2, <2>6 DEF Stage
    <2>7. /\ pc = "begin_state" => info.phase = "prepared"
          /\ pc = "finish" => info.phase = "committed"
          /\ pc = "abort" => info.phase = "aborted"
      BY DEF Stage, Types, Shape, Beginning, Prepared
    <2> QED  BY <2>1, <2>2, <2>4, <2>5, <2>6, <2>7, LoadStep
  <1> QED  BY <1>1, <1>3, <1>4, <1>5

THEOREM IntactInvariant ==
    ASSUME NoReadFaults PROVE Spec => [](Types /\ Stage /\ Alone /\ Progress /\ Intact)
<1>1. Init => Intact
  <2> SUFFICES ASSUME Init PROVE Intact
    OBVIOUS
  <2>1. \A e \in Export : Load(e) = Nothing
    BY DEF Init, Load
  <2> QED  BY <2>1 DEF Init, Intact, Beginning, Phase
<1>2. Types /\ Stage /\ Alone /\ Progress /\ Intact /\ [Next]_vars => Intact'
  BY IntactKept
<1> QED  BY <1>1, <1>2, ExportInvariant, ProgressInvariant, PTL DEF Spec

\* Resumable: wherever a commit stopped, the preflight of the next one passes.
THEOREM ResumableCorrect ==
    ASSUME NoReadFaults PROVE Spec => []Resumable
<1>1. Types /\ Stage /\ Alone /\ Progress /\ Intact => Resumable
  <2> SUFFICES ASSUME Types, Progress, Intact, edits = 0,
                      NEW e \in Export, Phase(e) = "committing"
               PROVE  Preflight(man[e], Load(e).deleted, TRUE)
    BY DEF Resumable
  <2> DEFINE nm == man[e].names
             n == Load(e).deleted
  <2>1. n \in Nat /\ DOMAIN nm = 1..Len(nm) /\ Len(nm) \in Nat /\ IsManifest(man[e])
    BY LoadTypes, ManifestFacts DEF Phase, States
  <2>2. /\ extra = {} /\ n <= Len(nm)
        /\ \A i \in DOMAIN nm : i > n + 1 => Frozen(man[e], nm[i])
        /\ \A i \in DOMAIN nm : i = n + 1 /\ nm[i] \in dir =>
              \A f \in Files : size[nm[i]][f] \in {Absent, man[e].sizes[nm[i]][f]}
    BY DEF Intact
  <2>3. \A i \in DOMAIN nm : i <= n => nm[i] \notin dir
    BY DEF Progress
  <2> HIDE DEF n
  <2>4. ASSUME NEW i \in DOMAIN nm
        PROVE  DirectoryOK(man[e], nm[i], i = n + 1, i <= n)
    <3>1. CASE i <= n
      BY <2>3, <3>1 DEF DirectoryOK
    <3>2. CASE i = n + 1
      BY <2>1, <2>2, <3>2 DEF DirectoryOK, SizeMatches
    <3>3. CASE i > n + 1
      <4>1. nm[i] \in dir \ extra /\ size[nm[i]] = man[e].sizes[nm[i]]
        BY <2>2, <3>3 DEF Frozen
      <4>2. \A f \in Files : man[e].sizes[nm[i]][f] # Absent
        <5>1. nm[i] \in Names(man[e])
          BY DEF Names
        <5> QED  BY <2>1, <5>1, ManifestFacts
      <4> QED  BY <2>1, <3>3, <4>1, <4>2 DEF DirectoryOK, SizeMatches
    <3> QED  BY <2>1, <3>1, <3>2, <3>3
  <2> QED  BY <2>2, <2>4 DEF Preflight, n
<1> QED  BY <1>1, IntactInvariant, PTL

------------------------------------------------------------------------------
(***************************************************************************)
(* No recording is lost.                                                   *)
(***************************************************************************)
\* While the host does not edit, a recording that is whole after being made stays so
\* until it is the one that a commit deletes.
LEMMA LossStep ==
    ASSUME Types, [Next]_vars, edits' = 0
    PROVE  \A r \in born' : \/ r \in born /\ (Complete(r) => Complete(r)')
                            \/ Complete(r)'
                            \/ pc \in {"erase", "rmdir"} /\ r = Victim
  <1> SUFFICES ASSUME NEW r \in born'
               PROVE  \/ r \in born /\ (Complete(r) => Complete(r)')
                      \/ Complete(r)'
                      \/ pc \in {"erase", "rmdir"} /\ r = Victim
    OBVIOUS
  <1>1. CASE r \in born
    BY <1>1, DiskStep DEF Complete
  <1>2. CASE r \notin born
    <2>1. size \in [Record -> [Files -> Nat]]
      BY DEF Types, TypeOK
    <2>2. r \in Record /\ NewRecording(r)
      BY <1>2
         DEF Next, TaskStep, BeginKnown, BeginFresh, Commit, Abort, GetStatus, Refuse,
             BeginManifest, BeginState, CommitMark, CommitErase, CommitRmdir, CommitProgress,
             CommitNote, CommitFinish, AbortWrite, Crash, NewRecording, HostEdit, vars, card
    <2> QED  BY <2>1, <2>2 DEF NewRecording, Complete, Absent
  <1> QED  BY <1>1, <1>2

\* The deletion of an export is not undone, and its manifest stays.
LEMMA DeletionStays ==
    ASSUME Types, Stage, [Next]_vars, NEW e \in Export,
           Phase(e) \in {"committing", "committed"}
    PROVE  Phase(e)' \in {"committing", "committed"} /\ man'[e] = man[e]
  <1>1. Load(e) # Nothing /\ Load(e).phase \in {"committing", "committed"}
    BY DEF Phase
  <1>2. CASE Load(e)' = Load(e)
    BY <1>1, <1>2, LoadStep DEF Phase
  <1>3. CASE /\ e = cur /\ Load(e)' = info
             /\ pc \in {"begin_state", "mark", "progress", "note", "finish", "abort"}
    <2>1. info # Nothing
      BY <1>3, NothingIsNoState DEF Types, Shape
    <2>2. info.phase \in {"committing", "committed"}
      BY <1>1, <1>3 DEF Stage, Types, Shape, Beginning, Load, Readable, EmptyCell
    <2> QED  BY <1>1, <1>3, <2>1, <2>2, LoadStep DEF Phase
  <1> QED  BY <1>2, <1>3, LoadStep

LEMMA ConfirmedGrows ==
    ASSUME [Next]_vars
    PROVE  confirmed \subseteq confirmed'
  BY DEF Next, TaskStep, BeginKnown, BeginFresh, Commit, Abort, GetStatus, Refuse,
         BeginManifest, BeginState, CommitMark, CommitErase, CommitRmdir, CommitProgress,
         CommitNote, CommitFinish, AbortWrite, Crash, NewRecording, HostEdit, vars, hist

\* NothingLost: what is not whole any more was deleted for the host.
THEOREM NothingLostCorrect ==
    ASSUME NoReadFaults PROVE Spec => []NothingLost
<1>1. Init => NothingLost
  BY DEF Init, NothingLost, Complete, Absent
<1>2. Types /\ Stage /\ Progress /\ NothingLost /\ [Next]_vars => NothingLost'
  <2> SUFFICES ASSUME Types, Stage, Progress, NothingLost, [Next]_vars,
                      edits' = 0, NEW r \in born', ~Complete(r)'
               PROVE  \E e \in confirmed' : /\ Phase(e)' \in {"committing", "committed"}
                                            /\ r \in Names(man'[e])
    BY DEF NothingLost
  <2>1. \E e \in confirmed : /\ Phase(e) \in {"committing", "committed"}
                             /\ r \in Names(man[e])
    <3>1. CASE r \in born /\ ~Complete(r)
      BY <3>1, DiskStep DEF NothingLost
    <3>2. CASE pc \in {"erase", "rmdir"} /\ r = Victim
      BY <3>2, VictimFacts DEF Progress, Deleting
    <3> QED  BY <3>1, <3>2, LossStep
  <2> QED  BY <2>1, DeletionStays, ConfirmedGrows DEF Types, TypeOK
<1> QED  BY <1>1, <1>2, ProgressInvariant, PTL DEF Spec

\* What is left of NothingLost when an old state may be read in place of the last one:
\* no recording goes that the host did not confirm.
OnlyConfirmedLost ==
    edits = 0 => \A r \in born : Complete(r) \/ \E e \in confirmed : r \in Names(man[e])

\* OnlyConfirmedLost holds whatever cannot be read.
THEOREM OnlyConfirmedLostCorrect == Spec => []OnlyConfirmedLost
<1>1. Init => OnlyConfirmedLost
  BY DEF Init, OnlyConfirmedLost, Complete, Absent
<1>2. Types /\ Steady /\ OnlyConfirmedLost /\ [Next]_vars => OnlyConfirmedLost'
  <2> SUFFICES ASSUME Types, Steady, OnlyConfirmedLost, [Next]_vars,
                      edits' = 0, NEW r \in born', ~Complete(r)'
               PROVE  \E e \in confirmed' : r \in Names(man'[e])
    BY DEF OnlyConfirmedLost
  <2>1. \E e \in confirmed : r \in Names(man[e])
    <3>1. CASE r \in born /\ ~Complete(r)
      BY <3>1, DiskStep DEF OnlyConfirmedLost
    <3>2. CASE pc \in {"erase", "rmdir"} /\ r = Victim
      BY <3>2, VictimListed
    <3> QED  BY <3>1, <3>2, LossStep
  <2>2. \A e \in confirmed : e \in Export /\ man'[e] = man[e]
    BY LoadStep DEF Steady, Types, TypeOK
  <2> QED  BY <2>1, <2>2, ConfirmedGrows
<1> QED  BY <1>1, <1>2, SteadyInvariant, PTL DEF Spec

------------------------------------------------------------------------------
(***************************************************************************)
(* The service keeps the promises of ExportTransactions.                   *)
(***************************************************************************)
LEMMA TornKept ==
    ASSUME Types, Stage, Torn, [Next]_vars
    PROVE  Torn'
  <1>1. /\ file \in 1..NumFiles /\ size \in [Record -> [Files -> Nat]] /\ Types'
        /\ dir \subseteq born /\ born \subseteq Record
    BY TypesKept DEF Types, TypeOK, Files
  <1>2. ASSUME pc' = "erase", NEW f \in 1..file' - 1
        PROVE  size'[Victim'][f] = Absent
    <2>1. CASE CommitErase
      <3>1. /\ Victim \in dir /\ Victim' = Victim /\ file' = file + 1 /\ pc = "erase"
            /\ \/ size[Victim][file] = Absent /\ size' = size
               \/ size' = [size EXCEPT ![Victim][file] = Absent]
        BY <1>1, <1>2, <2>1 DEF CommitErase, DeleteFails, Victim
      <3>2. f \in 1..file - 1 \/ f = file
        BY <1>1, <3>1, <1>2
      <3>3. f \in Files /\ Victim \in Record
        BY <1>1, <3>1, <3>2, ConstantsOK DEF Files
      <3>4. f # file => size[Victim][f] = Absent
        BY <3>1, <3>2 DEF Torn
      <3> QED  BY <1>1, <3>1, <3>3, <3>4
    <2>2. CASE UNCHANGED <<pc, info, plan, file>> /\ ~CommitErase
      <3>1. file # 1 => Victim \in dir
        BY <1>2, <2>2 DEF Types, Shape
      <3>2. Victim \in dir => size'[Victim] = size[Victim]
        BY <1>1, <1>2, <2>2
           DEF Next, TaskStep, BeginKnown, BeginFresh, Commit, Abort, GetStatus, Refuse,
               BeginManifest, BeginState, CommitMark, CommitRmdir, CommitProgress, CommitNote,
               CommitFinish, AbortWrite, NewRecording, HostEdit, Idle, Crash, vars, card
      <3>3. file # 1
        BY <1>1, <1>2, <2>2
      <3> QED  BY <1>2, <2>2, <3>1, <3>2, <3>3 DEF Torn, Victim
    <2>3. CASE pc # "erase"
      BY <1>1, <1>2, <2>3
         DEF Next, TaskStep, BeginKnown, BeginFresh, Commit, Abort, GetStatus, Refuse,
             BeginManifest, BeginState, BeginCleanup, CommitMark, CommitErase, CommitRmdir,
             DeleteFails, CommitProgress, CommitNote, CommitFinish, AbortWrite, NewRecording,
             HostEdit, Idle, Crash, Done, vars, card, task, Types, Shape
    <2> QED  BY <1>2, <2>1, <2>2, <2>3
             DEF Next, TaskStep, BeginKnown, BeginFresh, Commit, Abort, GetStatus, Refuse,
                 BeginManifest, BeginState, CommitMark, CommitRmdir, CommitProgress, CommitNote,
                 CommitFinish, AbortWrite, NewRecording, HostEdit, Idle, Crash, Done, vars, task
  <1>3. ASSUME pc' = "rmdir"
        PROVE  Victim' \in dir' /\ \A f \in Files : size'[Victim'][f] = Absent
    <2>1. CASE CommitErase
      <3>1. /\ Victim \in dir /\ Victim' = Victim /\ dir' = dir /\ file = NumFiles
            /\ pc = "erase"
            /\ \/ size[Victim][file] = Absent /\ size' = size
               \/ size' = [size EXCEPT ![Victim][file] = Absent]
        BY <1>3, <2>1 DEF CommitErase, DeleteFails, Victim
      <3>2. ASSUME NEW f \in Files PROVE f = file \/ size[Victim][f] = Absent
        BY <1>1, <3>1, ConstantsOK DEF Torn, Files
      <3> QED  BY <1>1, <3>1, <3>2
    <2>2. CASE pc = "rmdir" /\ UNCHANGED <<info, plan>> /\ ~CommitRmdir
      <3>1. /\ Victim \in dir' /\ size'[Victim] = size[Victim]
        BY <1>1, <1>3, <2>2
           DEF Torn, Next, TaskStep, BeginKnown, BeginFresh, Commit, Abort, GetStatus, Refuse,
               BeginManifest, BeginState, CommitMark, CommitErase, CommitProgress, CommitNote,
               CommitFinish, AbortWrite, NewRecording, HostEdit, Idle, Crash, vars, card
      <3> QED  BY <2>2, <3>1 DEF Torn, Victim
    <2> QED  BY <1>3, <2>1, <2>2
             DEF Next, TaskStep, BeginKnown, BeginFresh, Commit, Abort, GetStatus, Refuse,
                 BeginManifest, BeginState, BeginCleanup, CommitMark, CommitRmdir, DeleteFails,
                 CommitProgress, CommitNote, CommitFinish, AbortWrite, NewRecording, HostEdit,
                 Idle, Crash, Done, vars, task
  <1> QED  BY <1>2, <1>3 DEF Torn

\* The state that the abstract specification sees.
AbsPhase == [e \in Export |-> Phase(e)]
AbsListed == [e \in Export |-> IF Phase(e) = "none" THEN {} ELSE Names(man[e])]
AbsFate == [r \in Record |-> Fate(r)]
AbsVars == <<AbsPhase, AbsListed, AbsFate>>

\* What is frozen is whole, and what is gone is not in the directory.
LEMMA FateFacts ==
    ASSUME Types, NEW r \in Record
    PROVE  /\ \A m : IsManifest(m) /\ r \in Names(m) /\ Frozen(m, r) => Fate(r) = "whole"
           /\ r \in born /\ r \notin dir => Fate(r) = "gone"
           /\ r \in dir /\ (\E f \in Files : size[r][f] = Absent) => Fate(r) = "torn"
           /\ r \in dir => Fate(r) \in {"whole", "torn"}
           /\ r \notin born <=> Fate(r) = "unborn"
  <1>1. dir \subseteq born
    BY DEF Types, TypeOK
  <1>2. ASSUME NEW m, IsManifest(m), r \in Names(m), Frozen(m, r)
        PROVE  Complete(r)
    BY <1>2, ManifestFacts DEF Frozen, Complete
  <1> QED  BY <1>1, <1>2 DEF Fate, Complete, Frozen

\* A step that neither makes nor deletes files is one of the phases' steps.
LEMMA PhaseStep ==
    ASSUME Types, Stage, Alone, Progress, Intact, edits = 0, [Next]_vars,
           UNCHANGED <<born, dir, size>>
    PROVE  [Transactions!Next]_AbsVars
  <1>1. AbsFate' = AbsFate
    BY DEF AbsFate, Fate, Complete
  <1>2. \A e \in Export : Load(e)' = Load(e) => Phase(e)' = Phase(e)
                             /\ (Phase(e) # "none" => man'[e] = man[e])
    BY LoadStep DEF Phase
  <1>3. CASE \A e \in Export : Phase(e)' = Phase(e)
    <2>1. \A e \in Export : Phase(e) # "none" => man'[e] = man[e]
      BY LoadStep DEF Phase
    <2>2. AbsPhase' = AbsPhase /\ AbsListed' = AbsListed
      BY <1>3, <2>1 DEF AbsPhase, AbsListed, Names
    <2> QED  BY <1>1, <2>2 DEF AbsVars
  <1>4. ASSUME NEW e \in Export, Phase(e)' # Phase(e)
        PROVE  Transactions!Next
    <2>1. /\ e = cur /\ Load(e)' = info /\ info # Nothing /\ Phase(e)' = info.phase
          /\ pc \in {"begin_state", "mark", "finish", "abort"}
          /\ man'[e] = man[e] /\ info \in States
      BY <1>2, <1>4, LoadStep, NothingIsNoState DEF Phase, Stage, Types, Shape, Deleting
    <2>2. \A o \in Export : o # e => Phase(o)' = Phase(o)
                                     /\ (Phase(o) # "none" => man'[o] = man[o])
      BY <1>2, <2>1, LoadStep
    <2>3. AbsPhase' = [AbsPhase EXCEPT ![e] = info.phase]
      BY <2>1, <2>2 DEF AbsPhase
    <2>4. Phase(e) # "none" => AbsListed' = AbsListed
      BY <2>1, <2>2 DEF AbsListed, Names, States, Phases
    <2>5. CASE pc = "begin_state"
      <3> DEFINE S == Names(plan)
      <3>1. /\ Phase(e) = "none" /\ info.phase = "prepared" /\ man[e] = plan
            /\ IsManifest(plan) /\ plan # Nothing
        BY <2>1, <2>5
           DEF Types, TypeOK, Shape, Beginning, Prepared, Phase, Load, Readable, EmptyCell
      <3>2. S # {} /\ S \subseteq Record
        BY <3>1, ManifestFacts
      <3>3. \A r \in S : Fate(r) = "whole"
        BY <2>5, <3>1, <3>2, FateFacts DEF Intact, Beginning
      <3>4. ASSUME NEW o \in Export, Active(o)
            PROVE  Names(man[o]) \cap S = {}
        <4>1. man[o].date # plan.date /\ man[o] # Nothing
          BY <2>5, <3>4 DEF Alone, Beginning, Active, Phase, Load
        <4> QED  BY <3>1, <4>1 DEF Progress, OfDate
      <3>5. AbsListed' = [AbsListed EXCEPT ![e] = S]
        <4> DEFINE L(o) == IF Phase(o) = "none" THEN {} ELSE Names(man[o])
        <4>1. L(e)' = S
          BY <2>1, <3>1 DEF Names
        <4>2. ASSUME NEW o \in Export, o # e PROVE L(o)' = L(o)
          BY <2>2, <4>2 DEF Names
        <4>3. AbsListed = [o \in Export |-> L(o)] /\ AbsListed' = [o \in Export |-> L(o)']
          BY DEF AbsListed
        <4> HIDE DEF S, L
        <4> QED  BY <4>1, <4>2, <4>3
      <3>6. Transactions!Prepare(e, S)
        BY <1>1, <2>3, <3>1, <3>2, <3>3, <3>4, <3>5
           DEF Transactions!Prepare, Transactions!Active, AbsPhase, AbsListed, AbsFate, Active
      <3> HIDE DEF S
      <3> QED  BY <3>2, <3>6 DEF Transactions!Next
    <2>6. CASE pc = "mark"
      <3>1. /\ Phase(e) = "prepared" /\ info.phase = "committing" /\ man[e] = plan
            /\ IsManifest(plan)
        BY <2>1, <2>6 DEF Types, TypeOK, Shape, Stage, Deleting, Phase
      <3>2. \A r \in Names(man[e]) : r \in Record /\ Fate(r) = "whole"
        BY <2>6, <3>1, ManifestFacts, FateFacts DEF Progress
      <3>3. Transactions!StartCommit(e)
        BY <1>1, <2>3, <2>4, <3>1, <3>2
           DEF Transactions!StartCommit, AbsPhase, AbsListed, AbsFate
      <3> QED  BY <3>3 DEF Transactions!Next
    <2>7. CASE pc = "abort"
      <3>1. Phase(e) = "prepared" /\ info.phase = "aborted"
        BY <2>1, <2>7 DEF Stage, Deleting, Phase
      <3>2. Transactions!Abort(e)
        BY <1>1, <2>3, <2>4, <3>1 DEF Transactions!Abort, AbsPhase, AbsListed, AbsFate
      <3> QED  BY <3>2 DEF Transactions!Next
    <2>8. CASE pc = "finish"
      <3>1. /\ Phase(e) = "committing" /\ info.phase = "committed" /\ man[e] = plan
            /\ IsManifest(plan) /\ Load(e).deleted = Len(plan.names) /\ plan # Nothing
        BY <2>1, <2>8 DEF Types, TypeOK, Shape, Stage, Deleting, Phase
      <3>2. \A i \in DOMAIN plan.names : plan.names[i] \notin dir
        BY <3>1, ManifestFacts DEF Progress
      <3>3. \A r \in Names(man[e]) : r \in Record /\ Fate(r) = "gone"
        <4>1. \A r \in Names(plan) : r \notin dir
          BY <3>2 DEF Names
        <4>2. \A r \in Names(plan) : r \in born /\ r \in Record
          BY <3>1, ManifestFacts DEF Progress, OfDate
        <4> QED  BY <3>1, <4>1, <4>2, FateFacts
      <3>4. Transactions!Finish(e)
        BY <1>1, <2>3, <2>4, <3>1, <3>3
           DEF Transactions!Finish, AbsPhase, AbsListed, AbsFate
      <3> QED  BY <3>4 DEF Transactions!Next
    <2> QED  BY <2>1, <2>5, <2>6, <2>7, <2>8
  <1> QED  BY <1>3, <1>4

\* Making a recording, deleting a file and deleting a directory are the steps
\* of recordings.
LEMMA FateStep ==
    ASSUME Types, Stage, Alone, Progress, Intact, Torn, edits = 0, [Next]_vars,
           CommitErase \/ CommitRmdir \/ \E r \in Record : NewRecording(r)
    PROVE  [Transactions!Next]_AbsVars
  <1>1. UNCHANGED <<man, st>>
    BY DEF CommitErase, CommitRmdir, NewRecording
  <1>2. \A e \in Export : Phase(e)' = Phase(e)
    BY <1>1 DEF Phase, Load, Readable
  <1>3. AbsPhase' = AbsPhase /\ AbsListed' = AbsListed
    BY <1>1, <1>2 DEF AbsPhase, AbsListed, Names
  <1>4. /\ size \in [Record -> [Files -> Nat]] /\ dir \subseteq born /\ born \subseteq Record
        /\ Types'
    BY TypesKept DEF Types, TypeOK
  <1>5. ASSUME NEW r \in Record, NewRecording(r)
        PROVE  Transactions!Next
    <2>1. Fate(r) = "unborn"
      BY <1>5 DEF NewRecording, Fate
    <2>2. Fate(r)' = "whole"
      BY <1>4, <1>5 DEF NewRecording, Fate, Complete, Absent
    <2>3. \A o \in Record : o # r => Fate(o)' = Fate(o)
      BY <1>4, <1>5 DEF NewRecording, Fate, Complete
    <2>4. AbsFate' = [AbsFate EXCEPT ![r] = "whole"]
      BY <2>2, <2>3 DEF AbsFate
    <2>5. Transactions!NewRecording(r)
      BY <1>3, <2>1, <2>4 DEF Transactions!NewRecording, AbsFate, AbsPhase, AbsListed
    <2> QED  BY <2>5 DEF Transactions!Next
  <1>6. CASE CommitErase /\ size' # size
    <2>v. PICK v : v = Victim
      OBVIOUS
    <2>1. /\ pc = "erase" /\ v \in dir /\ UNCHANGED <<born, dir>> /\ file \in Files
          /\ size' = [size EXCEPT ![v] = [size[v] EXCEPT ![file] = Absent]]
      BY <1>6, <2>v DEF CommitErase, Types, TypeOK
    <2>2. /\ Phase(cur) = "committing" /\ plan = man[cur] /\ IsManifest(plan) /\ cur \in Export
          /\ v \in Names(plan) /\ v \in Record /\ info = Load(cur) /\ info \in States
      BY <2>1, <2>v, VictimFacts
    <2>3. \A o \in Record : o # v => Fate(o)' = Fate(o)
      BY <1>4, <2>1 DEF Fate, Complete
    <2>4. Fate(v)' = "torn"
      <3>1. v \in dir' /\ v \in born' /\ size'[v][file] = Absent
        BY <1>4, <2>1, <2>2
      <3> QED  BY <2>1, <3>1 DEF Fate, Complete
    <2>5. CASE Fate(v) = "torn"
      <3>1. AbsFate' = AbsFate
        BY <2>3, <2>4, <2>5 DEF AbsFate
      <3> QED  BY <1>3, <3>1 DEF AbsVars
    <2>6. CASE Fate(v) = "whole"
      <3>1. ASSUME NEW o \in Names(plan) PROVE Fate(o) # "torn"
        <4>1. PICK i \in DOMAIN plan.names : plan.names[i] = o
          BY DEF Names
        <4>2. /\ o \in Record /\ o \in born /\ info.deleted \in Nat /\ i \in Nat /\ plan # Nothing
          BY <2>2, <4>1, ManifestFacts DEF Progress, OfDate, States
        <4>3. CASE i <= info.deleted
          <5>1. o \notin dir
            BY <2>2, <4>1, <4>3 DEF Progress
          <5> QED  BY <4>2, <5>1, FateFacts
        <4>4. CASE i = info.deleted + 1
          BY <2>6, <2>v, <4>1, <4>4 DEF Victim
        <4>5. CASE i > info.deleted + 1
          <5>1. Frozen(plan, o)
            BY <2>2, <4>1, <4>5 DEF Intact
          <5> QED  BY <2>2, <4>2, <5>1, FateFacts
        <4> QED  BY <4>2, <4>3, <4>4, <4>5
      <3>2. \A o \in Names(plan) : o \in Record
        BY <2>2, ManifestFacts
      <3>3. AbsFate' = [AbsFate EXCEPT ![v] = "torn"]
        BY <2>3, <2>4 DEF AbsFate
      <3>4. Transactions!Tear(cur, v)
        BY <1>3, <2>2, <2>6, <3>1, <3>2, <3>3
           DEF Transactions!Tear, AbsFate, AbsPhase, AbsListed
      <3> QED  BY <2>2, <3>4 DEF Transactions!Next
    <2> QED  BY <2>1, <2>2, <2>5, <2>6, FateFacts
  <1>7. CASE CommitRmdir /\ dir' # dir
    <2>v. PICK v : v = Victim
      OBVIOUS
    <2>1. pc = "rmdir" /\ dir' = dir \ {v} /\ UNCHANGED <<born, size>>
      BY <1>7, <2>v DEF CommitRmdir
    <2>2. /\ Phase(cur) = "committing" /\ plan = man[cur] /\ cur \in Export
          /\ v \in Names(plan) /\ v \in Record
      BY <2>1, <2>v, VictimFacts
    <2>3. v \in dir /\ \A f \in Files : size[v][f] = Absent
      BY <2>1, <2>v DEF Torn
    <2>4. Fate(v) = "torn"
      <3>1. 1 \in Files
        BY ConstantsOK DEF Files
      <3> QED  BY <2>2, <2>3, <3>1, FateFacts
    <2>5. Fate(v)' = "gone"
      BY <1>4, <2>1, <2>3 DEF Fate, Complete
    <2>6. \A o \in Record : o # v => Fate(o)' = Fate(o)
      BY <2>1 DEF Fate, Complete
    <2>7. AbsFate' = [AbsFate EXCEPT ![v] = "gone"]
      BY <2>5, <2>6 DEF AbsFate
    <2>8. Transactions!Remove(cur, v)
      BY <1>3, <2>2, <2>4, <2>7 DEF Transactions!Remove, AbsFate, AbsPhase, AbsListed
    <2> QED  BY <2>2, <2>8 DEF Transactions!Next
  <1>8. CASE UNCHANGED <<born, dir, size>>
    BY <1>8, PhaseStep
  <1> QED  BY <1>5, <1>6, <1>7, <1>8 DEF CommitErase, CommitRmdir

LEMMA TransactionsStep ==
    ASSUME Types, Stage, Alone, Progress, Intact, Torn, MaxEdits = 0, [Next]_vars
    PROVE  [Transactions!Next]_AbsVars
  <1>1. edits = 0
    BY ConstantsOK DEF Types, TypeOK
  <1>2. CASE UNCHANGED <<born, dir, size>>
    BY <1>1, <1>2, PhaseStep
  <1>3. CASE CommitErase \/ CommitRmdir \/ \E r \in Record : NewRecording(r)
    BY <1>1, <1>3, FateStep
  <1>4. ~ \E r \in Record : HostEdit(r)
    BY <1>1 DEF HostEdit
  <1> QED  BY <1>2, <1>3, <1>4
           DEF Next, TaskStep, BeginKnown, BeginFresh, Commit, Abort, GetStatus, Refuse,
               BeginManifest, BeginState, CommitMark, CommitProgress, CommitNote,
               CommitFinish, AbortWrite, Crash, vars, card

\* ImplementsTransactions: seen from outside, recordings are frozen whole and
\* deleted one after the other for an export that was confirmed, and every
\* other step of the service is invisible.
THEOREM TransactionsImplemented ==
    ASSUME NoReadFaults, MaxEdits = 0 PROVE Spec => ImplementsTransactions
<1>1. Init => Torn /\ Transactions!Init
  <2> SUFFICES ASSUME Init PROVE Torn /\ Transactions!Init
    OBVIOUS
  <2>1. \A e \in Export : Phase(e) = "none"
    BY DEF Init, Phase, Load
  <2>2. \A r \in Record : Fate(r) \in {"unborn", "whole"}
    BY DEF Init, Fate, Complete, Absent
  <2> QED  BY <2>1, <2>2 DEF Init, Torn, Transactions!Init
<1>2. Types /\ Stage /\ Torn /\ [Next]_vars => Torn'
  BY TornKept
<1>3. /\ Types /\ Stage /\ Alone /\ Progress /\ Intact /\ Torn /\ [Next]_vars
      => [Transactions!Next]_(Transactions!tvars)
  BY TransactionsStep DEF AbsVars, AbsPhase, AbsListed, AbsFate, Transactions!tvars
<1> QED  BY <1>1, <1>2, <1>3, IntactInvariant, PTL
         DEF Spec, ImplementsTransactions, Transactions!Spec

-----------------------------------------------------------------------------
\* What the promises mean for the card (module ExportTransactions_proofs).
Promised ==
    INSTANCE ExportTransactions_proofs WITH
        phase <- [e \in Export |-> Phase(e)],
        listed <- [e \in Export |-> IF Phase(e) = "none" THEN {} ELSE Names(man[e])],
        fate <- [r \in Record |-> Fate(r)]

\* No recording is in the manifests of two exports of which none was aborted;
\* a recording that lost a file or its directory is in the manifest of an
\* export whose deletion is begun or done; and however often a deletion was
\* interrupted, at most one recording of its export lacks some of its files.
DeletionsInOrder ==
    /\ \A e, o \in Export :
          /\ Phase(e) \in {"prepared", "committing", "committed"}
          /\ Phase(o) \in {"prepared", "committing", "committed"}
          /\ e # o
          => Names(man[e]) \cap Names(man[o]) = {}
    /\ \A r \in Record : Fate(r) \in {"torn", "gone"} =>
          \E e \in Export : Phase(e) \in {"committing", "committed"} /\ r \in Names(man[e])
    /\ \A e \in Export : Phase(e) \in {"committing", "committed"} =>
          \A r, o \in Names(man[e]) : Fate(r) = "torn" /\ Fate(o) = "torn" => r = o

LEMMA PromisesMean == TypeOK /\ Promised!Promises => DeletionsInOrder
  <1> SUFFICES ASSUME TypeOK, Promised!Promises
               PROVE  DeletionsInOrder
    OBVIOUS
  <1> USE DEF Promised!Promises, Promised!Bound, Promised!Deletes
  <1>1. \A e \in Export : Phase(e) # "none" => Names(man[e]) \subseteq Record
    BY ManifestFacts DEF TypeOK, Phase, Load
  <1>2. ASSUME NEW e \in Export, NEW o \in Export,
               Phase(e) \in {"prepared", "committing", "committed"},
               Phase(o) \in {"prepared", "committing", "committed"}, e # o
        PROVE  Names(man[e]) \cap Names(man[o]) = {}
    BY <1>2 DEF Promised!Apart
  <1>3. ASSUME NEW r \in Record, Fate(r) \in {"torn", "gone"}
        PROVE  \E e \in Export :
                   Phase(e) \in {"committing", "committed"} /\ r \in Names(man[e])
    BY <1>3 DEF Promised!Accounted
  <1>4. ASSUME NEW e \in Export, Phase(e) \in {"committing", "committed"},
               NEW r \in Names(man[e]), NEW o \in Names(man[e]),
               Fate(r) = "torn", Fate(o) = "torn"
        PROVE  r = o
    <2>1. r \in Record /\ o \in Record
      BY <1>1, <1>4
    <2> QED  BY <1>4, <2>1 DEF Promised!OneVictim
  <1> QED  BY <1>2, <1>3, <1>4 DEF DeletionsInOrder

LEMMA SamePromises == Transactions!Spec => Promised!Spec
<1>1. Transactions!Init => Promised!Init
  BY DEF Transactions!Init, Promised!Init
<1>2. [Transactions!Next]_(Transactions!tvars) => [Promised!Next]_(Promised!tvars)
  BY DEF Transactions!Next, Transactions!NewRecording, Transactions!Prepare,
         Transactions!Abort, Transactions!StartCommit, Transactions!Finish,
         Transactions!Tear, Transactions!Remove, Transactions!Active, Transactions!tvars,
         Promised!Next, Promised!NewRecording, Promised!Prepare,
         Promised!Abort, Promised!StartCommit, Promised!Finish,
         Promised!Tear, Promised!Remove, Promised!Active, Promised!tvars
<1> QED  BY <1>1, <1>2, PTL DEF Transactions!Spec, Promised!Spec

\* The cursor of a deletion is all a restart needs: what it finds is whole
\* recordings, deleted ones, and the one at which it was interrupted.
THEOREM DeletionsInOrderCorrect ==
    ASSUME NoReadFaults, MaxEdits = 0 PROVE Spec => []DeletionsInOrder
<1>1. Spec => Promised!Spec
  BY TransactionsImplemented, SamePromises DEF ImplementsTransactions
<1>2. Promised!Spec => []Promised!Promises
  BY Promised!PromisesKept
<1>3. TypeOK /\ Promised!Promises => DeletionsInOrder
  BY PromisesMean
<1> QED  BY <1>1, <1>2, <1>3, TypeCorrect, PTL
==============================================================================
