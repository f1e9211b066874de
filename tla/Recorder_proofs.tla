-------------------------- MODULE Recorder_proofs ----------------------------
(***************************************************************************)
(* What holds of Recorder for any number of streams, any modulus and any   *)
(* set of time stamps.  The inductive invariant has five layers, each      *)
(* using the ones before it: the types, the protocol of the event group,   *)
(* that whatever main waits for has a task, the bookkeeping of counters    *)
(* and directories, and what the errors in the context say about the files.*)
(***************************************************************************)
EXTENDS Recorder, WellFoundedInduction, TLAPS

Before == {"idle", "open", "count", "mkdir", "drivers"}
After == {"sync", "meta", "finalize", "end"}

Waits ==
    {"await_ready", "mark_late", "start", "capture", "await_done", "mark_done", "await_all"}

\* Main has a staging directory.
Staged ==
    {"drivers", "spawn", "await_ready", "mark_late", "start", "capture", "await_done",
           "mark_done", "await_all", "sync", "meta", "finalize"}

Types ==
    /\ TypeOK
    /\ pc = "mkdir" => cnt \in 1..MaxCounter
    /\ pc \in Staged => cur \in DOMAIN part

\* DONE is the last thing a task does; nobody runs before the tasks are made
\* nor after the waits; START finds everyone READY or cancelled.
Protocol ==
    /\ \A s \in done : task[s] = "none"
    /\ pc \in Before => ready = {} /\ done = {}
    /\ pc \in Before \cup After => \A s \in Stream : task[s] = "none"
    /\ pc = "spawn" => \A s \in at..Last : task[s] = "none" /\ s \notin done
    /\ pc \in Before \cup {"spawn", "await_ready", "mark_late", "start"} => ~started
    /\ pc \in {"mark_late", "start"} \/ started => Stream \subseteq ready \cup late
    /\ pc = "start" => late \subseteq cancel
    /\ started => late \subseteq early
    /\ early \subseteq cancel
    /\ \A s \in Stream : task[s] = "capture" => started /\ s \notin late

\* Every stream that is not DONE has a task, from its creation on.
Attended ==
    /\ pc = "spawn" => \A s \in Stream \ done : s \in at..Last \/ Live(s)
    /\ pc \in Waits => \A s \in Stream \ done : Live(s)
    /\ pc \in {"capture", "await_done", "mark_done", "await_all"} => started
    /\ pc \in {"await_done", "mark_done", "await_all"} => stopped

\* Counters: what was published, what is staged and what is coming are apart.
Bookkeeping ==
    /\ \A c \in issued : c < counter
    /\ \A n \in DOMAIN part : part[n].counter \notin issued /\ part[n].counter < counter
    /\ \A m, n \in DOMAIN part : m # n => part[m].counter # part[n].counter
    /\ pc = "mkdir" => /\ cnt < counter /\ cnt \notin issued
                       /\ \A n \in DOMAIN part : part[n].counter # cnt
    /\ DOMAIN part \cap DOMAIN arch = {}

\* A task's result and a finished stream's error are "ok" only of a full file.
Truth ==
    /\ \A s \in Stream :
          /\ task[s] \in {"check", "store"} /\ res[s] = "ok" => part[cur].file[s] = "full"
          /\ task[s] = "done" /\ err[s] = "ok" => part[cur].file[s] = "full"
          /\ s \in done /\ pc \in Staged /\ err[s] = "ok" => part[cur].file[s] = "full"
          /\ pc \in {"sync", "meta"} => s \in done
          /\ pc = "finalize" /\ part[cur].meta # Nothing =>
                (part[cur].meta[s] = "ok" => part[cur].file[s] = "full")
    /\ MetadataTruthful

------------------------------------------------------------------------------
(***************************************************************************)
(* What the helpers do to a function on names.                             *)
(***************************************************************************)
\* Setting one file of one directory changes nothing else.
LEMMA SetFile ==
    ASSUME NEW f, \A m \in DOMAIN f : f[m] \in Directory,
           NEW n, NEW s \in Stream, NEW c \in {"none", "partial", "full"},
           NEW g, g = [f EXCEPT ![n].file[s] = c]
    PROVE  /\ DOMAIN g = DOMAIN f
           /\ \A m \in DOMAIN f :
                 /\ g[m] \in Directory
                 /\ g[m].counter = f[m].counter /\ g[m].meta = f[m].meta
                 /\ \A r \in Stream :
                       g[m].file[r] = IF m = n /\ r = s THEN c ELSE f[m].file[r]
  <1>1. DOMAIN g = DOMAIN f
    OBVIOUS
  <1>2. ASSUME NEW m \in DOMAIN f, m # n
        PROVE  g[m] = f[m]
    BY <1>2
  <1>3. ASSUME NEW m \in DOMAIN f, m = n
        PROVE  /\ g[m] \in Directory
               /\ g[m].counter = f[m].counter /\ g[m].meta = f[m].meta
               /\ \A r \in Stream : g[m].file[r] = IF r = s THEN c ELSE f[m].file[r]
    <2>1. g[m] = [f[m] EXCEPT !.file = [f[m].file EXCEPT ![s] = c]]
      BY <1>3
    <2>2. f[m] \in Directory
      OBVIOUS
    <2> QED  BY <2>1, <2>2 DEF Directory
  <1> QED  BY <1>1, <1>2, <1>3 DEF Directory

\* Storing the metadata of one directory changes nothing else.
LEMMA SetMeta ==
    ASSUME NEW f, \A m \in DOMAIN f : f[m] \in Directory,
           NEW n, NEW e \in [Stream -> {"ok", "failed"}],
           NEW g, g = [f EXCEPT ![n].meta = e]
    PROVE  /\ DOMAIN g = DOMAIN f
           /\ \A m \in DOMAIN f :
                 /\ g[m] \in Directory
                 /\ g[m].counter = f[m].counter /\ g[m].file = f[m].file
                 /\ g[m].meta = IF m = n THEN e ELSE f[m].meta
  BY DEF Directory

------------------------------------------------------------------------------
(***************************************************************************)
(* Types.                                                                  *)
(***************************************************************************)
\* The remainder is unique.
LEMMA ModUnique ==
    ASSUME NEW m \in Nat \ {0}, NEW q \in Int, NEW k \in 0..m - 1
    PROVE  (m * q + k) % m = k
  <1> DEFINE x == m * q + k
             d == x \div m
             r == x % m
  <1>1. x \in Int /\ d \in Int /\ r \in 0..m - 1 /\ x = m * d + r
    OBVIOUS
  <1>2. CASE d >= q + 1
    <2>1. m * d >= m * (q + 1)
      BY <1>1, <1>2
    <2>2. m * (q + 1) = m * q + m
      OBVIOUS
    <2> QED  BY <2>1, <2>2, <1>1
  <1>3. CASE d <= q - 1
    <2>1. m * d <= m * (q - 1)
      BY <1>1, <1>3
    <2>2. m * (q - 1) = m * q - m
      OBVIOUS
    <2> QED  BY <2>1, <2>2, <1>1
  <1>4. CASE d = q
    BY <1>4, <1>1
  <1> QED  BY <1>1, <1>2, <1>3, <1>4

\* Every set of numbers has a least element.
LEMMA Least ==
    ASSUME NEW T \in SUBSET Nat, T # {}
    PROVE  \E x \in T : \A y \in T : x <= y
  <1> DEFINE R == OpToRel(<, Nat)
  <1>1. IsWellFoundedOn(R, Nat)
    BY NatLessThanWellFounded
  <1> HIDE DEF R
  <1>2. PICK x \in T : \A y \in T : <<y, x>> \notin R
    BY <1>1, WFMin, Zenon
  <1>3. ASSUME NEW y \in T, y < x
        PROVE  FALSE
    <2>1. <<y, x>> \in R
      BY <1>3 DEF R, OpToRel
    <2> QED  BY <2>1, <1>2
  <1> QED  BY <1>2, <1>3

\* Probing returns a name that no directory has.
LEMMA ProbeFinds ==
    ASSUME cnt \in Nat, NEW t \in Stamp, \E i \in 0..Modulus - 1 : Free(<<i, t>>)
    PROVE  Probe(t) \in Names /\ Free(Probe(t))
  <1> DEFINE seq(i) == (cnt + i) % Modulus
             S == {i \in 0..Modulus - 1 : Free(<<seq(i), t>>)}
  <1>1. Modulus \in Nat \ {0}
    BY RecorderAssumption
  <1>2. PICK k \in 0..Modulus - 1 : Free(<<k, t>>)
    OBVIOUS
  <1>3. \E i \in 0..Modulus - 1 : seq(i) = k
    <2> DEFINE c == cnt % Modulus
               q == cnt \div Modulus
    <2>1. c \in 0..Modulus - 1 /\ q \in Int /\ cnt = Modulus * q + c
      BY <1>1
    <2>2. CASE k >= c
      <3>1. k - c \in 0..Modulus - 1 /\ cnt + (k - c) = Modulus * q + k
        BY <1>1, <2>1, <2>2
      <3>2. (Modulus * q + k) % Modulus = k
        BY <1>1, <2>1, ModUnique
      <3> HIDE DEF c, q
      <3> QED  BY <3>1, <3>2
    <2>3. CASE k < c
      <3>1. k - c + Modulus \in 0..Modulus - 1
        BY <1>1, <2>1, <2>3
      <3>2. Modulus * (q + 1) = Modulus * q + Modulus
        BY <1>1, <2>1
      <3>3. cnt + (k - c + Modulus) = Modulus * (q + 1) + k
        BY <1>1, <2>1, <3>2
      <3>4. ASSUME NEW p \in Int
            PROVE  (Modulus * p + k) % Modulus = k
        BY <1>1, ModUnique
      <3>5. (Modulus * (q + 1) + k) % Modulus = k
        BY <2>1, <3>4
      <3> HIDE DEF c, q
      <3> QED  BY <3>1, <3>3, <3>5
    <2> QED  BY <1>1, <2>1, <2>2, <2>3
  <1>4. S # {} /\ S \subseteq Nat
    BY <1>1, <1>2, <1>3
  <1>5. PICK i \in S : \A j \in S : i <= j
    BY <1>4, Least
  <1>6. \A j \in 0..i - 1 : ~Free(<<seq(j), t>>)
    <2> SUFFICES ASSUME NEW j \in 0..i - 1, Free(<<seq(j), t>>)
                 PROVE  FALSE
      OBVIOUS
    <2>1. i \in 0..Modulus - 1
      OBVIOUS
    <2>2. j \in 0..Modulus - 1 /\ j < i
      BY <1>1, <2>1
    <2>3. j \in S
      BY <2>2
    <2> QED  BY <1>5, <2>1, <2>2, <2>3
  <1>7. <<seq(i), t>> \in Names
    BY <1>1, <1>4 DEF Names
  <1>8. \E n \in Names :
            \E j \in 0..Modulus - 1 :
                /\ n = <<seq(j), t>> /\ Free(n)
                /\ \A l \in 0..j - 1 : ~Free(<<seq(l), t>>)
    BY <1>4, <1>6, <1>7
  <1> QED  BY <1>8 DEF Probe

\* The same of the directories in /.recording.
LEMMA WriteFile ==
    ASSUME \A m \in DOMAIN part : part[m] \in Directory,
           NEW s \in Stream, NEW c \in {"none", "partial", "full"},
           part' = [part EXCEPT ![cur].file[s] = c]
    PROVE  /\ DOMAIN part' = DOMAIN part
           /\ \A m \in DOMAIN part :
                 /\ part'[m] \in Directory
                 /\ part'[m].counter = part[m].counter /\ part'[m].meta = part[m].meta
                 /\ \A r \in Stream :
                       part'[m].file[r] = IF m = cur /\ r = s THEN c ELSE part[m].file[r]
  BY SetFile

LEMMA TypesInit == Init => Types
  <1>1. First \in Stream
    BY RecorderAssumption DEF Stream, First
  <1>2. DOMAIN NoDirectories = {}
    BY DEF NoDirectories
  <1> QED  BY <1>1, <1>2 DEF Init, Types, TypeOK, Staged

LEMMA TypesNext == Types /\ [Next]_vars => Types'
  <1> SUFFICES ASSUME Types, [Next]_vars
               PROVE  Types'
    OBVIOUS
  <1> USE DEF Types, TypeOK, Staged
  <1>0. First \in Stream /\ Last \in Stream /\ \A i \in Stream : i # Last => i + 1 \in Stream
    BY RecorderAssumption DEF Stream, First, Last
  <1>1. CASE Begin
    BY <1>1 DEF Begin, Idle, card, bits, tasks
  <1>2. CASE OpenStorage
    BY <1>2 DEF OpenStorage, card, bits, tasks
  <1>3. CASE AllocateCounter
    BY <1>3, RecorderAssumption DEF AllocateCounter, bits, tasks
  <1>4. CASE MakePaths
    <2>1. CASE pc' = "end" /\ UNCHANGED <<cur, part>>
      BY <1>4, <2>1 DEF MakePaths, bits, tasks
    <2>2. ASSUME pc' = "drivers", NEW t \in Stamp, \E i \in 0..Modulus - 1 : Free(<<i, t>>),
                 cur' = Probe(t),
                 part' = With(part, cur', [counter |-> cnt, file |-> [s \in Stream |-> "none"],
                                           meta |-> Nothing])
          PROVE  Types'
      <3>1. cnt \in 1..MaxCounter /\ cnt \in Nat
        BY <1>4, RecorderAssumption DEF MakePaths
      <3>2. Probe(t) \in Names
        BY <2>2, <3>1, ProbeFinds
      <3>3. [counter |-> cnt, file |-> [s \in Stream |-> "none"], meta |-> Nothing] \in Directory
        BY <3>1 DEF Directory
      <3>4. cur' \in DOMAIN part' /\ DOMAIN part' \subseteq Names /\ \A n \in DOMAIN part' : part'[n] \in Directory
        BY <2>2, <3>2, <3>3 DEF With
      <3> QED  BY <1>4, <2>2, <3>2, <3>4 DEF MakePaths, bits, tasks
    <2> QED  BY <1>4, <2>1, <2>2 DEF MakePaths
  <1>5. CASE InitDrivers
    BY <1>0, <1>5 DEF InitDrivers, card, bits, tasks
  <1>6. CASE Spawn
    BY <1>0, <1>6 DEF Spawn, NextStream, card
  <1>7. CASE AwaitReady
    BY <1>7 DEF AwaitReady, card, bits, tasks
  <1>8. CASE MarkPrepareTimeout
    BY <1>0, <1>8 DEF MarkPrepareTimeout, NextStream, card, tasks
  <1>9. CASE Start
    BY <1>9 DEF Start, card, tasks
  <1>10. CASE Stop
    BY <1>10 DEF Stop, card, tasks
  <1>11. CASE AwaitDone
    BY <1>11 DEF AwaitDone, card, bits, tasks
  <1>12. CASE MarkCompletionTimeout
    BY <1>0, <1>12 DEF MarkCompletionTimeout, NextStream, card, tasks
  <1>13. CASE AwaitAll
    BY <1>13 DEF AwaitAll, card, bits, tasks
  <1>14. CASE SyncFile
    <2>1. /\ DOMAIN part' = DOMAIN part
          /\ \A n \in DOMAIN part' : part'[n] \in Directory
      BY <1>14, SetFile DEF SyncFile, Synced
    <2> QED  BY <1>0, <1>14, <2>1 DEF SyncFile, NextStream, bits, tasks
  <1>15. CASE WriteMetadata
    <2>1. DOMAIN part' \subseteq Names /\ \A n \in DOMAIN part' : part'[n] \in Directory
      BY <1>15, SetMeta DEF WriteMetadata
    <2> QED  BY <1>15, <2>1 DEF WriteMetadata, bits, tasks
  <1>16. CASE Finalize
    <2>1. CASE UNCHANGED <<part, arch, issued>>
      BY <1>16, <2>1 DEF Finalize, bits, tasks
    <2>2. CASE /\ part[cur].meta # Nothing
               /\ arch' = With(arch, cur, part[cur])
               /\ part' = Without(part, cur)
               /\ issued' = issued \cup {part[cur].counter}
      <3>1. cur \in DOMAIN part /\ part[cur] \in Directory /\ cur \in Names
        BY <1>16 DEF Finalize
      <3>2. DOMAIN arch' \subseteq Names /\ \A n \in DOMAIN arch' : arch'[n] \in Directory
        BY <2>2, <3>1 DEF With
      <3>3. DOMAIN part' \subseteq Names /\ \A n \in DOMAIN part' : part'[n] \in Directory
        BY <2>2, <3>1 DEF Without
      <3>4. issued' \subseteq 1..MaxCounter
        BY <2>2, <3>1 DEF Directory
      <3> QED  BY <1>16, <3>2, <3>3, <3>4 DEF Finalize, bits, tasks
    <2> QED  BY <1>16, <2>1, <2>2 DEF Finalize
  <1>17. CASE End
    BY <1>0, <1>17 DEF End, Cleared, card
  <1>18. CASE Crash
    BY <1>0, <1>18 DEF Crash, Cleared, card
  <1>19. ASSUME NEW n \in Names, Removed(n)
         PROVE  Types'
    <2>1. DOMAIN arch' \subseteq Names /\ \A m \in DOMAIN arch' : arch'[m] \in Directory
      BY <1>19 DEF Removed, Without
    <2> QED  BY <1>19, <2>1 DEF Removed, main, bits, tasks
  <1>20. ASSUME NEW s \in Stream, StreamStep(s)
         PROVE  Types'
    <2>1. CASE OpenFile(s)
      <3>1. /\ DOMAIN part' = DOMAIN part
            /\ DOMAIN part' \subseteq Names /\ \A n \in DOMAIN part' : part'[n] \in Directory
        <4>1. CASE part' = part
          BY <4>1
        <4>2. CASE part' = [part EXCEPT ![cur].file[s] = "partial"]
          BY <4>2, WriteFile
        <4> QED  BY <2>1, <4>1, <4>2 DEF OpenFile, Writes
      <3> QED  BY <2>1, <3>1 DEF OpenFile, Goes, main
    <2>2. CASE Header(s)
      BY <2>2 DEF Header, Goes, Fails, card, main
    <2>3. CASE Control(s)
      BY <2>3 DEF Control, Goes, Fails, card, main, bits
    <2>4. CASE Capture(s)
      BY <2>4 DEF Capture, Goes, Fails, card, main, bits
    <2>5. CASE Close(s)
      <3>1. /\ DOMAIN part' = DOMAIN part
            /\ DOMAIN part' \subseteq Names /\ \A n \in DOMAIN part' : part'[n] \in Directory
        <4>1. CASE part' = part
          BY <4>1
        <4>2. CASE part' = [part EXCEPT ![cur].file[s] = "full"]
          BY <4>2, WriteFile
        <4> QED  BY <2>5, <4>1, <4>2 DEF Close, Writes
      <3> QED  BY <2>5, <3>1 DEF Close, Goes, Fails, main, bits
    <2>6. CASE CheckError(s)
      BY <2>6 DEF CheckError, Goes, card, main, bits
    <2>7. CASE StoreError(s)
      BY <2>7 DEF StoreError, Goes, card, main, bits
    <2>8. CASE SetDone(s)
      BY <2>8 DEF SetDone, Goes, card, main
    <2> QED  BY <1>20, <2>1, <2>2, <2>3, <2>4, <2>5, <2>6, <2>7, <2>8 DEF StreamStep
  <1>21. CASE UNCHANGED vars
    BY <1>21 DEF vars, card, main, bits, tasks
  <1> QED
    BY <1>1, <1>2, <1>3, <1>4, <1>5, <1>6, <1>7, <1>8, <1>9, <1>10, <1>11, <1>12, <1>13, <1>14,
       <1>15, <1>16, <1>17, <1>18, <1>19, <1>20, <1>21
    DEF Next, MainStep

\* Every state the recorder reaches has its type (recorder.c, storage_service.c).
THEOREM TypeCorrect == Spec => []TypeOK
  <1>1. Spec => []Types
    BY TypesInit, TypesNext, PTL DEF Spec
  <1>2. Types => TypeOK
    BY DEF Types
  <1> QED  BY <1>1, <1>2, PTL
------------------------------------------------------------------------------
(***************************************************************************)
(* The protocol of the event group.                                        *)
(***************************************************************************)
LEMMA ProtocolInit == Init => Protocol
  BY DEF Init, Protocol, Before, After

LEMMA ProtocolNext == Types /\ Protocol /\ [Next]_vars => Protocol'
  <1> SUFFICES ASSUME Types, Protocol, [Next]_vars
               PROVE  Protocol'
    OBVIOUS
  <1> USE DEF Protocol, Before, After
  <1>0. /\ at \in Stream /\ task \in [Stream -> {"none", "open", "header", "wait", "capture",
                                                 "close", "check", "store", "done"}]
        /\ ready \subseteq Stream /\ done \subseteq Stream /\ cancel \subseteq Stream
        /\ early \subseteq Stream /\ late \subseteq Stream
    BY DEF Types, TypeOK
  <1>a. First..Last = Stream
    BY RecorderAssumption DEF Stream, First, Last
  <1>b. \A i \in Stream : i..Last \subseteq Stream /\ i \in i..Last /\ i \in Nat
                          /\ (i + 1)..Last = (i..Last) \ {i}
    BY RecorderAssumption DEF Stream, Last
  <1>1. CASE Begin
    BY <1>1 DEF Begin, Idle, card, bits, tasks
  <1>2. CASE OpenStorage
    BY <1>2 DEF OpenStorage, card, bits, tasks
  <1>3. CASE AllocateCounter
    BY <1>3 DEF AllocateCounter, bits, tasks
  <1>4. CASE MakePaths
    BY <1>4 DEF MakePaths, bits, tasks
  <1>5. CASE InitDrivers
    BY <1>0, <1>a, <1>5 DEF InitDrivers, card, bits, tasks
  <1>6. CASE Spawn
    <2>1. /\ task[at] = "none" /\ at \notin done
          /\ \A s \in Stream \ {at} : task'[s] = task[s]
          /\ task'[at] \in {"none", "open"}
      BY <1>0, <1>b, <1>6 DEF Spawn
    <2>2. task'[at] = "open" => done' = done
      BY <1>0, <2>1, <1>6 DEF Spawn
    <2>3. done' \subseteq done \cup {at}
      BY <1>6 DEF Spawn
    <2>4. pc' = "spawn" => at' = at + 1
      BY <1>6 DEF Spawn, NextStream
    <2>5. pc' = "spawn" => \A s \in at'..Last : task'[s] = "none" /\ s \notin done'
      BY <1>0, <1>b, <1>6, <2>1, <2>3, <2>4 DEF Spawn
    <2> QED
      BY <1>0, <1>6, <2>1, <2>2, <2>3, <2>5 DEF Spawn, NextStream
  <1>7. CASE AwaitReady
    BY <1>0, <1>7 DEF AwaitReady, card, bits, tasks
  <1>8. CASE MarkPrepareTimeout
    BY <1>0, <1>8 DEF MarkPrepareTimeout, NextStream, card, tasks
  <1>9. CASE Start
    BY <1>0, <1>9 DEF Start, card, tasks
  <1>10. CASE Stop
    BY <1>10 DEF Stop, card, tasks
  <1>11. CASE AwaitDone
    BY <1>0, <1>11 DEF AwaitDone, card, bits, tasks
  <1>12. CASE MarkCompletionTimeout
    BY <1>0, <1>12 DEF MarkCompletionTimeout, NextStream, card, tasks
  <1>13. CASE AwaitAll
    BY <1>13 DEF AwaitAll, card, bits, tasks
  <1>14. CASE SyncFile
    BY <1>14 DEF SyncFile, NextStream, bits, tasks
  <1>15. CASE WriteMetadata
    BY <1>15 DEF WriteMetadata, bits, tasks
  <1>16. CASE Finalize
    BY <1>16 DEF Finalize, bits, tasks
  <1>17. CASE End \/ Crash
    BY <1>17 DEF End, Crash, Cleared
  <1>18. ASSUME NEW n \in Names, Removed(n)
         PROVE  Protocol'
    BY <1>18 DEF Removed, main, bits, tasks
  <1>19. ASSUME NEW s \in Stream, StreamStep(s)
         PROVE  Protocol'
    <2>1. /\ task[s] # "none"
          /\ \A r \in Stream \ {s} : task'[r] = task[r]
          /\ s \notin done /\ done' \subseteq done \cup {s}
          /\ s \in done' => task'[s] = "none"
          /\ ready \subseteq ready'
      BY <1>0, <1>19
      DEF StreamStep, OpenFile, Header, Control, Capture, Close, CheckError, StoreError, SetDone,
          Goes, card, bits
    <2>2. UNCHANGED <<pc, at, late, started, early, cancel>>
      BY <1>19
      DEF StreamStep, OpenFile, Header, Control, Capture, Close, CheckError, StoreError, SetDone,
          main, bits
    <2>3. task'[s] = "capture" => started /\ (s \notin cancel \/ s \notin early)
      BY <1>0, <1>19
      DEF StreamStep, OpenFile, Header, Control, Capture, Close, CheckError, StoreError, SetDone,
          Goes
    <2>4. pc \notin Before \cup After
      BY <2>1
    <2>5. pc = "spawn" => s \notin at..Last
      BY <2>1
    <2>6. \A r \in done' : task'[r] = "none"
      BY <1>0, <2>1
    <2>7. pc = "spawn" => \A r \in at..Last : task'[r] = "none" /\ r \notin done'
      BY <1>0, <1>b, <2>1, <2>5
    <2>8. \A r \in Stream : task'[r] = "capture" => started' /\ r \notin late'
      BY <1>0, <2>1, <2>2, <2>3
    <2> QED  BY <2>1, <2>2, <2>4, <2>6, <2>7, <2>8
  <1>20. CASE UNCHANGED vars
    BY <1>20 DEF vars, card, main, bits, tasks
  <1> QED
    BY <1>1, <1>2, <1>3, <1>4, <1>5, <1>6, <1>7, <1>8, <1>9, <1>10, <1>11, <1>12, <1>13, <1>14,
       <1>15, <1>16, <1>17, <1>18, <1>19, <1>20
    DEF Next, MainStep

LEMMA ProtocolHolds == Spec => [](Types /\ Protocol)
  <1>1. Init => Types /\ Protocol
    BY TypesInit, ProtocolInit
  <1>2. Types /\ Protocol /\ [Next]_vars => Types' /\ Protocol'
    BY TypesNext, ProtocolNext
  <1> QED  BY <1>1, <1>2, PTL DEF Spec

\* While main prepares, publishes and frees a recording no task is left that
\* could write what it reads (recorder.c:619-626, 634-658).
THEOREM QuietCorrect == Spec => []QuietWhenPublished
  <1>1. Protocol => QuietWhenPublished
    BY DEF Protocol, QuietWhenPublished, Live, Before, After
  <1> QED  BY <1>1, ProtocolHolds, PTL

\* Streams capture only after the common START (recorder.c:606-612, 83-88).
THEOREM CommonStartCorrect == Spec => []CommonStart
  <1>1. Protocol => CommonStart
    BY DEF Protocol, CommonStart
  <1> QED  BY <1>1, ProtocolHolds, PTL

\* What a stream task does to its task and the bits: it is DONE when it ends.
LEMMA StreamEnds ==
    ASSUME Types, NEW s \in Stream, StreamStep(s)
    PROVE  /\ UNCHANGED <<pc, at, started, stopped>>
           /\ done \subseteq done'
           /\ \A r \in Stream \ {s} : task'[r] = task[r]
           /\ s \in done' \/ task'[s] # "none"
  <1>1. task \in [Stream -> {"none", "open", "header", "wait", "capture", "close", "check",
                             "store", "done"}]
    BY DEF Types, TypeOK
  <1>2. UNCHANGED <<pc, at, started, stopped>>
    BY DEF StreamStep, OpenFile, Header, Control, Capture, Close, CheckError, StoreError, SetDone,
           main, bits
  <1>3. done \subseteq done'
    BY DEF StreamStep, OpenFile, Header, Control, Capture, Close, CheckError, StoreError, SetDone,
           bits
  <1>4. /\ \A r \in Stream \ {s} : task'[r] = task[r]
        /\ s \in done' \/ task'[s] # "none"
    BY <1>1
    DEF StreamStep, OpenFile, Header, Control, Capture, Close, CheckError, StoreError, SetDone, Goes
  <1> QED  BY <1>2, <1>3, <1>4

LEMMA AttendedInit == Init => Attended
  BY DEF Init, Attended, Waits

LEMMA AttendedNext == Types /\ Attended /\ [Next]_vars => Attended'
  <1> SUFFICES ASSUME Types, Attended, [Next]_vars
               PROVE  Attended'
    OBVIOUS
  <1> USE DEF Attended, Waits, Live
  <1>0. /\ at \in Stream /\ done \subseteq Stream
        /\ task \in [Stream -> {"none", "open", "header", "wait", "capture",
                                 "close", "check", "store", "done"}]
    BY DEF Types, TypeOK
  <1>1. CASE Begin \/ OpenStorage \/ AllocateCounter \/ MakePaths
    BY <1>1 DEF Begin, OpenStorage, AllocateCounter, MakePaths
  <1>2. CASE InitDrivers
    <2>1. Stream = First..Last
      BY RecorderAssumption DEF Stream, First, Last
    <2> QED  BY <1>2, <2>1 DEF InitDrivers
  <1>3. CASE Spawn
    <2>1. \A s \in Stream \ {at} : task'[s] = task[s] /\ (s \in done' <=> s \in done)
      BY <1>0, <1>3 DEF Spawn
    <2>2. at \in done' \/ task'[at] # "none"
      BY <1>0, <1>3 DEF Spawn
    <2>3. at..Last = {at} \cup (at + 1)..Last /\ (at = Last => (at + 1)..Last = {})
      BY <1>0, RecorderAssumption DEF Stream, Last
    <2>4. \A s \in Stream \ done' : s \in (at + 1)..Last \/ task'[s] # "none"
      BY <1>3, <2>1, <2>2, <2>3 DEF Spawn
    <2>5. \/ pc' = "spawn" /\ at' = at + 1
          \/ pc' = "await_ready" /\ at = Last
      BY <1>3 DEF Spawn, NextStream
    <2> QED  BY <2>3, <2>4, <2>5
  <1>4. CASE AwaitReady \/ Start \/ Stop \/ AwaitDone \/ AwaitAll
    BY <1>4 DEF AwaitReady, Start, Stop, AwaitDone, AwaitAll, tasks, bits
  <1>5. CASE MarkPrepareTimeout \/ MarkCompletionTimeout
    BY <1>5 DEF MarkPrepareTimeout, MarkCompletionTimeout, NextStream, tasks
  <1>6. CASE SyncFile \/ WriteMetadata \/ Finalize \/ End \/ Crash
    BY <1>6 DEF SyncFile, NextStream, WriteMetadata, Finalize, End, Crash, Cleared
  <1>7. ASSUME NEW n \in Names, Removed(n)
        PROVE  Attended'
    BY <1>7 DEF Removed, main, bits, tasks
  <1>8. ASSUME NEW s \in Stream, StreamStep(s)
        PROVE  Attended'
    <2>1. \A r \in Stream \ done' : r \in Stream \ done /\ (task[r] # "none" => task'[r] # "none")
      BY <1>8, StreamEnds
    <2> QED  BY <1>8, <2>1, StreamEnds
  <1>9. CASE UNCHANGED vars
    BY <1>9 DEF vars, main, bits, tasks
  <1> QED  BY <1>1, <1>2, <1>3, <1>4, <1>5, <1>6, <1>7, <1>8, <1>9 DEF Next, MainStep

\* Whenever main waits without a timeout, what it waits for has a task that START and
\* STOP have released (recorder.c:85, 614-620).
THEOREM NobodyWaitsForeverCorrect == Spec => []NobodyWaitsForever
  <1>1. Init => Types /\ Attended
    BY TypesInit, AttendedInit
  <1>2. Types /\ Attended /\ [Next]_vars => Types' /\ Attended'
    BY TypesNext, AttendedNext
  <1>3. Attended => NobodyWaitsForever
    BY DEF Attended, NobodyWaitsForever, Waits
  <1> QED  BY <1>1, <1>2, <1>3, PTL DEF Spec
------------------------------------------------------------------------------
(***************************************************************************)
(* Counters and directories.                                               *)
(***************************************************************************)
LEMMA BookkeepingInit == Init => Bookkeeping
  <1>1. DOMAIN NoDirectories = {}
    BY DEF NoDirectories
  <1> QED  BY <1>1 DEF Init, Bookkeeping

\* A step that changes no name and no counter of a staging directory, and
\* neither issues a counter nor publishes.
LEMMA BookkeepingKept ==
    ASSUME Bookkeeping, UNCHANGED <<counter, issued>>, DOMAIN arch' \subseteq DOMAIN arch,
           DOMAIN part' = DOMAIN part, \A n \in DOMAIN part : part'[n].counter = part[n].counter,
           pc' # "mkdir" \/ UNCHANGED <<pc, cnt>>
    PROVE  Bookkeeping'
  BY DEF Bookkeeping

\* What a stream task does to the staging directories.
LEMMA StreamWrites ==
    ASSUME Types, NEW s \in Stream, StreamStep(s)
    PROVE  /\ UNCHANGED <<counter, arch, issued, main>>
           /\ DOMAIN part' = DOMAIN part
           /\ \A n \in DOMAIN part :
                 /\ part'[n].counter = part[n].counter /\ part'[n].meta = part[n].meta
                 /\ \A r \in Stream : r # s => part'[n].file[r] = part[n].file[r]
                 /\ part[n].file[s] # "none" => part'[n].file[s] # "none"
  <1>0. \A m \in DOMAIN part : part[m] \in Directory
    BY DEF Types, TypeOK
  <1>1. UNCHANGED <<counter, arch, issued, main>>
    BY DEF StreamStep, OpenFile, Header, Control, Capture, Close, CheckError, StoreError, SetDone,
           card
  <1>2. CASE part' = part
    BY <1>1, <1>2
  <1>3. CASE part' = [part EXCEPT ![cur].file[s] = "partial"]
    BY <1>0, <1>1, <1>3, WriteFile
  <1>4. CASE part' = [part EXCEPT ![cur].file[s] = "full"]
    BY <1>0, <1>1, <1>4, WriteFile
  <1>5. \/ part' = part
        \/ part' = [part EXCEPT ![cur].file[s] = "partial"]
        \/ part' = [part EXCEPT ![cur].file[s] = "full"]
    BY DEF StreamStep, OpenFile, Header, Control, Capture, Close, CheckError, StoreError, SetDone,
           card, Writes
  <1> QED  BY <1>2, <1>3, <1>4, <1>5

\* What main does to them while it completes the directory.
LEMMA MainWrites ==
    ASSUME Types, SyncFile \/ WriteMetadata
    PROVE  /\ UNCHANGED <<counter, arch, issued>>
           /\ DOMAIN part' = DOMAIN part
           /\ \A n \in DOMAIN part :
                 /\ part'[n].counter = part[n].counter
                 /\ \A r \in Stream : part[n].file[r] # "none" => part'[n].file[r] = part[n].file[r]
           /\ \/ SyncFile /\ \A n \in DOMAIN part : part'[n].meta = part[n].meta
              \/ WriteMetadata
  <1>0. /\ \A m \in DOMAIN part : part[m] \in Directory
        /\ at \in Stream /\ err \in [Stream -> {"ok", "failed"}]
    BY DEF Types, TypeOK
  <1>1. UNCHANGED <<counter, arch, issued>>
    BY DEF SyncFile, WriteMetadata
  <1>2. CASE part' = part
    BY <1>1, <1>2
  <1>3. CASE SyncFile /\ part[cur].file[at] = "none"
                /\ part' = [part EXCEPT ![cur].file[at] = "partial"]
    BY <1>0, <1>1, <1>3, WriteFile
  <1>4. CASE WriteMetadata /\ part' = [part EXCEPT ![cur].meta = err]
    BY <1>0, <1>1, <1>4, SetMeta
  <1> QED  BY <1>2, <1>3, <1>4 DEF SyncFile, Synced, WriteMetadata

\* What publishing does.
LEMMA Published ==
    ASSUME Types, Finalize, ~UNCHANGED <<part, arch, issued>>
    PROVE  /\ cur \in DOMAIN part /\ cur \notin DOMAIN arch /\ part[cur].meta # Nothing
           /\ DOMAIN part' = DOMAIN part \ {cur}
           /\ \A n \in DOMAIN part' : part'[n] = part[n]
           /\ arch' = [m \in DOMAIN arch \cup {cur} |-> IF m = cur THEN part[cur] ELSE arch[m]]
           /\ issued' = issued \cup {part[cur].counter}
           /\ UNCHANGED counter /\ pc = "finalize" /\ pc' = "end"
  BY DEF Finalize, Types, Staged, With, Without

\* What creating a directory does.
LEMMA Created ==
    ASSUME Types, MakePaths, ~UNCHANGED part
    PROVE  /\ cnt \in 1..MaxCounter /\ pc = "mkdir" /\ pc' = "drivers"
           /\ cur' \in Names /\ cur' \notin DOMAIN part /\ cur' \notin DOMAIN arch
           /\ DOMAIN part' = DOMAIN part \cup {cur'}
           /\ part'[cur'] = [counter |-> cnt, file |-> [s \in Stream |-> "none"],
                             meta |-> Nothing]
           /\ \A n \in DOMAIN part : part'[n] = part[n]
           /\ UNCHANGED <<counter, arch, issued>>
  <1>1. cnt \in 1..MaxCounter /\ cnt \in Nat /\ pc = "mkdir" /\ UNCHANGED <<counter, arch, issued>>
    BY RecorderAssumption DEF MakePaths, Types
  <1>2. PICK t \in Stamp :
            /\ \E i \in 0..Modulus - 1 : Free(<<i, t>>)
            /\ cur' = Probe(t)
            /\ part' = With(part, cur', [counter |-> cnt, file |-> [s \in Stream |-> "none"],
                                         meta |-> Nothing])
            /\ pc' = "drivers"
    BY DEF MakePaths
  <1>3. cur' \in Names /\ cur' \notin DOMAIN part /\ cur' \notin DOMAIN arch
    BY <1>1, <1>2, ProbeFinds DEF Free
  <1> QED  BY <1>1, <1>2, <1>3 DEF With

LEMMA BookkeepingNext == Types /\ Bookkeeping /\ [Next]_vars => Bookkeeping'
  <1> SUFFICES ASSUME Types, Bookkeeping, [Next]_vars
               PROVE  Bookkeeping'
    OBVIOUS
  <1>0. /\ counter \in Nat /\ issued \subseteq Nat
        /\ \A n \in DOMAIN part : part[n].counter \in Nat
    BY RecorderAssumption DEF Types, TypeOK, Directory
  <1>1. CASE AllocateCounter
    BY <1>0, <1>1 DEF AllocateCounter, Bookkeeping
  <1>2. CASE MakePaths
    <2>1. CASE UNCHANGED part
      BY <1>2, <2>1, BookkeepingKept DEF MakePaths
    <2>2. CASE ~UNCHANGED part
      BY <1>2, <2>2, Created DEF Bookkeeping
    <2> QED  BY <2>1, <2>2
  <1>3. CASE Finalize
    <2>1. CASE UNCHANGED <<part, arch, issued>>
      BY <1>3, <2>1, BookkeepingKept DEF Finalize
    <2>2. CASE ~UNCHANGED <<part, arch, issued>>
      BY <1>0, <1>3, <2>2, Published DEF Bookkeeping
    <2> QED  BY <2>1, <2>2
  <1>4. CASE SyncFile \/ WriteMetadata
    <2>1. pc' # "mkdir"
      BY <1>4 DEF SyncFile, WriteMetadata, NextStream
    <2> QED  BY <1>4, <2>1, MainWrites, BookkeepingKept
  <1>5. ASSUME NEW s \in Stream, StreamStep(s)
        PROVE  Bookkeeping'
    BY <1>5, StreamWrites, BookkeepingKept DEF main
  <1>6. ASSUME NEW n \in Names, Removed(n)
        PROVE  Bookkeeping'
    BY <1>6, BookkeepingKept DEF Removed, Without, main
  <1>7. CASE Begin \/ OpenStorage \/ InitDrivers \/ Spawn \/ AwaitReady \/ MarkPrepareTimeout
               \/ Start \/ Stop \/ AwaitDone \/ MarkCompletionTimeout \/ AwaitAll
               \/ End \/ Crash \/ UNCHANGED vars
    <2>1. UNCHANGED <<card, issued>> /\ (pc' # "mkdir" \/ UNCHANGED <<pc, cnt>>)
      BY <1>7
      DEF Begin, OpenStorage, InitDrivers, Spawn, AwaitReady, MarkPrepareTimeout, Start, Stop,
          AwaitDone, MarkCompletionTimeout, AwaitAll, End, Crash, Cleared, NextStream, vars, main
    <2> QED  BY <2>1, BookkeepingKept DEF card
  <1> QED
    BY <1>1, <1>2, <1>3, <1>4, <1>5, <1>6, <1>7 DEF Next, MainStep

LEMMA BookkeepingHolds == Spec => [](Types /\ Bookkeeping)
  <1>1. Init => Types /\ Bookkeeping
    BY TypesInit, BookkeepingInit
  <1>2. Types /\ Bookkeeping /\ [Next]_vars => Types' /\ Bookkeeping'
    BY TypesNext, BookkeepingNext
  <1> QED  BY <1>1, <1>2, PTL DEF Spec

\* No counter is ever used twice, through any number of resets
\* (storage_service.c:169-200, 242-314).
THEOREM CountersDistinctCorrect == Spec => []CountersDistinct
  <1>1. Bookkeeping => CountersDistinct
    BY DEF Bookkeeping, CountersDistinct
  <1> QED  BY <1>1, BookkeepingHolds, PTL

\* A staging directory keeps its name, its counter and its files until it is
\* published as it is (storage_service.c:316-351: the rename; no unlink, no rmdir).
THEOREM StagingKeptCorrect == Spec => StagingKept
  <1> DEFINE Kept == \A n \in DOMAIN part :
          \/ n \in DOMAIN part' /\ part'[n].counter = part[n].counter
             /\ \A s \in Stream : part[n].file[s] # "none" => part'[n].file[s] # "none"
          \/ n \in DOMAIN arch' /\ arch'[n] = part[n]
  <1>1. Types /\ [Next]_vars => [Kept]_vars
    <2> SUFFICES ASSUME Types, Next
                 PROVE  Kept
      OBVIOUS
    <2>1. CASE UNCHANGED part
      BY <2>1
    <2>2. CASE MakePaths /\ ~UNCHANGED part
      BY <2>2, Created
    <2>3. CASE SyncFile \/ WriteMetadata
      BY <2>3, MainWrites
    <2>4. CASE Finalize /\ ~UNCHANGED part
      BY <2>4, Published
    <2>5. ASSUME NEW s \in Stream, StreamStep(s)
          PROVE  Kept
      BY <2>5, StreamWrites
    <2>6. CASE Begin \/ OpenStorage \/ AllocateCounter \/ InitDrivers \/ Spawn \/ AwaitReady
                 \/ MarkPrepareTimeout \/ Start \/ Stop \/ AwaitDone \/ MarkCompletionTimeout
                 \/ AwaitAll \/ End \/ Crash \/ \E n \in Names : Removed(n)
      <3>1. UNCHANGED part
        BY <2>6
        DEF Begin, OpenStorage, AllocateCounter, InitDrivers, Spawn, AwaitReady,
            MarkPrepareTimeout, Start, Stop, AwaitDone, MarkCompletionTimeout, AwaitAll, End,
            Crash, Removed, card
      <3> QED  BY <3>1
    <2> QED  BY <2>1, <2>2, <2>3, <2>4, <2>5, <2>6 DEF Next, MainStep
  <1>2. Spec => []Types
    BY TypesInit, TypesNext, PTL DEF Spec
  <1> QED  BY <1>1, <1>2, PTL DEF Spec, StagingKept

------------------------------------------------------------------------------
(***************************************************************************)
(* The root of the card implements RecordArchive.                          *)
(***************************************************************************)
\* What the abstract specification sees of the recordings.
Shown(f) == [n \in DOMAIN f |->
               [counter |-> f[n].counter, full |-> {s \in Stream : f[n].file[s] = "full"}]]

LEMMA ArchiveStep ==
    ASSUME Types, Bookkeeping, [Next]_vars
    PROVE  [Archive!Next]_<<Shown(arch), issued>>
  <1>1. CASE UNCHANGED <<arch, issued>>
    BY <1>1
  <1>2. ASSUME NEW n \in Names, Removed(n)
        PROVE  Archive!Next
    <2>1. DOMAIN Shown(arch) = DOMAIN arch
      BY DEF Shown
    <2>2. Shown(arch') = [m \in DOMAIN Shown(arch) \ {n} |-> Shown(arch)[m]]
      BY <1>2, <2>1 DEF Removed, Without, Shown
    <2>3. Archive!Remove(n)
      BY <1>2, <2>1, <2>2 DEF Removed, Archive!Remove, Shown
    <2> QED  BY <2>3 DEF Archive!Next
  <1>3. CASE Finalize /\ ~UNCHANGED <<part, arch, issued>>
    <2> DEFINE r == [counter |-> part[cur].counter,
                     full |-> {s \in Stream : part[cur].file[s] = "full"}]
    <2>1. /\ cur \in DOMAIN part /\ cur \notin DOMAIN arch
          /\ arch' = [m \in DOMAIN arch \cup {cur} |-> IF m = cur THEN part[cur] ELSE arch[m]]
          /\ issued' = issued \cup {part[cur].counter}
      BY <1>3, Published
    <2>2. cur \in Names /\ r \in Archive!Recording
      BY <2>1 DEF Types, TypeOK, Directory, Archive!Recording
    <2>3. Shown(arch') = [m \in DOMAIN Shown(arch) \cup {cur} |->
                            IF m = cur THEN r ELSE Shown(arch)[m]]
      BY <2>1 DEF Shown
    <2>4. Archive!Appear(cur, r)
      BY <2>1, <2>3 DEF Archive!Appear, Bookkeeping, Shown
    <2> HIDE DEF r
    <2>5. Archive!Next
      BY <2>2, <2>4 DEF Archive!Next, Archive!Appear
    <2> QED  BY <2>5
  <1>4. \/ UNCHANGED <<arch, issued>>
        \/ \E n \in Names : Removed(n)
        \/ Finalize /\ ~UNCHANGED <<part, arch, issued>>
    <2>1. CASE UNCHANGED vars
      BY <2>1 DEF vars, card
    <2>2. ASSUME NEW s \in Stream, StreamStep(s)
          PROVE  UNCHANGED <<arch, issued>>
      BY <2>2, StreamWrites
    <2>3. CASE Begin \/ OpenStorage \/ AllocateCounter \/ MakePaths \/ InitDrivers \/ Spawn
                 \/ AwaitReady \/ MarkPrepareTimeout \/ Start \/ Stop \/ AwaitDone
                 \/ MarkCompletionTimeout \/ AwaitAll \/ SyncFile \/ WriteMetadata \/ End \/ Crash
      BY <2>3
      DEF Begin, OpenStorage, AllocateCounter, MakePaths, InitDrivers, Spawn, AwaitReady,
          MarkPrepareTimeout, Start, Stop, AwaitDone, MarkCompletionTimeout, AwaitAll, SyncFile,
          WriteMetadata, End, Crash, card
    <2> QED  BY <2>1, <2>2, <2>3 DEF Next, MainStep
  <1> QED  BY <1>1, <1>2, <1>3, <1>4

\* Recordings appear in the root of the card whole and at once, each under a
\* name and a counter of its own, and change only by being removed
\* (storage_service.c:316-351).
THEOREM ArchiveImplemented == Spec => ArchiveSpec
  <1>1. Init => Archive!Init
    BY DEF Init, NoDirectories, Archive!Init
  <1>2. Types /\ Bookkeeping /\ [Next]_vars => [Archive!Next]_(Archive!avars)
    BY ArchiveStep DEF Archive!avars, Shown
  <1> QED  BY <1>1, <1>2, BookkeepingHolds, PTL DEF Spec, ArchiveSpec, Archive!Spec

------------------------------------------------------------------------------
(***************************************************************************)
(* What an error of "ok" means.                                            *)
(***************************************************************************)
LEMMA TruthInit == Init => Truth
  <1>1. DOMAIN NoDirectories = {}
    BY DEF NoDirectories
  <1> QED  BY <1>1 DEF Init, Truth, MetadataTruthful, Staged

\* A step of main that leaves the directories, the tasks and the DONE bits
\* alone, and records no more than a failure.
LEMMA TruthKept ==
    ASSUME Types, Truth, UNCHANGED <<part, arch, cur, task, res, done>>,
           \A s \in Stream : err'[s] = "ok" => err[s] = "ok",
           pc' \in {"sync", "meta"} => pc \in {"sync", "meta"} \/ Stream \subseteq done,
           pc' \in Staged => pc \in Staged,
           pc' = "finalize" => pc = "finalize"
    PROVE  Truth'
  BY DEF Truth, MetadataTruthful

\* Nothing is at stake without a task, a DONE bit or a completed directory.
LEMMA TruthIdle ==
    ASSUME Truth, DOMAIN arch' \subseteq DOMAIN arch, \A n \in DOMAIN arch' : arch'[n] = arch[n],
           \A s \in Stream : task'[s] \in {"none", "open"}, done' = {} \/ pc' \notin Staged,
           pc' \notin {"sync", "meta", "finalize"}
    PROVE  Truth'
  BY DEF Truth, MetadataTruthful

LEMMA TruthNext == Types /\ Protocol /\ Truth /\ [Next]_vars => Truth'
  <1> SUFFICES ASSUME Types, Protocol, Truth, [Next]_vars
               PROVE  Truth'
    OBVIOUS
  <1>0. /\ at \in Stream /\ done \subseteq Stream /\ err \in [Stream -> {"ok", "failed"}]
        /\ res \in [Stream -> {"ok", "failed"}]
        /\ task \in [Stream -> {"none", "open", "header", "wait", "capture", "close", "check",
                                "store", "done"}]
        /\ pc \in Staged => cur \in DOMAIN part
        /\ \A n \in DOMAIN part : part[n] \in Directory
    BY DEF Types, TypeOK
  <1>1. CASE Begin \/ OpenStorage \/ AllocateCounter \/ MakePaths \/ InitDrivers
    <2>1. /\ pc \in Before /\ UNCHANGED <<arch, task, done>>
          /\ pc' \in {"open", "count", "mkdir", "drivers", "spawn", "end"}
      BY <1>1 DEF Begin, Idle, OpenStorage, AllocateCounter, MakePaths, InitDrivers, Before, card,
                  bits, tasks
    <2>2. done = {} /\ \A s \in Stream : task[s] = "none"
      BY <2>1 DEF Protocol
    <2> QED  BY <2>1, <2>2, TruthIdle
  <1>2. CASE Spawn
    <2>1. UNCHANGED <<part, arch, cur, res>> /\ pc \in Staged
          /\ pc' \in {"spawn", "await_ready"} /\ task[at] = "none"
      BY <1>0, <1>2, RecorderAssumption
      DEF Spawn, NextStream, card, Protocol, Staged, Stream, Last
    <2>2. \A s \in Stream : task'[s] # "open" => task'[s] = task[s]
      BY <1>0, <1>2 DEF Spawn
    <2>3. \A s \in Stream : err'[s] = "ok" => err[s] = "ok" /\ (s \in done' => s \in done)
      BY <1>0, <1>2 DEF Spawn
    <2> QED  BY <2>1, <2>2, <2>3 DEF Truth, MetadataTruthful
  <1>3. CASE AwaitReady \/ MarkPrepareTimeout \/ Start \/ Stop \/ AwaitDone
               \/ MarkCompletionTimeout \/ AwaitAll
    <2>1. /\ UNCHANGED <<part, arch, cur, task, res, done>>
          /\ pc \in Staged /\ pc' # "finalize"
      BY <1>3
      DEF AwaitReady, MarkPrepareTimeout, Start, Stop, AwaitDone, MarkCompletionTimeout, AwaitAll,
          NextStream, Staged, card, tasks, bits
    <2>2. \A s \in Stream : err'[s] = "ok" => err[s] = "ok"
      BY <1>0, <1>3
      DEF AwaitReady, MarkPrepareTimeout, Start, Stop, AwaitDone, MarkCompletionTimeout, AwaitAll
    <2>3. pc' \in {"sync", "meta"} => Stream \subseteq done
      BY <1>0, <1>3
      DEF AwaitReady, MarkPrepareTimeout, Start, Stop, AwaitDone, MarkCompletionTimeout, AwaitAll,
          NextStream
    <2> QED  BY <2>1, <2>2, <2>3, TruthKept
  <1>4. CASE SyncFile
    <2>1. /\ pc = "sync" /\ pc' \in {"sync", "meta", "end"}
          /\ UNCHANGED <<cur, task, res, done, err>>
      BY <1>4 DEF SyncFile, NextStream, bits, tasks
    <2>2. \A s \in Stream : task[s] = "none"
      BY <2>1 DEF Protocol, After
    <2>3. cur \in DOMAIN part
      BY <1>0, <2>1 DEF Staged
    <2>4. /\ UNCHANGED arch
          /\ \A s \in Stream : part[cur].file[s] # "none" => part'[cur].file[s] = part[cur].file[s]
      BY <1>4, <2>3, MainWrites
    <2> QED  BY <2>1, <2>2, <2>4 DEF Truth, MetadataTruthful, Staged
  <1>5. CASE WriteMetadata
    <2>1. /\ pc = "meta" /\ pc' \in {"finalize", "end"}
          /\ UNCHANGED <<arch, cur, task, res, done, err>>
      BY <1>5 DEF WriteMetadata, bits, tasks
    <2>2. \A s \in Stream : task[s] = "none" /\ s \in done
      BY <2>1 DEF Protocol, After, Truth
    <2>3. cur \in DOMAIN part /\ \A s \in Stream : err[s] = "ok" => part[cur].file[s] = "full"
      BY <1>0, <2>1, <2>2 DEF Staged, Truth
    <2>4. CASE pc' = "finalize"
      <3>1. part' = [part EXCEPT ![cur].meta = err]
        BY <1>5, <2>4 DEF WriteMetadata
      <3>2. part'[cur].meta = err /\ part'[cur].file = part[cur].file
        BY <1>0, <2>3, <3>1, SetMeta
      <3> QED  BY <2>1, <2>2, <2>3, <2>4, <3>2 DEF Truth, MetadataTruthful
    <2>5. CASE pc' = "end"
      BY <2>1, <2>2, <2>5, TruthIdle DEF Staged
    <2> QED  BY <2>1, <2>4, <2>5
  <1>6. CASE Finalize
    <2>1. pc = "finalize" /\ pc' = "end" /\ UNCHANGED <<task, done>>
      BY <1>6 DEF Finalize, bits, tasks
    <2>2. \A s \in Stream : task[s] = "none"
      BY <2>1 DEF Protocol, After
    <2>3. CASE UNCHANGED <<part, arch, issued>>
      BY <2>1, <2>2, <2>3, TruthIdle DEF Staged
    <2>4. CASE ~UNCHANGED <<part, arch, issued>>
      <3>1. /\ part[cur].meta # Nothing
            /\ arch' = [m \in DOMAIN arch \cup {cur} |-> IF m = cur THEN part[cur] ELSE arch[m]]
        BY <1>6, <2>4, Published
      <3>2. \A s \in Stream : part[cur].meta[s] = "ok" => part[cur].file[s] = "full"
        BY <2>1, <3>1 DEF Truth
      <3>3. MetadataTruthful'
        BY <3>1, <3>2 DEF Truth, MetadataTruthful
      <3> QED  BY <2>1, <2>2, <3>3 DEF Truth, Staged
    <2> QED  BY <2>3, <2>4
  <1>7. CASE End \/ Crash
    <2>1. /\ UNCHANGED arch /\ done' = {} /\ pc' = "idle"
          /\ \A s \in Stream : task'[s] = "none"
      BY <1>7 DEF End, Crash, Cleared, card
    <2> QED  BY <2>1, TruthIdle
  <1>8. ASSUME NEW n \in Names, Removed(n)
        PROVE  Truth'
    BY <1>8 DEF Removed, Without, main, bits, tasks, Truth, MetadataTruthful
  <1>9. ASSUME NEW s \in Stream, StreamStep(s)
        PROVE  Truth'
    <2>1. /\ UNCHANGED <<pc, cur, arch>>
          /\ \A n \in DOMAIN part : \A r \in Stream : r # s => part'[n].file[r] = part[n].file[r]
      BY <1>9, StreamWrites DEF main
    <2>2. task[s] # "none"
      BY <1>9
      DEF StreamStep, OpenFile, Header, Control, Capture, Close, CheckError, StoreError, SetDone,
          Goes
    <2>3. s \notin done /\ pc \notin Before \cup After
      BY <2>2 DEF Protocol
    <2>4. pc \in Staged /\ cur \in DOMAIN part /\ pc \notin {"sync", "meta", "finalize"}
      BY <1>0, <2>3 DEF Types, TypeOK, Before, After, Staged
    <2>5. \A r \in Stream : r # s => /\ task'[r] = task[r] /\ res'[r] = res[r] /\ err'[r] = err[r]
                                     /\ (r \in done' <=> r \in done)
      BY <1>0, <1>9
      DEF StreamStep, OpenFile, Header, Control, Capture, Close, CheckError, StoreError, SetDone,
          Goes, Fails, bits
    <2>6. /\ task'[s] \in {"check", "store"} /\ res'[s] = "ok" => part'[cur].file[s] = "full"
          /\ task'[s] = "done" /\ err'[s] = "ok" => part'[cur].file[s] = "full"
          /\ s \in done' /\ err'[s] = "ok" => part'[cur].file[s] = "full"
      <3>1. CASE OpenFile(s)
        BY <1>0, <2>3, <3>1 DEF OpenFile, Goes
      <3>2. CASE Header(s) \/ Control(s) \/ Capture(s)
        BY <1>0, <2>3, <3>2 DEF Header, Control, Capture, Goes, bits
      <3>3. CASE Close(s)
        <4>1. task'[s] = "check" /\ s \notin done'
          BY <1>0, <2>3, <3>3 DEF Close, Goes, bits
        <4>2. CASE UNCHANGED res
          <5>1. res[s] = "ok" => part' = [part EXCEPT ![cur].file[s] = "full"]
            BY <1>0, <3>3, <4>2 DEF Close, Writes, Fails
          <5> QED  BY <1>0, <2>4, <4>1, <4>2, <5>1, WriteFile
        <4>3. CASE Fails(s)
          BY <1>0, <4>1, <4>3 DEF Fails
        <4> QED  BY <3>3, <4>2, <4>3 DEF Close
      <3>4. CASE CheckError(s)
        BY <1>0, <2>3, <3>4 DEF CheckError, Goes, card, bits, Truth
      <3>5. CASE StoreError(s)
        BY <1>0, <2>3, <3>5 DEF StoreError, Goes, card, bits, Truth
      <3>6. CASE SetDone(s)
        BY <1>0, <3>6 DEF SetDone, Goes, card, Truth
      <3> QED  BY <1>9, <3>1, <3>2, <3>3, <3>4, <3>5, <3>6 DEF StreamStep
    <2> QED  BY <2>1, <2>4, <2>5, <2>6 DEF Truth, MetadataTruthful
  <1>10. CASE UNCHANGED vars
    BY <1>10 DEF vars, card, main, bits, tasks, Truth, MetadataTruthful
  <1> QED
    BY <1>1, <1>2, <1>3, <1>4, <1>5, <1>6, <1>7, <1>8, <1>9, <1>10 DEF Next, MainStep

\* The metadata of a published recording calls a stream "ok" only when its file
\* is full, whatever failed, came late or raced (recorder.c:100-312, 593-658).
THEOREM MetadataTruthfulCorrect == Spec => []MetadataTruthful
  <1>1. Init => Types /\ Protocol /\ Truth
    BY TypesInit, ProtocolInit, TruthInit
  <1>2. Types /\ Protocol /\ Truth /\ [Next]_vars => Types' /\ Protocol' /\ Truth'
    BY TypesNext, ProtocolNext, TruthNext
  <1>3. Truth => MetadataTruthful
    BY DEF Truth
  <1> QED  BY <1>1, <1>2, <1>3, PTL DEF Spec
==============================================================================
