-------------------------- MODULE PersistenceProofs --------------------------
(***************************************************************************)
(* For any number of changes, crashes, I/O errors and saves under way      *)
(* together, and any mixture of marked and unmarked messages, the state    *)
(* file is a state the store was in.  Until two saves of a process overlap *)
(* or an I/O operation fails, every marked change that is not in the file  *)
(* is going to be saved, and the file only grows.                          *)
(***************************************************************************)
EXTENDS Persistence, TLAPS

\* Save steps and phases, without the counters' bounds.
Types ==
  /\ saves \in [Savers -> [step : {"idle", "begin", "temp"},
                           snap : SUBSET Changes]]
  /\ base \in [Changes -> SUBSET Changes]
  /\ mem \subseteq Changes /\ file \subseteq Changes
  /\ count \in 0..MaxChanges

\* What exists was made: later changes are in no set yet.
Made(S) == \A c \in S : c <= count

\* S has no change without the ones it was made on top of.
Closed(S) == \A c \in S : base[c] \subseteq S

Pictures ==
  /\ Made(mem) /\ Closed(mem)
  /\ Made(file) /\ Closed(file)
  /\ \A s \in Savers : Made(saves[s].snap) /\ Closed(saves[s].snap)

ConsistencyInv == Types /\ Pictures

-----------------------------------------------------------------------------
\* A change gets a number nobody has, so what was closed stays closed, and the
\* store with the change is closed again.
LEMMA ChangeKeepsPictures ==
  ASSUME NEW marks, ConsistencyInv, Change(marks), UNCHANGED <<file, saves>>
  PROVE  ConsistencyInv'
<1> DEFINE n == count + 1
<1>1. n \in Changes /\ count' = n /\ count' \in 0..MaxChanges
  BY PersistenceConstants DEF ConsistencyInv, Types, Change, Changes
<1>2. Types'
  BY <1>1 DEF ConsistencyInv, Types, Change
<1>3. ASSUME NEW S \in SUBSET Changes, Made(S), Closed(S)
      PROVE  /\ \A c \in S : c <= count'
             /\ \A c \in S : base'[c] \subseteq S
  <2>1. \A c \in S : c \in Nat /\ c <= count /\ c # n
    BY <1>3 DEF Made, Changes, ConsistencyInv, Types
  <2>2. \A c \in S : c <= count'
    BY <1>1, <2>1 DEF ConsistencyInv, Types
  <2>3. \A c \in S : base'[c] = base[c]
    BY <2>1 DEF Change, ConsistencyInv, Types
  <2> QED
    BY <1>3, <2>2, <2>3 DEF Closed
<1>4. Made(mem)' /\ Closed(mem)'
  <2>1. /\ \A c \in mem : c <= count'
        /\ \A c \in mem : base'[c] \subseteq mem
    BY <1>3 DEF ConsistencyInv, Types, Pictures
  <2>2. mem' = mem \cup {n} /\ base'[n] = mem
    BY <1>1 DEF Change, ConsistencyInv, Types
  <2>3. n <= count'
    BY <1>1 DEF Changes
  <2> QED
    BY <2>1, <2>2, <2>3 DEF Made, Closed
<1>5. Made(file)' /\ Closed(file)'
  BY <1>3 DEF ConsistencyInv, Types, Pictures, Made, Closed
<1>6. \A s \in Savers : Made(saves[s].snap)' /\ Closed(saves[s].snap)'
  <2> SUFFICES ASSUME NEW s \in Savers
               PROVE  Made(saves[s].snap)' /\ Closed(saves[s].snap)'
    OBVIOUS
  <2>1. saves[s].snap \in SUBSET Changes
    BY DEF ConsistencyInv, Types
  <2>2. /\ \A c \in saves[s].snap : c <= count'
        /\ \A c \in saves[s].snap : base'[c] \subseteq saves[s].snap
    BY <1>3, <2>1 DEF ConsistencyInv, Pictures
  <2> QED
    BY <2>2 DEF Made, Closed
<1> QED
  BY <1>2, <1>4, <1>5, <1>6 DEF ConsistencyInv, Pictures

\* Every other step moves whole pictures around: from the store to a save, from
\* a save to the file, from the file to the store.
LEMMA MovesKeepPictures ==
  ASSUME ConsistencyInv, UNCHANGED <<base, count>>,
         mem' \in {mem, file, {}},
         file' = file \/ \E s \in Savers : file' = saves[s].snap,
         saves' \in [Savers -> [step : {"idle", "begin", "temp"},
                                snap : SUBSET Changes]],
         \A s \in Savers : saves'[s].snap \in {saves[s].snap, mem, {}}
  PROVE  ConsistencyInv'
<1>1. Types'
  BY DEF ConsistencyInv, Types
<1>2. Made(mem)' /\ Closed(mem)'
  BY DEF ConsistencyInv, Pictures, Made, Closed
<1>3. Made(file)' /\ Closed(file)'
  BY DEF ConsistencyInv, Pictures, Made, Closed
<1>4. \A s \in Savers : Made(saves[s].snap)' /\ Closed(saves[s].snap)'
  BY DEF ConsistencyInv, Pictures, Made, Closed
<1> QED
  BY <1>1, <1>2, <1>3, <1>4 DEF ConsistencyInv, Pictures

LEMMA ConsistencyStep == ConsistencyInv /\ [Next]_vars => ConsistencyInv'
<1> SUFFICES ASSUME ConsistencyInv, [Next]_vars PROVE ConsistencyInv'
  OBVIOUS
<1> USE DEF NotSaving
<1>1. CASE ReceiveMessage \/ SendMessage
  BY <1>1, ChangeKeepsPictures DEF ReceiveMessage, SendMessage
<1>2. CASE \/ ReceiveRepeated \/ ReaderMarksDirty \/ AppMarksDirty
           \/ UNCHANGED vars \/ StartUnreadable
  <2>1. UNCHANGED <<mem, file, saves, base, count>>
    BY <1>2 DEF ReceiveRepeated, ReaderMarksDirty, AppMarksDirty, vars,
       StartUnreadable
  <2> QED
    BY <2>1 DEF ConsistencyInv, Types, Pictures, Made, Closed
<1>3. ASSUME NEW s \in TimerSaves, TimerFires(s) PROVE ConsistencyInv'
  BY <1>3, MovesKeepPictures DEF TimerFires, Savers, ConsistencyInv, Types
<1>4. ASSUME NEW s \in Savers, TakeSnapshot(s) PROVE ConsistencyInv'
  BY <1>4, MovesKeepPictures DEF TakeSnapshot, ConsistencyInv, Types
<1>5. ASSUME NEW s \in Savers, Rename(s) \/ SaveFails(s) PROVE ConsistencyInv'
  BY <1>5, MovesKeepPictures DEF Rename, SaveFails, SaveEnds, ConsistencyInv, Types
<1>6. CASE Close
  BY <1>6, MovesKeepPictures DEF Close, Savers, ConsistencyInv, Types
<1>7. CASE Exit \/ Crash
  BY <1>7, MovesKeepPictures DEF Exit, Crash, Ends, ConsistencyInv, Types
<1>8. CASE Start
  BY <1>8, MovesKeepPictures DEF Start, ConsistencyInv, Types
<1> QED
  BY <1>1, <1>2, <1>3, <1>4, <1>5, <1>6, <1>7, <1>8 DEF Next

\* The state file never has a change without those it was made on top of,
\* whatever crashes, fails or overlaps.
THEOREM FileConsistency == Spec => []FileIsConsistent
<1>1. Init => ConsistencyInv
  BY PersistenceConstants DEF Init, ConsistencyInv, Types, Pictures, Made,
     Closed, Changes, NotSaving
<1>2. ConsistencyInv /\ [Next]_vars => ConsistencyInv'
  BY ConsistencyStep
<1>3. ConsistencyInv => FileIsConsistent
  BY DEF ConsistencyInv, Pictures, Closed, FileIsConsistent
<1> QED
  BY <1>1, <1>2, <1>3, PTL DEF Spec

-----------------------------------------------------------------------------
(***************************************************************************)
(* Nothing is forgotten.  NoChangeForgotten alone is not inductive: a save *)
(* that is about to rename must hold everything the file has, it must be   *)
(* the only one, and what it lacks must have another way to the disk.      *)
(***************************************************************************)
\* While the agent is up, nothing failed or overlapped and Close was not called.
UpInv ==
  /\ saves["close"].step = "idle"
  /\ \A r, s \in TimerSaves :
       saves[r].step # "idle" /\ saves[s].step # "idle" => r = s
  /\ file \subseteq mem
  /\ \A s \in TimerSaves :
       saves[s].step = "temp" => file \subseteq saves[s].snap /\ saves[s].snap \subseteq mem
  /\ \A c \in (mem \cap marked) \ file : WillBeSaved(c)

\* A process that is down has no saves; what is marked was made.
GrowthInv ==
  /\ saves \in [Savers -> [step : {"idle", "begin", "temp"},
                           snap : SUBSET Changes]]
  /\ failures \in Nat /\ overlap \in BOOLEAN
  /\ count \in Nat /\ marked \subseteq 1..count
  /\ phase = "down" => \A s \in Savers : saves[s].step = "idle"
  /\ failures = 0 /\ ~overlap /\ phase = "up" => UpInv

\* MarkDirty leaves a timer running.
LEMMA TimerRuns == MarkDirty => timer' # NoTimer
BY DEF MarkDirty, NoTimer

\* A step that begins with an agent that is up and leaves it up.
LEMMA UpStep ==
  ASSUME GrowthInv, Next, phase = "up", phase' = "up",
         failures = 0, failures' = 0, ~overlap
  PROVE  (~overlap' => UpInv') /\ file \subseteq file'
<1> USE PersistenceConstants DEF Savers, NotSaving
<1>0. UpInv
  BY DEF GrowthInv
<1>1. CASE ReceiveMessage \/ ReceiveRepeated
  <2>1. /\ reader' /\ mem \subseteq mem' /\ UNCHANGED <<file, saves>>
    BY <1>1 DEF ReceiveMessage, ReceiveRepeated, Change
  <2> QED
    BY <1>0, <2>1 DEF UpInv, WillBeSaved
<1>2. CASE SendMessage
  <2>1. /\ UNCHANGED <<file, saves, timer, reader>> /\ mem \subseteq mem'
        /\ app \subseteq app'
        /\ marked' \ marked \subseteq app'
    BY <1>2 DEF SendMessage, Change
  <2>2. marked \cap mem' \subseteq mem
    BY <1>2 DEF SendMessage, Change, GrowthInv
  <2>3. \A c \in (mem' \cap marked') \ file' : WillBeSaved(c)'
    BY <1>0, <2>1, <2>2 DEF UpInv, WillBeSaved
  <2> QED
    BY <1>0, <2>1, <2>3 DEF UpInv
<1>3. CASE ReaderMarksDirty \/ AppMarksDirty
  <2>1. timer' # NoTimer /\ UNCHANGED <<mem, file, saves, marked>>
    BY <1>3, TimerRuns DEF ReaderMarksDirty, AppMarksDirty
  <2> QED
    BY <1>0, <2>1 DEF UpInv, WillBeSaved
<1>4. ASSUME NEW s \in TimerSaves, TimerFires(s)
      PROVE  (~overlap' => UpInv') /\ file \subseteq file'
  <2>1. saves'[s].step = "begin" /\ \A r \in Savers \ {s} : saves'[r] = saves[r]
    BY <1>4 DEF TimerFires, GrowthInv
  <2>2. UNCHANGED <<mem, file, marked>>
    BY <1>4 DEF TimerFires
  <2>3. ASSUME ~overlap' PROVE \A r \in Savers : saves[r].step = "idle"
    BY <1>4, <2>3 DEF TimerFires
  <2>4. s # "close"
    OBVIOUS
  <2> QED
    BY <1>0, <2>1, <2>2, <2>3, <2>4 DEF UpInv, WillBeSaved
<1>5. ASSUME NEW s \in Savers, TakeSnapshot(s)
      PROVE  (~overlap' => UpInv') /\ file \subseteq file'
  <2>1. s \in TimerSaves /\ saves[s].step = "begin"
    BY <1>0, <1>5 DEF TakeSnapshot, UpInv
  <2>2. /\ saves'[s] = [step |-> "temp", snap |-> mem]
        /\ \A r \in Savers \ {s} : saves'[r] = saves[r]
    BY <1>5 DEF TakeSnapshot, GrowthInv
  <2> QED
    BY <1>0, <1>5, <2>1, <2>2 DEF TakeSnapshot, UpInv, WillBeSaved
<1>6. ASSUME NEW s \in Savers, Rename(s)
      PROVE  (~overlap' => UpInv') /\ file \subseteq file'
  <2>1. s \in TimerSaves /\ saves[s].step = "temp"
    BY <1>0, <1>6 DEF Rename, UpInv
  <2>2. file \subseteq saves[s].snap /\ file' = saves[s].snap
    BY <1>0, <1>6, <2>1 DEF Rename, UpInv
  <2>3. \A r \in Savers \ {s} : saves[r].step = "idle"
    BY <1>0, <2>1 DEF UpInv
  <2>4. \A r \in Savers : saves'[r].step = "idle"
    BY <1>6, <2>3 DEF Rename, SaveEnds, GrowthInv
  <2>5. ASSUME NEW c \in (mem \cap marked) \ saves[s].snap
        PROVE  timer # NoTimer \/ reader \/ c \in app
    BY <1>0, <2>1, <2>2, <2>3 DEF UpInv, WillBeSaved
  <2>6. saves[s].snap \subseteq mem
    BY <1>0, <2>1 DEF UpInv
  <2> QED
    BY <1>6, <2>1, <2>2, <2>4, <2>5, <2>6 DEF Rename, UpInv, WillBeSaved
<1>7. ASSUME NEW s \in Savers, SaveFails(s) PROVE FALSE
  BY <1>7 DEF SaveFails
<1>8. CASE Close \/ Exit \/ Crash \/ Start \/ StartUnreadable
  BY <1>8 DEF Close, Exit, Crash, Ends, Start, StartUnreadable
<1> QED
  BY <1>1, <1>2, <1>3, <1>4, <1>5, <1>6, <1>7, <1>8 DEF Next

\* The state of the saves stays typed, whatever happens.
LEMMA SavesTyped ==
  ASSUME ConsistencyInv, GrowthInv, [Next]_vars
  PROVE  /\ saves' \in [Savers -> [step : {"idle", "begin", "temp"},
                                   snap : SUBSET Changes]]
         /\ failures' \in Nat /\ overlap' \in BOOLEAN
         /\ count' \in Nat /\ marked' \subseteq 1..count'
<1>1. saves' \in [Savers -> [step : {"idle", "begin", "temp"},
                             snap : SUBSET Changes]]
  BY ConsistencyStep DEF ConsistencyInv, Types
<1>2. failures' \in Nat
  <2>1. ASSUME NEW s \in TimerSaves, TimerFires(s) PROVE failures' = failures
    BY ONLY <2>1, Zenon DEF TimerFires
  <2>2. failures' = failures \/ failures' = failures + 1
    BY <2>1 DEF Next, vars, ReceiveMessage, ReceiveRepeated, ReaderMarksDirty,
       SendMessage, AppMarksDirty, TakeSnapshot, Rename, SaveFails, Close, Exit,
       Ends, Crash, Start, StartUnreadable
  <2> QED
    BY <2>2 DEF GrowthInv
<1>3. overlap' = overlap \/ overlap' = FALSE \/ \E s \in TimerSaves : TimerFires(s)
  <2>1. CASE \E s \in Savers : TakeSnapshot(s) \/ Rename(s) \/ SaveFails(s)
    <3>1. PICK s \in Savers : TakeSnapshot(s) \/ Rename(s) \/ SaveFails(s)
      BY ONLY <2>1
    <3> QED
      BY ONLY <3>1, Zenon DEF TakeSnapshot, Rename, SaveFails
  <2>2. CASE \/ Exit \/ Crash
    BY ONLY <2>2, Zenon DEF Exit, Crash, Ends
  <2>3. CASE \/ ReceiveMessage \/ ReceiveRepeated \/ ReaderMarksDirty
             \/ SendMessage \/ AppMarksDirty \/ Close \/ Start
             \/ StartUnreadable \/ UNCHANGED vars
    BY ONLY <2>3, Zenon DEF ReceiveMessage, ReceiveRepeated, ReaderMarksDirty,
       SendMessage, AppMarksDirty, Close, Start, StartUnreadable, vars
  <2> QED
    BY ONLY <2>1, <2>2, <2>3, [Next]_vars, Zenon DEF Next
<1>4. overlap' \in BOOLEAN
  <2>1. ASSUME NEW s \in TimerSaves, TimerFires(s) PROVE overlap' \in BOOLEAN
    BY ONLY <2>1, Zenon DEF TimerFires
  <2> QED
    BY ONLY <1>3, <2>1, GrowthInv, Zenon DEF GrowthInv
<1>5. count' \in Nat /\ marked' \subseteq 1..count'
  <2>1. \/ UNCHANGED <<count, marked>>
        \/ ReceiveMessage \/ SendMessage
    BY DEF Next, vars, ReceiveRepeated, ReaderMarksDirty, AppMarksDirty,
       TimerFires, TakeSnapshot, Rename, SaveFails, Close, Exit, Ends, Crash,
       Start, StartUnreadable
  <2>2. ASSUME NEW marks, Change(marks)
        PROVE  count' = count + 1 /\ marked' \subseteq marked \cup {count + 1}
    BY ONLY <2>2 DEF Change
  <2>3. CASE ReceiveMessage \/ SendMessage
    <3>1. count' = count + 1 /\ marked' \subseteq marked \cup {count + 1}
      BY ONLY <2>2, <2>3 DEF ReceiveMessage, SendMessage
    <3> QED
      BY ONLY <3>1, GrowthInv DEF GrowthInv
  <2> QED
    BY ONLY <2>1, <2>3, GrowthInv DEF GrowthInv
<1> QED
  BY ONLY <1>1, <1>2, <1>4, <1>5

\* Errors are counted and never forgotten, an overlap only with the process, and
\* an agent is up because it was, or because it has just started.
LEMMA HowItCameUp ==
  ASSUME GrowthInv, Next, failures' = 0
  PROVE  /\ failures = 0
         /\ phase' = "up" => (phase = "up" /\ (overlap => overlap')) \/ Start
<1> USE DEF GrowthInv
<1>1. CASE \/ ReceiveMessage \/ ReceiveRepeated \/ SendMessage
           \/ ReaderMarksDirty \/ AppMarksDirty
  BY <1>1 DEF ReceiveMessage, ReceiveRepeated, SendMessage, ReaderMarksDirty,
     AppMarksDirty
<1>2. ASSUME NEW s \in TimerSaves, TimerFires(s)
      PROVE  failures = 0 /\ phase' = phase /\ (overlap => overlap')
  BY <1>2 DEF TimerFires
<1>3. ASSUME NEW s \in Savers, TakeSnapshot(s) \/ Rename(s) \/ SaveFails(s)
      PROVE  /\ failures = 0 /\ phase' \in {phase, "closed"}
             /\ overlap => overlap'
  BY <1>3 DEF TakeSnapshot, Rename, SaveFails, SaveEnds
<1>4. CASE Close \/ Exit \/ Crash \/ Start \/ StartUnreadable
  BY <1>4 DEF Close, Exit, Crash, Ends, Start, StartUnreadable
<1> QED
  BY <1>1, <1>2, <1>3, <1>4 DEF Next

\* Only an agent that ends is down, and it takes its saves along.
LEMMA HowItWentDown ==
  ASSUME Next, phase' = "down"
  PROVE  Ends
<1>1. CASE \/ ReceiveMessage \/ ReceiveRepeated \/ SendMessage
           \/ ReaderMarksDirty \/ AppMarksDirty
  BY <1>1 DEF ReceiveMessage, ReceiveRepeated, SendMessage, ReaderMarksDirty,
     AppMarksDirty, Alive
<1>2. ASSUME NEW s \in TimerSaves, TimerFires(s) PROVE FALSE
  BY <1>2 DEF TimerFires, Alive
<1>3. ASSUME NEW s \in Savers, TakeSnapshot(s) \/ Rename(s) \/ SaveFails(s)
      PROVE  FALSE
  BY <1>3 DEF TakeSnapshot, Rename, SaveFails, SaveEnds, Alive
<1>4. CASE Close \/ Exit \/ Crash \/ Start \/ StartUnreadable
  BY <1>4 DEF Close, Exit, Crash, Start, StartUnreadable
<1> QED
  BY <1>1, <1>2, <1>3, <1>4 DEF Next

LEMMA GrowthStep ==
  ASSUME ConsistencyInv, GrowthInv, [Next]_vars
  PROVE  GrowthInv'
<1>1. CASE UNCHANGED vars
  BY <1>1 DEF GrowthInv, UpInv, WillBeSaved, vars
<1>2. CASE Next
  <2>1. ASSUME phase' = "down" PROVE \A s \in Savers : saves'[s].step = "idle"
    BY <1>2, <2>1, HowItWentDown DEF Ends, NotSaving
  <2>2. ASSUME failures' = 0, ~overlap', phase' = "up"
        PROVE  UpInv'
    <3>1. CASE phase = "up" /\ (overlap => overlap')
      BY <1>2, <2>2, <3>1, HowItCameUp, UpStep DEF GrowthInv
    <3>2. CASE Start
      <4>1. \A s \in Savers : saves[s].step = "idle"
        BY <2>2, <3>2 DEF Start, GrowthInv
      <4> QED
        BY <3>2, <4>1 DEF Start, UpInv, Savers
    <3> QED
      BY <1>2, <2>2, <3>1, <3>2, HowItCameUp
  <2> QED
    BY <2>1, <2>2, SavesTyped DEF GrowthInv
<1> QED
  BY <1>1, <1>2

LEMMA GrowthInit == Init => ConsistencyInv /\ GrowthInv
<1> SUFFICES ASSUME Init PROVE ConsistencyInv /\ GrowthInv
  OBVIOUS
<1>1. ConsistencyInv /\ UpInv
  BY PersistenceConstants DEF Init, ConsistencyInv, Types, Pictures, Made, Closed,
     Changes, NotSaving, UpInv, Savers
<1>2. overlap \in BOOLEAN
  BY Zenon DEF Init
<1>3. /\ failures \in Nat /\ count \in Nat /\ marked \subseteq 1..count
      /\ \A s \in Savers : saves[s].step = "idle"
  BY DEF Init, NotSaving
<1> QED
  BY <1>1, <1>2, <1>3 DEF GrowthInv, ConsistencyInv, Types

\* No marked change of an agent that is up is forgotten, until a save fails or two
\* overlap; which of the messages it sends are marked makes no difference.
THEOREM NothingForgotten == Spec => []NoChangeForgotten
<1>1. ConsistencyInv /\ GrowthInv /\ [Next]_vars => (ConsistencyInv /\ GrowthInv)'
  BY ConsistencyStep, GrowthStep
<1>2. ConsistencyInv /\ GrowthInv => NoChangeForgotten
  BY DEF GrowthInv, UpInv, NoChangeForgotten
<1> QED
  BY GrowthInit, <1>1, <1>2, PTL DEF Spec

\* A change that reached the disk stays there, through crashes and restarts, until
\* Shutdown begins, I/O fails or two saves of a process overlap.
THEOREM DiskGrows == Spec => DiskNeverForgets
<1> DEFINE Grows == failures' = 0 /\ ~overlap /\ phase \in {"up", "down"}
                      => file \subseteq file'
<1>1. ConsistencyInv /\ GrowthInv /\ [Next]_vars => (ConsistencyInv /\ GrowthInv)'
  BY ConsistencyStep, GrowthStep
<1>2. ConsistencyInv /\ GrowthInv /\ [Next]_vars => [Grows]_vars
  <2> SUFFICES ASSUME GrowthInv, Next, failures' = 0, ~overlap,
                      phase \in {"up", "down"}
               PROVE  file \subseteq file'
    OBVIOUS
  <2>1. CASE phase' = "up" /\ phase = "up"
    BY <2>1, UpStep, HowItCameUp
  <2>2. CASE ~(phase' = "up" /\ phase = "up")
    <3>1. CASE \E s \in Savers : Rename(s)
      <4>1. PICK s \in Savers : Rename(s)
        BY <3>1
      <4>2. phase = "up" /\ saves[s].step = "temp" /\ s # "close"
        BY <4>1, HowItCameUp DEF Rename, Alive, GrowthInv, UpInv
      <4> QED
        BY <2>2, <4>1, <4>2 DEF Rename, SaveEnds
    <3>2. CASE ~\E s \in Savers : Rename(s)
      BY <3>2 DEF Next, ReceiveMessage, ReceiveRepeated, ReaderMarksDirty,
         SendMessage, AppMarksDirty, TimerFires, TakeSnapshot, SaveFails, Close,
         Exit, Ends, Crash, Start, StartUnreadable
    <3> QED
      BY <3>1, <3>2
  <2> QED
    BY <2>1, <2>2
<1> QED
  BY GrowthInit, <1>1, <1>2, PTL DEF Spec, DiskNeverForgets
=============================================================================
