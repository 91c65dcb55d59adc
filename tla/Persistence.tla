----------------------------- MODULE Persistence -----------------------------
(***************************************************************************)
(* StatePersistence (internal/agent/persistence.go) and its callers in     *)
(* agent.go: the StateStore is changed by the IRC reader, which marks it   *)
(* dirty afterwards, and by goroutines in SendProtocolMessage, which mark  *)
(* it after four of the twelve kinds; a debounce timer starts a Save in a  *)
(* goroutine of its own, Shutdown calls Close, and the process may die at  *)
(* any point and load the file when it starts again.                       *)
(*                                                                         *)
(* The state is the set of the changes it contains, each one message.      *)
(* Save is three steps, with no lock across them: Snapshot (under the      *)
(* store's lock), the temporary file, the rename.  MarkDirty stops the     *)
(* timer and starts another: two names are enough to tell a timer from the *)
(* one it replaces.                                                        *)
(***************************************************************************)
EXTENDS Naturals, FiniteSets

CONSTANTS TimerSaves,  \* the timer's saves that can be under way together
          MaxChanges,  \* the most changes of the state
          MaxCrashes,  \* the most times the process dies unexpectedly
          MaxFailures  \* the most I/O errors

ASSUME PersistenceConstants ==
  /\ MaxChanges \in Nat /\ MaxCrashes \in Nat /\ MaxFailures \in Nat
  /\ "close" \notin TimerSaves

\* The own messages that SendProtocolMessage marks dirty after sending, and all
\* those that change the store.
MarkedWhenSent == {"STARTED", "COMPLETED", "BLOCKED", "ACKNOWLEDGED"}

OwnKinds == MarkedWhenSent \cup
  {"OFFER", "CLAIM", "ASSIGN", "ACCEPT", "DECLINE", "YIELD", "CHECKPOINT", "HANDOFF"}

Changes == 1..MaxChanges

VARIABLES mem,      \* the changes in the StateStore
          file,     \* the changes in the state file, {} when there is none
          timer,    \* the debounce timer that is running, or NoTimer
          saves,    \* the calls of Save under way, and what they will write
          reader,   \* the reader has changed the store and not yet marked it
          app,      \* the changes by SendProtocolMessage it is going to mark
          phase,    \* of the process
          atClose,  \* history: mem when Close was called
          base,     \* history: the changes each change was made on top of
          marked,   \* history: the changes that MarkDirty follows
          overlap,  \* history: two of this process's saves overlapped
          count, crashes, failures

vars == <<mem, file, timer, saves, reader, app, phase, atClose, base, marked,
          overlap, count, crashes, failures>>

Savers == TimerSaves \cup {"close"}

Timers == {"one", "other"}

NoTimer == "none"

NotSaving == [step |-> "idle", snap |-> {}]

TypeOK ==
  /\ mem \subseteq Changes /\ file \subseteq Changes
  /\ atClose \subseteq Changes
  /\ timer \in Timers \cup {NoTimer}
  /\ reader \in BOOLEAN /\ overlap \in BOOLEAN
  /\ app \subseteq Changes /\ marked \subseteq Changes
  /\ saves \in [Savers -> [step : {"idle", "begin", "temp"},
                           snap : SUBSET Changes]]
  /\ phase \in {"up", "closing", "closed", "down"}
  /\ phase = "closing" <=> saves["close"].step # "idle"
  /\ base \in [Changes -> SUBSET Changes]
  /\ count \in 0..MaxChanges /\ crashes \in 0..MaxCrashes
  /\ failures \in 0..MaxFailures

Init ==
  /\ mem = {} /\ file = {} /\ atClose = {}
  /\ timer = NoTimer /\ reader = FALSE /\ app = {}
  /\ marked = {} /\ overlap = FALSE
  /\ saves = [s \in Savers |-> NotSaving]
  /\ phase = "up"
  /\ base = [c \in Changes |-> {}]
  /\ count = 0 /\ crashes = 0 /\ failures = 0

Alive == phase # "down"

\* One more message changes the store; `marks': MarkDirty is to follow.
Change(marks) ==
  /\ count < MaxChanges
  /\ count' = count + 1
  /\ mem' = mem \cup {count + 1}
  /\ base' = [base EXCEPT ![count + 1] = mem]
  /\ marked' = IF marks THEN marked \cup {count + 1} ELSE marked

-----------------------------------------------------------------------------
\* handleMessage: UpdateTask, one of the twelve state-changing actions.
ReceiveMessage ==
  /\ Alive /\ ~reader
  /\ Change(TRUE)
  /\ reader' = TRUE
  /\ UNCHANGED <<file, timer, saves, app, phase, atClose, overlap, crashes,
                 failures>>

\* A message that says again what the store has is marked as well.
ReceiveRepeated ==
  /\ Alive /\ ~reader
  /\ reader' = TRUE
  /\ UNCHANGED <<mem, file, timer, saves, app, phase, atClose, base, marked,
                 overlap, count, crashes, failures>>

\* MarkDirty replaces a running timer by a new one.
MarkDirty == timer' = IF timer = "one" THEN "other" ELSE "one"

\* The protocol handler that initProtocol registered runs after the update.
ReaderMarksDirty ==
  /\ Alive /\ reader
  /\ MarkDirty
  /\ reader' = FALSE
  /\ UNCHANGED <<mem, file, saves, app, phase, atClose, base, marked, overlap,
                 count, crashes, failures>>

\* Mutant of SendMessage: the store is marked before it is changed.
SendMarksFirst ==
  /\ Alive
  /\ \/ timer = NoTimer /\ MarkDirty /\ UNCHANGED <<mem, base, marked, count>>
     \/ Change(TRUE) /\ UNCHANGED timer
  /\ UNCHANGED <<file, saves, reader, app, phase, atClose, overlap, crashes,
                 failures>>

\* SendProtocolMessage, in any goroutine: updateLocalState, and whether
\* MarkDirty is to follow.
SendMessage ==
  /\ Alive
  /\ \E k \in OwnKinds :
       /\ Change(k \in MarkedWhenSent)
       /\ app' = IF k \in MarkedWhenSent THEN app \cup {count + 1} ELSE app
  /\ UNCHANGED <<file, timer, saves, reader, phase, atClose, overlap, crashes,
                 failures>>

AppMarksDirty ==
  /\ Alive
  /\ \E c \in app : app' = app \ {c}
  /\ MarkDirty
  /\ UNCHANGED <<mem, file, saves, reader, phase, atClose, base, marked,
                 overlap, count, crashes, failures>>

-----------------------------------------------------------------------------
\* The timer fires and its callback calls Save, whatever saves are under way.
TimerFires(s) ==
  /\ Alive /\ timer # NoTimer /\ saves[s].step = "idle"
  /\ timer' = NoTimer
  /\ saves' = [saves EXCEPT ![s].step = "begin"]
  /\ overlap' = (overlap \/ \E r \in Savers : saves[r].step # "idle")
  /\ UNCHANGED <<mem, file, reader, app, phase, atClose, base, marked, count,
                 crashes, failures>>

\* Mutant of TakeSnapshot: the maps are copied without the store's lock, so a
\* later change may be in the copy and an earlier one not.
TakeUnlocked(s) ==
  /\ Alive /\ saves[s].step = "begin"
  /\ \E part \in SUBSET mem :
       saves' = [saves EXCEPT ![s] = [step |-> "temp", snap |-> part]]
  /\ UNCHANGED <<mem, file, timer, reader, app, phase, atClose, base, marked,
                 overlap, count, crashes, failures>>

\* Save: Snapshot.
TakeSnapshot(s) ==
  /\ Alive /\ saves[s].step = "begin"
  /\ saves' = [saves EXCEPT ![s] = [step |-> "temp", snap |-> mem]]
  /\ UNCHANGED <<mem, file, timer, reader, app, phase, atClose, base, marked,
                 overlap, count, crashes, failures>>

\* The save of s is over; Close returns when its own is.
SaveEnds(s) ==
  /\ saves' = [saves EXCEPT ![s] = NotSaving]
  /\ phase' = IF s = "close" THEN "closed" ELSE phase

\* Mutant of Rename: what was saved is written and the timer is cleared, as if
\* nothing could have been marked since the snapshot.
RenameClearsTimer(s) ==
  /\ Alive /\ saves[s].step = "temp"
  /\ file' = saves[s].snap
  /\ timer' = NoTimer
  /\ SaveEnds(s)
  /\ UNCHANGED <<mem, reader, app, atClose, base, marked, overlap, count,
                 crashes, failures>>

\* Save: the temporary file is complete and takes the place of the state file.
Rename(s) ==
  /\ Alive /\ saves[s].step = "temp"
  /\ file' = saves[s].snap
  /\ SaveEnds(s)
  /\ UNCHANGED <<mem, timer, reader, app, atClose, base, marked, overlap,
                 count, crashes, failures>>

\* Creating, writing, closing or renaming the temporary file fails: it is
\* removed, the error is logged, and nobody tries again.
SaveFails(s) ==
  /\ Alive /\ saves[s].step = "temp"
  /\ failures < MaxFailures
  /\ failures' = failures + 1
  /\ SaveEnds(s)
  /\ UNCHANGED <<mem, file, timer, reader, app, atClose, base, marked, overlap,
                 count, crashes>>

-----------------------------------------------------------------------------
\* Shutdown: Close stops the timer and saves, in the calling goroutine.  The
\* client is still connected; the reader goes on.
Close ==
  /\ phase = "up"
  /\ phase' = "closing"
  /\ timer' = NoTimer
  /\ saves' = [saves EXCEPT !["close"].step = "begin"]
  /\ atClose' = mem
  /\ UNCHANGED <<mem, file, reader, app, base, marked, overlap, count, crashes,
                 failures>>

\* The process ends: whatever is in memory, timers and goroutines are gone.
Ends ==
  /\ phase' = "down"
  /\ mem' = {} /\ atClose' = {}
  /\ timer' = NoTimer /\ reader' = FALSE /\ app' = {} /\ overlap' = FALSE
  /\ saves' = [s \in Savers |-> NotSaving]
  /\ UNCHANGED <<file, base, marked, count, failures>>

\* After Close the rest of Shutdown disconnects and main returns.
Exit == phase = "closed" /\ Ends /\ UNCHANGED crashes

Crash ==
  /\ Alive /\ crashes < MaxCrashes
  /\ crashes' = crashes + 1
  /\ Ends

\* Mutant of Start: the state file is not loaded.
StartEmpty ==
  /\ phase = "down"
  /\ phase' = "up"
  /\ UNCHANGED <<mem, file, timer, saves, reader, app, atClose, base, marked,
                 overlap, count, crashes, failures>>

\* initProtocol: Load restores the file into the store, before anything else.
Start ==
  /\ phase = "down"
  /\ phase' = "up"
  /\ mem' = file
  /\ UNCHANGED <<file, timer, saves, reader, app, atClose, base, marked,
                 overlap, count, crashes, failures>>

\* Load fails: the error is logged and the agent starts with an empty store.
StartUnreadable ==
  /\ phase = "down"
  /\ failures < MaxFailures
  /\ failures' = failures + 1
  /\ phase' = "up"
  /\ UNCHANGED <<mem, file, timer, saves, reader, app, atClose, base, marked,
                 overlap, count, crashes>>

SaveStep(s) == TakeSnapshot(s) \/ Rename(s) \/ SaveFails(s)

Next ==
  \/ ReceiveMessage
  \/ ReceiveRepeated
  \/ ReaderMarksDirty
  \/ SendMessage
  \/ AppMarksDirty
  \/ \E s \in TimerSaves : TimerFires(s)
  \/ \E s \in Savers : \/ TakeSnapshot(s)
                       \/ Rename(s)
                       \/ SaveFails(s)
  \/ Close
  \/ Exit
  \/ Crash
  \/ Start
  \/ StartUnreadable

\* Goroutines run, and a timer that nobody replaces fires; nothing makes one fire
\* that is replaced again and again.
Fairness ==
  /\ WF_vars(ReaderMarksDirty) /\ WF_vars(AppMarksDirty)
  /\ \A i \in Timers : WF_vars(timer = i /\ \E s \in TimerSaves : TimerFires(s))
  /\ \A s \in Savers : WF_vars(SaveStep(s))

Spec == Init /\ [][Next]_vars /\ Fairness

-----------------------------------------------------------------------------
\* Some save still to come, or under way, will write change c.
WillBeSaved(c) ==
  \/ timer # NoTimer \/ reader \/ c \in app
  \/ \E s \in Savers : \/ saves[s].step = "begin"
                       \/ saves[s].step = "temp" /\ c \in saves[s].snap

\* No change that is marked is forgotten: while the agent is up, what is in the
\* store and not in the file has a timer, a save or its MarkDirty ahead of it,
\* whenever the timer fires between an update and its MarkDirty, or MarkDirty
\* comes between a snapshot and its rename.  (agent.go: "Mark state dirty on
\* state-changing protocol messages."; of the messages an agent sends itself
\* eight kinds are not marked.)  It ends with a failed write, and with a save
\* that takes longer than the debounce time: nothing keeps the next one from
\* overlapping it, and the older snapshot may be renamed last.
NoChangeForgotten ==
  phase = "up" /\ failures = 0 /\ ~overlap =>
    \A c \in (mem \cap marked) \ file : WillBeSaved(c)

\* A restart never finds less than the file has had: a change that reached the
\* disk, marked or not, stays there through crashes, restarts and later saves, as
\* long as no I/O failed (a save after an unreadable file replaces it), no two
\* saves overlapped and Shutdown has not begun (its Save may overlap as well).
DiskNeverForgets ==
  [][failures' = 0 /\ ~overlap /\ phase \in {"up", "down"}
       => file \subseteq file']_vars

\* The file is a state the store really was in, whatever fails, overlaps or
\* crashes: it never has a change without the changes it was made on top of.
FileIsConsistent == \A c \in file : base[c] \subseteq file

\* A running timer is stopped by the next MarkDirty.
TimerReplaced == timer \in Timers /\ timer' \in Timers \ {timer}

\* A change that is marked reaches the disk, unless the process ends before, a
\* save fails or overlaps another, or the traffic never pauses for the debounce
\* time: every message received restarts the timer, and there is no longest
\* delay.
ChangesReachDisk ==
  \/ []<><<TimerReplaced>>_vars
  \/ \A c \in Changes :
       (c \in mem \cap marked /\ phase = "up")
         ~> (c \in file \/ phase # "up" \/ failures > 0 \/ overlap)

-----------------------------------------------------------------------------
\* persistence.go: "Close flushes any pending save and stops the timer."  When
\* Close has returned, the file has what the store had when Close was called.
CloseFlushes == phase = "closed" /\ failures = 0 => atClose \subseteq file
=============================================================================
