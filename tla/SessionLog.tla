----------------------------- MODULE SessionLog -----------------------------
(***************************************************************************)
(* The session log: a line per verdict, appended to the file of the day,   *)
(* which is rotated through numbered generations when it is full.  One     *)
(* mutex is held throughout; but the process may end between two renames,  *)
(* and every error of a rotation is ignored.  Old days are deleted by a    *)
(* goroutine that does not take the mutex.                                 *)
(*                                                                         *)
(* Lines are numbered; a file is the sequence of its lines.                *)
(***************************************************************************)
EXTENDS Integers, Sequences, FiniteSets, SequencesExt

CONSTANTS
  MaxLines,     \* bound on the lines
  MaxSize,      \* lines of a file before it is rotated (100 MB)
  Generations,  \* sessionLogMaxGens (5)
  MaxCrashes    \* bound on the restarts

ASSUME SessionBounds ==
  /\ MaxLines \in Nat /\ MaxCrashes \in Nat
  /\ MaxSize \in Nat \ {0} /\ Generations \in Nat \ {0}

VARIABLES
  written, \* lines so far
  files,   \* generation |-> lines, 0 being the active file; <<>> is no file
  open,    \* the process holds the active file open
  size,    \* bytesWritten: lines it counts in it
  step,    \* 0, or the generation a rotation shifts next, plus one
  crashes  \* so far

sessionVars == <<written, files, open, size, step, crashes>>

SessionInit ==
  /\ written = 0 /\ files = [g \in 0..Generations |-> <<>>]
  /\ open = FALSE /\ size = 0 /\ step = 0 /\ crashes = 0

-----------------------------------------------------------------------------
\* writeSessionLog on a full file: close it, and begin with the oldest generation.
BeginRotation ==
  /\ step = 0 /\ open /\ size >= MaxSize /\ written < MaxLines
  /\ open' = FALSE
  /\ step' = Generations + 1
  /\ UNCHANGED <<written, files, size, crashes>>

\* rename: what had the name before is gone; with no such file it fails.
Renamed(from, to) ==
  IF files[from] = <<>> THEN files ELSE [files EXCEPT ![from] = <<>>, ![to] = files[from]]

\* Faulty variant: from the newest generation up.
ShiftUp ==
  /\ step > 0
  /\ files' = Renamed(Generations + 1 - step, IF step = 1 THEN Generations ELSE Generations + 2 - step)
  /\ step' = step - 1
  /\ size' = IF step = 1 THEN 0 ELSE size
  /\ UNCHANGED <<written, open, crashes>>

\* rotateCurrent: the last generation is removed, then each moved up by one; the active
\* file comes last, and the line is written to a new one.
Shift ==
  /\ step > 0
  /\ LET g == step - 1 IN
       files' = IF g = Generations THEN [files EXCEPT ![g] = <<>>] ELSE Renamed(g, g + 1)
  /\ step' = step - 1
  /\ size' = IF step = 1 THEN 0 ELSE size
  /\ UNCHANGED <<written, open, crashes>>

\* A rename or the removal fails, and is forgotten.
ShiftFails ==
  /\ step > 0
  /\ step' = step - 1
  /\ size' = IF step = 1 THEN 0 ELSE size
  /\ UNCHANGED <<written, files, open, crashes>>

\* The write, after the file was opened if need be, with its size taken from the disk.
WriteLine ==
  /\ step = 0 /\ written < MaxLines
  /\ open => size < MaxSize
  /\ written' = written + 1
  /\ files' = [files EXCEPT ![0] = Append(@, written + 1)]
  /\ size' = IF open THEN size + 1 ELSE Len(files[0]) + 1
  /\ open' = TRUE
  /\ UNCHANGED <<step, crashes>>

\* The file cannot be opened or written: the line is lost.
WriteLineFails ==
  /\ step = 0 /\ written < MaxLines
  /\ open => size < MaxSize
  /\ written' = written + 1
  /\ \/ ~open /\ UNCHANGED <<open, size>>
     \/ open' = TRUE /\ size' = IF open THEN size ELSE Len(files[0])
  /\ UNCHANGED <<files, step, crashes>>

\* verdict-api ends at any point.
CrashLog ==
  /\ crashes < MaxCrashes
  /\ open' = FALSE /\ size' = 0 /\ step' = 0
  /\ crashes' = crashes + 1
  /\ UNCHANGED <<written, files>>

\* A new day: other names, an empty file.  The generations are those of the day.
NewDay ==
  /\ step = 0 /\ files # [g \in 0..Generations |-> <<>>]
  /\ files' = [g \in 0..Generations |-> <<>>]
  /\ open' = FALSE /\ size' = 0
  /\ UNCHANGED <<written, step, crashes>>

SessionNext ==
  \/ BeginRotation \/ Shift \/ WriteLine \/ WriteLineFails \/ CrashLog \/ NewDay
SessionSpec == SessionInit /\ [][SessionNext]_sessionVars
\* The same where renames may fail.
FlakySpec == SessionInit /\ [][SessionNext \/ ShiftFails]_sessionVars

-----------------------------------------------------------------------------
\* The lines that are kept, in whichever file.
Kept == UNION {ToSet(files[g]) : g \in 0..Generations}

SessionTypeOK ==
  /\ written \in 0..MaxLines /\ open \in BOOLEAN /\ size \in Nat
  /\ open => size = Len(files[0])
  /\ step \in 0..(Generations + 1) /\ crashes \in 0..MaxCrashes
  /\ \A g \in 0..Generations : \A n \in DOMAIN files[g] : files[g][n] \in 1..written

\* A line is never dropped while an older one is kept.
OldestGoesFirst ==
  [][\A l \in Kept \ Kept', k \in Kept \cap Kept' : l < k]_sessionVars

\* The cap holds but for one line with each restart, whose first line is written before
\* the size is looked at; a rotation cut off leaves no file to grow without bound.
FilesAreCapped == \A g \in 0..Generations : Len(files[g]) <= MaxSize + crashes

\* Wherever the process ends during a rotation, files keep to their size and lines are
\* lost in the order they were written.
LogHolds == [](SessionTypeOK /\ FilesAreCapped) /\ OldestGoesFirst

\* sessionlog.go:17-18: nothing is dropped before more generations exist than are kept.
DroppedWhenFull ==
  [][Kept \ Kept' # {} =>
       NewDay \/ \A g \in 1..Generations : files[g] # <<>>]_sessionVars
=============================================================================
