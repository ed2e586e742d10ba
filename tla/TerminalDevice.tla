--------------------------- MODULE TerminalDevice ---------------------------
(***************************************************************************)
(* The terminal's input side (kernel/src/TerminalDevice.cpp).  Keyboard    *)
(* interrupts append to rawBuffer or, in canonical mode, to the last of    *)
(* lines; programs take characters from the front, and block in            *)
(* unblockQueue when there are fewer than they asked for.  A woken program *)
(* consumes what it finds only when the scheduler runs it again, and other *)
(* programs, keys and mode changes may come first.  System calls and       *)
(* interrupt handlers run with interrupts off: on one core, each is one    *)
(* step up to the point where it suspends.  Echoing is left out.           *)
(***************************************************************************)
EXTENDS Naturals, Sequences, FiniteSets

CONSTANTS
  Readers,           \* the tasks that read from the terminal
  Keys,              \* the characters the keyboard sends
  NewLine, Backspace,
  Counts,            \* the sizes programs pass to Read
  Modes,             \* the modes that programs select
  MaxInput           \* bound: characters waiting in the terminal

ASSUME TerminalAssumption ==
  /\ NewLine \in Keys /\ Backspace \in Keys /\ NewLine # Backspace
  /\ Counts \subseteq Nat
  /\ Modes \subseteq BOOLEAN
  /\ MaxInput \in Nat

VARIABLES
  lines, rawBuffer,  \* typed characters
  unblockQueue,      \* of ReadRequests [pid, requestedCount]
  canonical,
  reader,            \* per task: "user", "blocked" or "woken" and its count
  out,               \* what the last completed Read returned
  panic

vars == <<lines, rawBuffer, unblockQueue, canonical, reader, out, panic>>

User == [state |-> "user", count |-> 0]

(* The constructor, then the mode that the first program selects.          *)
Init ==
  /\ lines = << <<>> >>
  /\ rawBuffer = <<>>
  /\ unblockQueue = <<>>
  /\ canonical \in Modes
  /\ reader = [t \in Readers |-> User]
  /\ out = <<>>
  /\ panic = FALSE

-----------------------------------------------------------------------------
(* Read                                                                    *)

(* lines.Get(0) asserts that there is a line.                              *)
NoLine == canonical /\ lines = <<>>

SourceLatestLine ==    \* mutant: GetLast() instead of Get(0)
  IF canonical THEN lines[Len(lines)] ELSE rawBuffer

Source == IF canonical THEN lines[1] ELSE rawBuffer

ReadPanics(t) ==
  /\ reader[t].state # "blocked" /\ ~panic
  /\ NoLine
  /\ panic' = TRUE
  /\ UNCHANGED <<lines, rawBuffer, unblockQueue, canonical, reader, out>>

RestReversed(source, n) ==    \* mutant: the pops leave the characters in front
  SubSeq(source, 1, Len(source) - n)

(* What stays when n characters have been popped from the front.           *)
Rest(source, n) == SubSeq(source, n + 1, Len(source))

(* Take what there is, up to count; an emptied line is dropped.            *)
Consume(t, count) ==
  /\ ~NoLine /\ ~panic
  /\ LET n == IF count <= Len(Source) THEN count ELSE Len(Source)
         rest == Rest(Source, n)
     IN /\ out' = SubSeq(Source, 1, n)
        /\ IF canonical
           THEN /\ lines' = IF rest = <<>> THEN Tail(lines) ELSE [lines EXCEPT ![1] = rest]
                /\ UNCHANGED rawBuffer
           ELSE rawBuffer' = rest /\ UNCHANGED lines
  /\ reader' = [reader EXCEPT ![t] = User]
  /\ UNCHANGED <<unblockQueue, canonical, panic>>

ReadNow(t, count) ==
  /\ reader[t].state = "user"
  /\ ~NoLine /\ count <= Len(Source)
  /\ Consume(t, count)

ReadBlocks(t, count) ==
  /\ reader[t].state = "user"
  /\ ~NoLine /\ ~panic
  /\ count > Len(Source)
  /\ unblockQueue' = Append(unblockQueue, [pid |-> t, requestedCount |-> count])
  /\ reader' = [reader EXCEPT ![t] = [state |-> "blocked", count |-> count]]
  /\ UNCHANGED <<lines, rawBuffer, canonical, out, panic>>

(* The woken reader runs again, behind SuspendSystemCall.                  *)
ReadResumes(t) ==
  /\ reader[t].state = "woken"
  /\ Consume(t, reader[t].count)

-----------------------------------------------------------------------------
(* KeyboardInput                                                           *)

(* A backspace finds a character of the unfinished line.                   *)
CanErase == lines # <<>> /\ lines[Len(lines)] # <<>>

EraseLast ==
  /\ canonical /\ ~panic
  /\ lines' = IF CanErase THEN [lines EXCEPT ![Len(lines)] = SubSeq(@, 1, Len(@) - 1)] ELSE lines
  /\ UNCHANGED <<rawBuffer, unblockQueue, canonical, reader, out, panic>>

WakesByCountOnly(c, length) ==    \* mutant: a newline is a key like the others
  unblockQueue # <<>> /\ unblockQueue[1].requestedCount <= length

WakesOnNewLineOnly(c, length) ==    \* mutant: the requested count is not looked at
  unblockQueue # <<>> /\ c = NewLine

(* The key that was just stored wakes the first reader.                    *)
Wakes(c, length) ==
  /\ unblockQueue # <<>>
  /\ c = NewLine \/ unblockQueue[1].requestedCount <= length

UnblockQueueKept ==    \* mutant: Get(0) instead of Pop(0)
  unblockQueue

UnblockQueueAfterWake == Tail(unblockQueue)

(* Unsuspend the first reader of the queue, if there is a reason to.       *)
Wake(wakes) ==
  IF wakes
  THEN /\ reader' = [reader EXCEPT ![unblockQueue[1].pid].state = "woken"]
       /\ unblockQueue' = UnblockQueueAfterWake
  ELSE UNCHANGED <<reader, unblockQueue>>

(* The characters of rawBuffer and, by line and place, those of lines.     *)
Waiting ==
  Len(rawBuffer)
    + Cardinality({p \in (DOMAIN lines) \X (1..MaxInput) : p[2] <= Len(lines[p[1]])})

TypeCanonical(c) ==
  /\ canonical /\ ~panic /\ Waiting < MaxInput
  /\ LET open == IF lines = <<>> THEN << <<>> >> ELSE lines
         typed == [open EXCEPT ![Len(open)] = Append(@, c)]
     IN /\ lines' = IF c = NewLine THEN Append(typed, <<>>) ELSE typed
        /\ Wake(c # NewLine /\ Wakes(c, Len(typed[Len(typed)])))
  /\ UNCHANGED <<rawBuffer, canonical, out, panic>>

TypeRaw(c) ==
  /\ ~canonical /\ Waiting < MaxInput
  /\ rawBuffer' = Append(rawBuffer, c)
  /\ Wake(Wakes(c, Len(rawBuffer')))
  /\ UNCHANGED <<lines, canonical, out, panic>>

KeyboardInput(c) ==
  \/ c = Backspace /\ EraseLast
  \/ c # Backspace /\ TypeCanonical(c)
  \/ TypeRaw(c)

(* SetTerminalSettings, by any program.                                    *)
SetTerminalSettings(mode) ==
  /\ ~panic
  /\ canonical' = mode
  /\ UNCHANGED <<lines, rawBuffer, unblockQueue, reader, out, panic>>

-----------------------------------------------------------------------------

Next ==
  \/ \E t \in Readers :
       \/ ReadPanics(t) \/ ReadResumes(t)
       \/ \E count \in Counts : ReadNow(t, count) \/ ReadBlocks(t, count)
  \/ \E c \in Keys : KeyboardInput(c)
  \/ \E mode \in Modes : SetTerminalSettings(mode)

(* The scheduler runs a task that was woken (SchedulerProperties).         *)
Fairness == \A t \in Readers : WF_vars(ReadResumes(t))

Spec == Init /\ [][Next]_vars /\ Fairness

-----------------------------------------------------------------------------
(* Properties                                                              *)

(* Every line but the last ends with the only newline it has, and the last *)
(* has none; so an unfinished line is never taken for a finished one.      *)
TypeOK ==
  /\ \A k \in DOMAIN lines :
       LET line == lines[k] IN
         /\ line \in Seq(Keys \ {Backspace})
         /\ \A i \in DOMAIN line : line[i] = NewLine <=> k < Len(lines) /\ i = Len(line)
         /\ k < Len(lines) => line # <<>>
  /\ rawBuffer \in Seq(Keys)
  /\ unblockQueue \in Seq([pid : Readers, requestedCount : Counts])
  /\ canonical \in BOOLEAN
  /\ reader \in [Readers -> [state : {"user", "blocked", "woken"}, count : Counts \cup {0}]]

(* KeyboardInput and Read keep unblockQueue equal to the blocked readers,  *)
(* each once and with its count: Unsuspend never wakes a task that is not  *)
(* blocked in Read, and no blocked task is forgotten.                      *)
QueueIsBlockedReaders ==
  /\ \A i, j \in DOMAIN unblockQueue : i # j => unblockQueue[i].pid # unblockQueue[j].pid
  /\ {<<unblockQueue[k].pid, unblockQueue[k].requestedCount>> : k \in DOMAIN unblockQueue}
       = {<<t, reader[t].count>> : t \in {u \in Readers : reader[u].state = "blocked"}}

(* No lost wake-up while the terminal stays in raw mode: when no woken     *)
(* reader is on its way, KeyboardInput has left the first blocked reader   *)
(* waiting only because it asked for more than there is.                   *)
RawInputWakes ==
  []~canonical =>
    []((\A t \in Readers : reader[t].state # "woken") /\ unblockQueue # <<>>
         => unblockQueue[1].requestedCount > Len(rawBuffer))

(* While the terminal stays in raw mode, every blocked Read ends if the    *)
(* user keeps pressing Enter: a newline wakes the first reader whatever it *)
(* asked for, so others that take the characters away cannot starve it.    *)
NewLinesEndRead ==
  []~canonical /\ []<><<KeyboardInput(NewLine)>>_vars =>
    \A t \in Readers : reader[t].state = "blocked" ~> reader[t].state = "user"
=============================================================================
