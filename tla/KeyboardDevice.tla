--------------------------- MODULE KeyboardDevice ---------------------------
(***************************************************************************)
(* The keyboard (kernel/src/InterruptHandlers.cpp, Keyboard.cpp,           *)
(* KeyboardDevice.cpp).  An interrupt translates the scan code under the   *)
(* two shift keys, hands the character to the terminal and stores the scan *)
(* code in a ring buffer that programs read one code at a time, and may    *)
(* write to themselves.  The indices only grow, the first Read resets      *)
(* them, and nothing stops the writer from overtaking the reader.          *)
(* Left out is the one scan code behind the table of characters, to which  *)
(* sizeof counts the final NUL: it sends a 0, whose echo fails an Assert   *)
(* (String.cpp:151) and stops the kernel.                                  *)
(***************************************************************************)
EXTENDS Naturals, Sequences

CONSTANTS
  ScanCodes,           \* the scan codes of the keys that send a character
  OtherCodes,          \* those that send none: releases, escape, alt...
  Shifts, Releases,    \* those that press and that release a shift key
  SideOf,              \* the shift key that such a code belongs to
  Written,             \* the bytes that programs write to the device
  BUFFER_SIZE,
  MaxKeys, MaxTyped    \* bounds: interrupts, and codes in the buffer since a reset

ASSUME KeyboardAssumption ==
  /\ SideOf \in [Shifts \cup Releases -> {"left", "right"}]
  /\ Shifts \cap Releases = {}
  /\ (ScanCodes \cup OtherCodes) \cap (Shifts \cup Releases) = {}
  /\ Written \subseteq ScanCodes \cup OtherCodes \cup Shifts \cup Releases \cup {0}
  /\ BUFFER_SIZE \in Nat \ {0} /\ MaxKeys \in Nat /\ MaxTyped \in Nat

VARIABLES
  shifting,            \* per shift key: it is held down
  ringBuffer, readIndex, writeIndex, flushed,
  keys,                \* history: the scan codes of the interrupts
  typed,               \* history: the codes stored since the indices were reset
  sent,                \* the character that the last interrupt sent to the terminal
  got                  \* the result of the last Read: <<>> or one scan code

vars == <<shifting, ringBuffer, readIndex, writeIndex, flushed, keys, typed, sent, got>>

Codes == ScanCodes \cup OtherCodes \cup Shifts \cup Releases

Init ==
  /\ shifting = [side \in {"left", "right"} |-> FALSE]
  /\ ringBuffer = [i \in 0..(BUFFER_SIZE - 1) |-> 0]
  /\ readIndex = 0 /\ writeIndex = 0 /\ flushed = FALSE
  /\ keys = <<>> /\ typed = <<>> /\ sent = <<>> /\ got = <<>>

(* leftShifting and rightShifting after the key.                           *)
ShiftingAfter(code) ==
  IF code \in Shifts \cup Releases
  THEN [shifting EXCEPT ![SideOf[code]] = code \in Shifts] ELSE shifting

ShiftedByLeftOnly(held) ==    \* mutant: the right shift key is forgotten
  held["left"]

Shifted(held) == held["left"] \/ held["right"]

SlotWithoutModulo(index) ==    \* mutant: the index sticks at the last slot
  IF index < BUFFER_SIZE THEN index ELSE BUFFER_SIZE - 1

Slot(index) == index % BUFFER_SIZE

PushToBuffer(code) ==
  /\ Len(typed) < MaxTyped
  /\ ringBuffer' = [ringBuffer EXCEPT ![Slot(writeIndex)] = code]
  /\ writeIndex' = writeIndex + 1
  /\ typed' = Append(typed, code)

(* SendKeyToTerminal, then KeyboardDevice::Write.                          *)
KeyboardInterruptHandler(code) ==
  /\ Len(keys) < MaxKeys
  /\ shifting' = ShiftingAfter(code)
  /\ sent' = IF code \in ScanCodes THEN <<code, Shifted(shifting')>> ELSE <<>>
  /\ PushToBuffer(code)
  /\ keys' = Append(keys, code)
  /\ UNCHANGED <<readIndex, flushed, got>>

(* A program writes to the device: the terminal hears nothing of it.       *)
Write(code) ==
  /\ PushToBuffer(code)
  /\ UNCHANGED <<shifting, readIndex, flushed, keys, sent, got>>

FlushReadIndexOnly ==    \* mutant: the first Read resets one index only
  [read |-> IF flushed THEN readIndex ELSE 0, write |-> writeIndex]

(* The indices after the flush of the first Read.                          *)
Flush ==
  [read |-> IF flushed THEN readIndex ELSE 0, write |-> IF flushed THEN writeIndex ELSE 0]

(* A stored 0 is taken from the buffer, and looks as if there were none.   *)
Result(code) == IF code = 0 THEN <<>> ELSE <<code>>

Read ==
  /\ IF Flush.read >= Flush.write
     THEN readIndex' = Flush.read /\ got' = <<>>
     ELSE readIndex' = Flush.read + 1 /\ got' = Result(ringBuffer[Slot(Flush.read)])
  /\ writeIndex' = Flush.write
  /\ flushed' = TRUE
  /\ typed' = IF flushed THEN typed ELSE <<>>
  /\ UNCHANGED <<shifting, ringBuffer, keys, sent>>

Next ==
  \/ \E code \in Codes : KeyboardInterruptHandler(code)
  \/ \E code \in Written : Write(code)
  \/ Read

Spec == Init /\ [][Next]_vars

-----------------------------------------------------------------------------
(* Properties                                                              *)

(* readIndex never passes writeIndex, which GetFromBuffer asserts.         *)
TypeOK ==
  /\ shifting \in [{"left", "right"} -> BOOLEAN]
  /\ ringBuffer \in [0..(BUFFER_SIZE - 1) -> Codes \cup {0}]
  /\ readIndex \in 0..writeIndex /\ writeIndex = Len(typed)
  /\ flushed \in BOOLEAN
  /\ got \in {<<>>} \cup {<<code>> : code \in Codes}

(* Read returns the unread codes in the order of the interrupts and of the *)
(* writes, nothing for a 0 that a program wrote.  A program that falls     *)
(* more than BUFFER_SIZE codes behind reads, in place of an overwritten    *)
(* code, the newest one in the same slot, which it will read again in its  *)
(* turn; it never reads one from before the flush.                         *)
ReadsInOrder ==
  [][readIndex' = readIndex + 1 =>
       LET rounds == (writeIndex - readIndex - 1) \div BUFFER_SIZE
       IN got' = Result(typed[readIndex + 1 + rounds * BUFFER_SIZE])]_vars

(* A shift key is held in the history of interrupts: it was pressed and    *)
(* not released since.                                                     *)
Held(side) ==
  \E i \in DOMAIN keys :
    /\ keys[i] \in Shifts /\ SideOf[keys[i]] = side
    /\ \A j \in DOMAIN keys : j > i /\ keys[j] \in Releases => SideOf[keys[j]] # side

(* The terminal gets the shifted character exactly while some shift key is *)
(* down, whatever the order in which the two are pressed and released and  *)
(* whatever programs read from the device or write to it meanwhile.        *)
ShiftIsTracked ==
  [][sent' # <<>> => sent'[2] = \E side \in {"left", "right"} : Held(side)]_vars
=============================================================================
