--------------------------- MODULE LineDiscipline ---------------------------
(***************************************************************************)
(* What a terminal promises to the programs that read from it.  Typed      *)
(* characters wait in one of two queues: cooked input, which the user may  *)
(* still edit up to the last newline, and raw input.  A read takes         *)
(* characters from the front of one queue, and in cooked mode never more   *)
(* than one line.                                                          *)
(***************************************************************************)
EXTENDS Naturals, Sequences

CONSTANTS NewLine, Backspace, Keys

VARIABLES
  cooked, raw,   \* the characters that no program has read yet
  out            \* what the last read returned

Init == cooked = <<>> /\ raw = <<>> /\ out = <<>>

TypeCooked(c) ==
  /\ c # Backspace
  /\ cooked' = Append(cooked, c)
  /\ UNCHANGED <<raw, out>>

(* A backspace erases the last character, but not of a finished line.      *)
Erase ==
  /\ cooked # <<>>
  /\ cooked[Len(cooked)] # NewLine
  /\ cooked' = SubSeq(cooked, 1, Len(cooked) - 1)
  /\ UNCHANGED <<raw, out>>

TypeRaw(c) == raw' = Append(raw, c) /\ UNCHANGED <<cooked, out>>

ReadCooked(n) ==
  /\ \A k \in 1..(n - 1) : cooked[k] # NewLine
  /\ out' = SubSeq(cooked, 1, n)
  /\ cooked' = SubSeq(cooked, n + 1, Len(cooked))
  /\ UNCHANGED raw

ReadRaw(n) ==
  /\ out' = SubSeq(raw, 1, n)
  /\ raw' = SubSeq(raw, n + 1, Len(raw))
  /\ UNCHANGED cooked

Next ==
  \/ \E c \in Keys : TypeCooked(c) \/ TypeRaw(c)
  \/ Erase
  \/ \E n \in 0..Len(cooked) : ReadCooked(n)
  \/ \E n \in 0..Len(raw) : ReadRaw(n)

Spec == Init /\ [][Next]_<<cooked, raw, out>>
=============================================================================
