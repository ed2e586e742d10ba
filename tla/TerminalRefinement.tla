------------------------- MODULE TerminalRefinement -------------------------
(***************************************************************************)
(* TerminalDevice implements LineDiscipline, in which the finished and the *)
(* unfinished lines are one sequence of characters.                        *)
(***************************************************************************)
EXTENDS TerminalDevice

LOCAL INSTANCE SequencesExt

Abstract == INSTANCE LineDiscipline WITH cooked <- FlattenSeq(lines), raw <- rawBuffer

(* Across mode changes and competing readers, the terminal is a line       *)
(* discipline: no character is lost, duplicated or reordered, a backspace  *)
(* edits only the unfinished line, and a read stops at a newline.          *)
ImplementsLineDiscipline == Abstract!Spec
=============================================================================
