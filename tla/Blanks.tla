-------------------------------- MODULE Blanks --------------------------------
(***************************************************************************)
(* What strings.TrimSpace and str.strip make of a text: a text is a        *)
(* sequence of tokens, and the two differ in which of them are blank.      *)
(***************************************************************************)
EXTENDS Naturals, Sequences, FiniteSetsExt

\* "blank" is space, tab, ...; "odd_blank" \x1c..\x1f and, in a header,
\* which Go trims byte by byte, \x85 and \xa0.
GoBlank == {"blank"}
PyBlank == {"blank", "odd_blank"}

Trim(s, blank) ==
  LET kept == {i \in DOMAIN s : s[i] \notin blank}
  IN  IF kept = {} THEN <<>> ELSE SubSeq(s, Min(kept), Max(kept))
=============================================================================
