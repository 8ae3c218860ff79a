------------------------------ MODULE RequestId ------------------------------
(***************************************************************************)
(* X-Request-ID as both services read it. A header value is a sequence of  *)
(* character classes; what tells the two normalisations apart is which     *)
(* blanks each trims.                                                      *)
(***************************************************************************)
EXTENDS Blanks

CONSTANT MaxLen   \* 128 in both services

ASSUME MaxLenPositive == MaxLen \in Nat \ {0}

Char == {"blank", "odd_blank",
         "graph",      \* '!'..'~'
         "other"}      \* everything else

Acceptable(s) == s \in Seq({"graph"}) /\ s # <<>> /\ Len(s) <= MaxLen

\* Mutant: the length limit is missing.
Normalise_Unbounded(raw, blank) ==
  LET value == Trim(raw, blank) IN IF value \in Seq({"graph"}) THEN value ELSE <<>>

Normalise(raw, blank) ==
  LET value == Trim(raw, blank) IN IF Acceptable(value) THEN value ELSE <<>>

\* validRequestID; <<>> is its "".
ValidRequestID(raw) == Normalise(raw, GoBlank)

\* Mutant: the Python side accepts shorter values only.
NormaliseRequestId_Shorter(raw) ==
  LET value == Normalise(raw, PyBlank) IN IF Len(value) < MaxLen THEN value ELSE <<>>

\* _normalise_request_id; <<>> is its None.
NormaliseRequestId(raw) == Normalise(raw, PyBlank)
=============================================================================
