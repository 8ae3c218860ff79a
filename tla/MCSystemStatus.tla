--------------------------- MODULE MCSystemStatus ---------------------------
(* Instances of SystemStatus for TLC.                                       *)
EXTENDS SystemStatus, TLC

EveryAnswer == Answer

\* One answer per outcome of Client.ModelInfo and of the connection's fate.
TellingAnswers == {Conforming,
                   [status |-> "200", body |-> "invalid"],
                   [status |-> "other", body |-> "oversized"],
                   [status |-> "other", body |-> "valid"]}

Interchangeable == Permutations(Requests)
=============================================================================
