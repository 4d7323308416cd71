--------------------------- MODULE MCCodexRefresh ---------------------------
(* CodexRefresh with two processes, the first of which runs two coroutines. *)
EXTENDS CodexRefresh, TLC

CONSTANTS w1, w2, w3, p1, p2

ThreeWorkers == {w1, w2, w3}
TwoProcesses == {p1, p2}
FirstOnly    == {p1}
TwoAndOne    == w1 :> p1 @@ w2 :> p1 @@ w3 :> p2
=============================================================================
