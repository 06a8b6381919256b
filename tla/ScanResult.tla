----------------------------- MODULE ScanResult -----------------------------
(***************************************************************************)
(* What a scan or a revalidation promises to its caller, without workers,  *)
(* channel, batches or byte budget: a set of files is dispatched once,     *)
(* each of them is settled once, as committed, failed or raced, only files *)
(* that are committed together become visible together, and the run ends:  *)
(* with success only when nothing is left pending, otherwise with an error *)
(* that leaves the unsettled files untouched.                              *)
(***************************************************************************)
CONSTANT Files

VARIABLES result, status

vars == <<result, status>>

Pending == {f \in Files : result[f] = "pending"}

Init ==
    /\ result = [f \in Files |-> "idle"]
    /\ status = "idle"

\* The caller starts the run over the files it chose.
Dispatch(S) ==
    /\ status = "idle"
    /\ result' = [f \in Files |-> IF f \in S THEN "pending" ELSE "idle"]
    /\ status' = "running"

\* One file turns out not to be ingestible.
Drop(f, v) ==
    /\ status = "running" /\ f \in Pending
    /\ result' = [result EXCEPT ![f] = v]
    /\ UNCHANGED status

\* One transaction commits the files of S.
Commit(S) ==
    /\ status = "running" /\ S \subseteq Pending
    /\ result' = [f \in Files |-> IF f \in S THEN "committed" ELSE result[f]]
    /\ UNCHANGED status

Finish ==
    /\ status = "running" /\ Pending = {}
    /\ status' = "ok"
    /\ UNCHANGED result

Abort ==
    /\ status = "running"
    /\ status' = "error"
    /\ UNCHANGED result

Ends == Finish \/ Abort

Next ==
    \/ \E S \in SUBSET Files : Dispatch(S) \/ Commit(S)
    \/ \E f \in Files, v \in {"failed", "raced"} : Drop(f, v)
    \/ Ends

\* A run that started ends.
Spec == Init /\ [][Next]_vars /\ WF_vars(Ends)
=============================================================================
