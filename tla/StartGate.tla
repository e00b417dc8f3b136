------------------------------ MODULE StartGate ------------------------------
(***************************************************************************)
(* What init promises about the programs of its tty directives: a gate     *)
(* that is opened at most once, after the last program was created; no     *)
(* program starts while it is closed or was abandoned; every program that  *)
(* waits at an open gate starts, unless its preparation fails.             *)
(***************************************************************************)
CONSTANT Programs

VARIABLES gate, prog

gatevars == <<gate, prog>>

GateTypeOK ==
  /\ gate \in {"closed", "open", "abandoned"}
  /\ prog \in [Programs -> {"absent", "waiting", "started", "ended"}]

Init ==
  /\ gate = "closed"
  /\ prog = [p \in Programs |-> "absent"]

Create(p) ==
  /\ gate = "closed" /\ prog[p] = "absent"
  /\ prog' = [prog EXCEPT ![p] = "waiting"]
  /\ UNCHANGED gate

Open ==
  /\ gate = "closed"
  /\ gate' \in {"open", "abandoned"}
  /\ UNCHANGED prog

Start(p) ==
  /\ gate = "open" /\ prog[p] = "waiting"
  /\ prog' = [prog EXCEPT ![p] = "started"]
  /\ UNCHANGED gate

\* The terminal cannot be opened, or the program cannot be executed.
End(p) ==
  /\ prog[p] \in {"waiting", "started"}
  /\ prog' = [prog EXCEPT ![p] = "ended"]
  /\ UNCHANGED gate

Next == Open \/ \E p \in Programs : Create(p) \/ Start(p) \/ End(p)

Safety == Init /\ [][Next]_gatevars
Spec == Safety /\ \A p \in Programs : WF_gatevars(Start(p))
=============================================================================
