--------------------------- MODULE ThreadLifecycle ---------------------------
(***************************************************************************)
(* What the users of a thread rely on: it is created, runs, and finishes   *)
(* with one value; a join waits for that and returns that value.  A live   *)
(* thread eventually finishes and its joins eventually return.             *)
(***************************************************************************)
CONSTANTS Threads, Joiners, Values, None

VARIABLES target, life, value, joined

lifevars == <<target, life, value, joined>>

Init ==
  /\ target \in [Joiners -> Threads]
  /\ life = [t \in Threads |-> "absent"]
  /\ value = [t \in Threads |-> None]
  /\ joined = [j \in Joiners |-> None]

Create(t) ==
  /\ life[t] = "absent"
  /\ life' = [life EXCEPT ![t] = "live"]
  /\ UNCHANGED <<target, value, joined>>

Finish(t) ==
  /\ life[t] = "live"
  /\ life' = [life EXCEPT ![t] = "finished"]
  /\ \E v \in Values : value' = [value EXCEPT ![t] = v]
  /\ UNCHANGED <<target, joined>>

Join(j) ==
  /\ life[target[j]] = "finished"
  /\ joined[j] = None
  /\ joined' = [joined EXCEPT ![j] = value[target[j]]]
  /\ UNCHANGED <<target, life, value>>

Next == \/ \E t \in Threads : Create(t) \/ Finish(t)
        \/ \E j \in Joiners : Join(j)

Safety == Init /\ [][Next]_lifevars

Spec == /\ Safety
        /\ \A t \in Threads : WF_lifevars(Finish(t))
        /\ \A j \in Joiners : WF_lifevars(Join(j))
=============================================================================
