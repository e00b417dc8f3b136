----------------------------- MODULE MCKprofile -----------------------------
(* Tables of up to three rows: rows without calls (with and without time),  *)
(* rows without time, equal ratios of different times, ratios that become   *)
(* equal when they are rounded.                                             *)
EXTENDS Kprofile

row(name, real, cpu, calls) ==
  [name |-> name, real_time_ns |-> real, cpu_time_ns |-> cpu, num_calls |-> calls]

MCRows ==
  {row("idle", 0, 0, 0), row("cut", 1, 2, 0), row("fast", 3, 0, 2), row("even", 2, 2, 2),
   row("twice", 2, 1, 1), row("near", 1, 3, 2), row("slow", 3, 3, 1)}

\* Division that rounds to a whole number; by zero, it gives infinity.
MCQuotient(time, calls) == IF calls = 0 THEN 9 ELSE time \div calls

Profiles == {t \in BoundedSeq(MCRows, 3) : IsInjective(t)}
MCTables ==
  {[c \in {"functions", "syscalls"} |-> IF c = "functions" THEN t ELSE Reverse(t)] :
     t \in Profiles}

=============================================================================
