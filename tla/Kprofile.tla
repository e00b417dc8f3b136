------------------------------ MODULE Kprofile ------------------------------
(***************************************************************************)
(* kprofile (util-salernos/src/kprofile.c): prints the kernel's profile, a *)
(* table of functions or of system calls, in the order that an option      *)
(* names.  The device is external: it has one table for each of the two    *)
(* and any call on it may fail.  A float stands for its place in the order *)
(* of those that are not negative, so that 0 is the least; how division    *)
(* rounds is left open.                                                    *)
(***************************************************************************)
EXTENDS Integers, Sequences, SequencesExt

CONSTANTS
  Rows,             \* records of devprofile_fn_data
  Tables,           \* the pairs of tables that the device may hold
  MaxOptions,       \* the most options on the command line
  quotient(_, _)    \* the float that a time divided by a number of calls gives

\* The fields of a row are unsigned, and a quotient of two of them is a float.
ProfileOK ==
  /\ \A r \in Rows :
       /\ r.real_time_ns \in Nat /\ r.cpu_time_ns \in Nat /\ r.num_calls \in Nat
       /\ r.num_calls # 0 => quotient(r.cpu_time_ns, r.num_calls) \in Nat
  /\ \A t \in Tables : t["functions"] \in Seq(Rows) /\ t["syscalls"] \in Seq(Rows)
  /\ MaxOptions \in Nat

ASSUME ProfileAssumption == ProfileOK

\* What main compares its arguments with, without the dashes.
Options  == {"by_real", "by_cpu", "by_calls", "by_ratio"}
Commands == {"help", "functions", "syscalls"}

descending(x, y) == IF x > y THEN -1 ELSE IF x < y THEN 1 ELSE 0

comparator_real(a, b)  == descending(a.real_time_ns, b.real_time_ns)
comparator_cpu(a, b)   == descending(a.cpu_time_ns, b.cpu_time_ns)
comparator_calls(a, b) == descending(a.num_calls, b.num_calls)

p(row) == quotient(row.cpu_time_ns, row.num_calls)

\* Mutation: no test for rows that were never called.
comparator_ratio_raw(a, b) == descending(p(a), p(b))

\* A row without calls is below every other one.
comparator_ratio(a, b) ==
  IF a.num_calls = 0 \/ b.num_calls = 0 THEN descending(a.num_calls, b.num_calls)
                                       ELSE descending(p(a), p(b))

qsort_callback(a, b, by) ==
  [by_real  |-> comparator_real(a, b),  by_cpu   |-> comparator_cpu(a, b),
   by_calls |-> comparator_calls(a, b), by_ratio |-> comparator_ratio(a, b)][by]

VARIABLES
  device,   \* the profiler's tables
  argv,     \* the command and the options
  next,     \* the option that main looks at
  out,      \* the rows printed: each with the ratio that is shown
  status,   \* the exit status
  stage,    \* how far main is
  g_comparator,
  data, num,      \* the rows read and their number (num_functions, num_syscalls)
  given, ki, kj   \* qsort's

kprofile_vars ==
  <<device, argv, next, out, status, stage, data, num, given, g_comparator, ki, kj>>

Q == INSTANCE Sort WITH
       Elements <- Rows, Args <- Options, compare <- qsort_callback,
       pc <- stage, base <- data, count <- num, input <- given,
       arg <- g_comparator, i <- ki, j <- kj

KprofileInit ==
  /\ device \in Tables
  /\ argv \in BoundedSeq(Options \cup Commands \cup {"other"}, MaxOptions + 1)
  /\ next = 2 /\ out = <<>>
  /\ stage = "options" /\ g_comparator = "by_ratio" /\ status = "running"
  /\ num = 0 /\ data = [n \in {} |-> 0] /\ given = data
  /\ ki = 0 /\ kj = 1

exit(s) == stage' = "exited" /\ status' = s

unchanged_array == UNCHANGED <<data, num, given, ki, kj>>

usage ==
  /\ stage = "options" /\ Len(argv) = 0
  /\ exit("failure")
  /\ UNCHANGED <<device, argv, next, out, g_comparator>> /\ unchanged_array

option ==
  /\ stage = "options" /\ next \in 2..Len(argv)
  /\ IF argv[next] \in Options
       THEN next' = next + 1 /\ g_comparator' = argv[next] /\ UNCHANGED <<stage, status>>
       ELSE exit("failure") /\ UNCHANGED <<next, g_comparator>>
  /\ UNCHANGED <<device, argv, out>> /\ unchanged_array

command ==
  /\ stage = "options" /\ Len(argv) > 0 /\ next > Len(argv)
  /\ \/ argv[1] = "help" /\ exit("success")
     \/ argv[1] \in {"functions", "syscalls"} /\ stage' = "open" /\ UNCHANGED status
     \/ argv[1] \notin Commands /\ exit("failure")
  /\ UNCHANGED <<device, argv, next, out, g_comparator>> /\ unchanged_array

\* open, malloc and the ioctls end the program when they fail.
checked_fails ==
  /\ stage \in {"open", "number", "malloc", "get"}
  /\ exit("failure")
  /\ UNCHANGED <<device, argv, next, out, g_comparator>> /\ unchanged_array

succeeds(at, to) ==
  stage = at /\ stage' = to /\ UNCHANGED <<device, argv, next, out, g_comparator, status>>

profile == device[argv[1]]

open_devprofile == succeeds("open", "number") /\ unchanged_array
get_number      == succeeds("number", "malloc") /\ num' = Len(profile)
                   /\ UNCHANGED <<data, given, ki, kj>>
checked_malloc  == succeeds("malloc", "get") /\ unchanged_array

\* The second ioctl fills the array, and qsort begins.
get_profile ==
  /\ succeeds("get", "sort")
  /\ data' = [n \in Q!Indices |-> profile[n + 1]] /\ given' = data'
  /\ UNCHANGED <<num, ki, kj>>

shown_ratio(row) == IF row.num_calls # 0 THEN p(row) ELSE 0

print_function_table ==
  /\ stage = "sorted"
  /\ out' = [n \in 1..num |-> [row |-> data[n - 1], ratio |-> shown_ratio(data[n - 1])]]
  /\ exit("success")
  /\ UNCHANGED <<device, argv, next, g_comparator>> /\ unchanged_array

KprofileNext ==
  \/ usage \/ option \/ command
  \/ checked_fails \/ open_devprofile \/ get_number \/ checked_malloc \/ get_profile
  \/ Q!qsort_r /\ UNCHANGED <<device, argv, next, out, status>>
  \/ print_function_table

KprofileSpec == KprofileInit /\ [][KprofileNext]_kprofile_vars

-----------------------------------------------------------------------------
(* Properties *)

\* What the last option asks for; without options, the ratio.
wanted == IF Len(argv) > 1 THEN argv[Len(argv)] ELSE "by_ratio"

\* The column that the last option names never rises down the printed table, the ratio
\* as it is shown included, where rows without calls and rows without time both show 0.
in_order ==
  \A m, n \in DOMAIN out : m < n =>
    LET a == out[m].row  b == out[n].row IN
    /\ wanted = "by_real"  => a.real_time_ns >= b.real_time_ns
    /\ wanted = "by_cpu"   => a.cpu_time_ns >= b.cpu_time_ns
    /\ wanted = "by_calls" => a.num_calls >= b.num_calls
    /\ wanted = "by_ratio" => out[m].ratio >= out[n].ratio

\* A run prints every row of the table it was asked for exactly once and in the order of
\* its last option, or nothing: no failure leaves part of a table, and no table is
\* printed by a run that reports failure (main, profile_functions, profile_syscalls).
PrintsWholeInOrder ==
  stage = "exited" =>
    IF status = "success" /\ argv[1] # "help"
      THEN /\ Len(out) = Len(profile) /\ in_order
           /\ \E f \in Injection(DOMAIN out, DOMAIN profile) :
                \A n \in DOMAIN out : out[n].row = profile[f[n]]
      ELSE out = <<>>

=============================================================================
