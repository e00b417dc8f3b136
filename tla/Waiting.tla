------------------------------ MODULE Waiting -------------------------------
(***************************************************************************)
(* The wrappers of mlibc-salernos/sysdeps/generic/generic.cpp that wait:   *)
(* sys_ppoll, the only system call, and what is made of it, sys_poll,      *)
(* sys_pselect, sys_sleep and sys_pause.  A timespec is a record; NULL sets *)
(* no limit.                                                               *)
(***************************************************************************)
EXTENDS Syscalls, FiniteSets

CONSTANT IntBits        \* the width of int, scaled down
ASSUME IntBitsAssumption == IntBits \in Nat \ {0}

NULL == Unset
ASSUME NullAssumption == NULL \notin [sec : Nat, nsec : Nat]

\* The conversion of a wider number to int.
to_int(n) ==
  LET low == n % pow2[IntBits]
  IN IF low < pow2[IntBits - 1] THEN low ELSE low - pow2[IntBits]

\* The time limit and the entries reach the kernel, the signal mask does not.
sys_ppoll(fds, timeout, sigmask, k) == 
  [asked |-> fds, limit |-> timeout, err |-> stores(k).err, out |-> stores(k).out]

\* Mutation: the remainder is taken for microseconds.
poll_limit_micro(timeout) ==
  IF timeout < 0 THEN NULL ELSE [sec |-> timeout \div 1000, nsec |-> (timeout % 1000) * 1000]

poll_limit(timeout) ==
  IF timeout < 0 THEN NULL ELSE [sec |-> timeout \div 1000, nsec |-> (timeout % 1000) * 1000000]

sys_poll(fds, timeout, k) == sys_ppoll(fds, poll_limit(timeout), NULL, k)

\* poll's result is dropped: the caller is told of success, even when a signal
\* ended the wait, and of no remaining time.
sys_sleep(secs, nanos, k) ==
  LET tot == secs * 1000 + nanos \div 1000000
  IN [limit |-> sys_poll(<<>>, to_int(tot), k).limit, err |-> 0, out |-> Unset]
sys_pause(k) == [limit |-> sys_poll(<<>>, -1, k).limit, err |-> 0, out |-> Unset]

-----------------------------------------------------------------------------
(* sys_pselect: sets is a function from the sets that are not NULL to the  *)
(* descriptors in them.                                                    *)

Event   == [read |-> "POLLIN", write |-> "POLLOUT", except |-> "POLLPRI"]
Counted == [read   |-> {"POLLIN", "POLLERR", "POLLHUP"},
            write  |-> {"POLLOUT", "POLLERR", "POLLHUP"},
            except |-> {"POLLPRI"}]

events(sets, i) == {Event[s] : s \in {t \in DOMAIN sets : i \in sets[t]}}

\* Mutation: an entry that nothing is asked of keeps its descriptor.
entries_all(nfds, sets) == [i \in 0..nfds-1 |-> [fd |-> i, events |-> events(sets, i)]]

\* The entry of a descriptor that is in no set has fd -1, which poll skips.
entries(nfds, sets) ==
  [i \in 0..nfds-1 |-> [fd     |-> IF events(sets, i) = {} THEN -1 ELSE i,
                        events |-> events(sets, i)]]

ready(nfds, sets, revents) ==
  [s \in DOMAIN sets |-> {i \in sets[s] \cap 0..nfds-1 : revents[i] \cap Counted[s] # {}}]

\* What the kernel can report of an entry (external): what was asked for, the
\* errors always, nothing for the descriptor -1.
Reports(e) ==
  IF e.fd < 0 THEN {{}} ELSE SUBSET (e.events \cup {"POLLERR", "POLLHUP", "POLLNVAL"})

\* The kernel's answer to a poll that reports revents (external).
polled(revents) == [errno |-> 0, ret |-> Cardinality({i \in DOMAIN revents : revents[i] # {}})]

sys_pselect(nfds, sets, timeout, memory, k, revents) ==
  IF ~memory THEN [sets |-> sets, err |-> ENOMEM, out |-> Unset]
  ELSE LET r == sys_ppoll(entries(nfds, sets), timeout, NULL, k)
       IN [sets |-> IF r.err # 0 THEN sets ELSE ready(nfds, sets, revents),
           err |-> r.err, out |-> r.out]

=============================================================================
