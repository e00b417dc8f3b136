--------------------------------- MODULE Pty ---------------------------------
(***************************************************************************)
(* Pseudo-terminals in the mlibc port: openpty, login_tty and forkpty      *)
(* (mlibc-salernos/sysdeps/generic/pty.cpp) over sys_posix_openpt,         *)
(* sys_unlockpt, sys_ptsname, sys_dup2, sys_close, sys_setsid and          *)
(* sys_ioctl (generic.cpp).                                                *)
(*                                                                         *)
(* One process makes a sequence of calls; the n-th one creates the pair n. *)
(* What is modelled is which descriptor of which process refers to which   *)
(* side of which pair, and which session a pair controls.  The kernel is   *)
(* external: it hands out the lowest free descriptor; the calls of openpty *)
(* and fork may fail; close and dup2 of an open descriptor do not, setsid  *)
(* not in a process just forked, TIOCSCTTY only on the terminal of another *)
(* session; and the open of a terminal by a session leader that has none   *)
(* may or may not make it the controlling terminal (openpty does not say   *)
(* O_NOCTTY).                                                              *)
(***************************************************************************)
EXTENDS Naturals

CONSTANTS
  MaxFd,     \* the highest descriptor of a process
  MaxCalls,  \* the calls that the parent makes
  None

\* A process can have its three standard descriptors open.
ASSUME PtyAssumption == MaxFd \in Nat /\ MaxFd >= 2 /\ MaxCalls \in Nat /\ None \notin Nat

Calls == 1..MaxCalls
Fds   == 0..MaxFd

\* The process 0 is the caller; n > 0 is the child of its n-th call.
Procs == 0..MaxCalls

master_of(n) == <<"master", n>>
slave_of(n)  == <<"slave", n>>
other        == <<"other", 0>>      \* what the caller had open before
closed       == <<"closed", 0>>

VARIABLES
  table,    \* each process' descriptors
  n,        \* the current call
  forks,    \* the current call is forkpty, not openpty
  pc,
  master, slave,  \* each process' copy of the local variables
  name,     \* the pair that ptsname's result names
  locked,   \* the pairs that are still locked
  leader,   \* the caller leads a session that has no controlling terminal
  ctty,     \* the session that each pair controls: a process or None
  ret,      \* the result of the last call: "none", "ok" or "failed"
  cpc,      \* each child: "absent", "close", "login", "dup", "in" or "out"
  entry,    \* the caller's descriptors when the current call began
  garbled   \* calls whose name an unsuccessful ioctl left undefined, or another thread replaced

vars == <<table, n, forks, pc, master, slave, name, locked, leader, ctty, ret,
          cpc, entry, garbled>>

\* The caller starts with any of its first three descriptors open.
Init ==
  /\ \E open \in SUBSET (0..2) :
       table = [p \in Procs |-> [f \in Fds |-> IF f \in open THEN other ELSE closed]]
  /\ n = 0 /\ forks = FALSE
  /\ pc = "idle"
  /\ master = [p \in Procs |-> 0] /\ slave = [p \in Procs |-> 0]
  /\ name = 0
  /\ locked = Calls
  /\ leader \in BOOLEAN
  /\ ctty = [m \in Calls |-> None]
  /\ ret = "none"
  /\ cpc = [m \in Calls |-> "absent"]
  /\ entry = table[0]
  /\ garbled = {}

-----------------------------------------------------------------------------
(* Descriptors (external) *)

\* The lowest free descriptor, as a set that is empty when there is none.
lowest(t) == {f \in Fds : t[f] = closed /\ \A g \in Fds : t[g] = closed => f <= g}

sys_close(t, f)     == [t EXCEPT ![f] = closed]
sys_dup2(t, f, new) == [t EXCEPT ![new] = t[f]]

-----------------------------------------------------------------------------
(* openpty *)

call ==
  /\ pc = "idle" /\ n < MaxCalls
  /\ n' = n + 1
  /\ forks' \in BOOLEAN
  /\ pc' = "openpt"
  /\ entry' = table[0]
  /\ ret' = "none"
  /\ UNCHANGED <<table, master, slave, name, locked, leader, ctty, cpc, garbled>>

sys_posix_openpt ==
  /\ pc = "openpt"
  /\ \/ \E f \in lowest(table[0]) :
          /\ table' = [table EXCEPT ![0][f] = master_of(n)]
          /\ master' = [master EXCEPT ![0] = f]
          /\ pc' = "grant"
          /\ UNCHANGED ret
     \/ /\ pc' = "idle" /\ ret' = "failed"
        /\ UNCHANGED <<table, master>>
  /\ UNCHANGED <<n, forks, slave, name, locked, leader, ctty, cpc, entry, garbled>>

grantpt ==
  /\ pc = "grant"
  /\ pc' \in {"unlock", "bad"}
  /\ UNCHANGED <<table, n, forks, master, slave, name, locked, leader, ctty, ret,
                 cpc, entry, garbled>>

\* sys_unlockpt tests result, which is undefined when sys_ioctl has failed: the
\* call may then report success for a pair that is still locked.
sys_unlockpt ==
  /\ pc = "unlock"
  /\ \/ /\ locked' = locked \ {n}
        /\ pc' = "ptsname"
     \/ /\ pc' \in {"ptsname", "bad"}
        /\ UNCHANGED locked
  /\ UNCHANGED <<table, n, forks, master, slave, name, leader, ctty, ret, cpc,
                 entry, garbled>>

\* sys_ptsname likewise: after a failed ioctl both result and index are
\* undefined, so the name may be any pair's, or no pair's (0).
sys_ptsname ==
  /\ pc = "ptsname"
  /\ \/ /\ name' = n
        /\ pc' = "open"
        /\ UNCHANGED garbled
     \/ /\ name' \in 0..MaxCalls
        /\ pc' = "open"
        /\ garbled' = garbled \cup {n}
     \/ /\ pc' = "bad"
        /\ UNCHANGED <<name, garbled>>
  /\ UNCHANGED <<table, n, forks, master, slave, locked, leader, ctty, ret, cpc, entry>>

\* Another thread calls ptsname before the name is used: its result is in the same
\* buffer (external).
other_ptsname ==
  /\ pc = "open"
  /\ name' \in 0..MaxCalls
  /\ garbled' = garbled \cup {n}
  /\ UNCHANGED <<table, n, forks, pc, master, slave, locked, leader, ctty, ret, cpc, entry>>

\* A slave can be opened while its pair is unlocked and someone has the master.
exists(m) == m \in Calls /\ m \notin locked
             /\ \E p \in Procs : \E f \in Fds : table[p][f] = master_of(m)

open_slave ==
  /\ pc = "open"
  /\ \/ /\ exists(name)
        /\ \E f \in lowest(table[0]) :
             /\ table' = [table EXCEPT ![0][f] = slave_of(name)]
             /\ slave' = [slave EXCEPT ![0] = f]
        /\ \/ UNCHANGED <<ctty, leader>>
           \/ /\ leader /\ ctty[name] = None
              /\ ctty' = [ctty EXCEPT ![name] = 0]
              /\ leader' = FALSE
        /\ pc' = "opened"
     \/ /\ pc' = "bad"
        /\ UNCHANGED <<table, slave, ctty, leader>>
  /\ UNCHANGED <<n, forks, master, name, locked, ret, cpc, entry, garbled>>

\* Mutation: the error path returns without closing the master.
bad_leaks ==
  /\ pc = "bad"
  /\ pc' = "idle" /\ ret' = "failed"
  /\ UNCHANGED <<table, n, forks, master, slave, name, locked, leader, ctty, cpc,
                 entry, garbled>>

bad ==
  /\ pc = "bad"
  /\ table' = [table EXCEPT ![0] = sys_close(@, master[0])]
  /\ pc' = "idle" /\ ret' = "failed"
  /\ UNCHANGED <<n, forks, master, slave, name, locked, leader, ctty, cpc, entry, garbled>>

openpty_returns ==
  /\ pc = "opened"
  /\ IF forks THEN pc' = "fork" /\ UNCHANGED ret
              ELSE pc' = "idle" /\ ret' = "ok"
  /\ UNCHANGED <<table, n, forks, master, slave, name, locked, leader, ctty, cpc,
                 entry, garbled>>

-----------------------------------------------------------------------------
(* forkpty *)

forkpty ==
  /\ pc = "fork"
  /\ \/ /\ table' = [table EXCEPT ![n] = table[0]]
        /\ master' = [master EXCEPT ![n] = master[0]]
        /\ slave' = [slave EXCEPT ![n] = slave[0]]
        /\ cpc' = [cpc EXCEPT ![n] = "close"]
        /\ pc' = "parent"
        /\ UNCHANGED ret
     \/ /\ table' = [table EXCEPT ![0] = sys_close(sys_close(@, master[0]), slave[0])]
        /\ pc' = "idle" /\ ret' = "failed"
        /\ UNCHANGED <<cpc, master, slave>>
  /\ UNCHANGED <<n, forks, name, locked, leader, ctty, entry, garbled>>

\* Mutation: the parent keeps the slave.
parent_keeps_slave ==
  /\ pc = "parent"
  /\ pc' = "idle" /\ ret' = "ok"
  /\ UNCHANGED <<table, n, forks, master, slave, name, locked, leader, ctty, cpc,
                 entry, garbled>>

forkpty_parent ==
  /\ pc = "parent"
  /\ table' = [table EXCEPT ![0] = sys_close(@, slave[0])]
  /\ pc' = "idle" /\ ret' = "ok"
  /\ UNCHANGED <<n, forks, master, slave, name, locked, leader, ctty, cpc, entry, garbled>>

-----------------------------------------------------------------------------
(* The child of forkpty *)

parentvars == <<n, forks, pc, master, slave, name, locked, leader, ret, entry, garbled>>

child_close(c) ==
  /\ cpc[c] = "close"
  /\ table' = [table EXCEPT ![c] = sys_close(@, master[c])]
  /\ cpc' = [cpc EXCEPT ![c] = "login"]
  /\ UNCHANGED <<parentvars, ctty>>

pair(c) == table[c][slave[c]][2]

\* Mutation: TIOCSCTTY comes before setsid, in the caller's session.
login_before_setsid(c) ==
  /\ cpc[c] = "login"
  /\ cpc' = [cpc EXCEPT ![c] = "out"]
  /\ UNCHANGED <<parentvars, table, ctty>>

\* login_tty up to tcsetsid.  setsid cannot fail in a process that was just
\* forked; TIOCSCTTY does on a terminal of another session, and forkpty
\* ignores that login_tty has returned -1.
login_session(c) ==
  /\ cpc[c] = "login"
  /\ \/ /\ ctty[pair(c)] = None
        /\ ctty' = [ctty EXCEPT ![pair(c)] = c]
        /\ cpc' = [cpc EXCEPT ![c] = "dup"]
     \/ /\ ctty[pair(c)] # None
        /\ cpc' = [cpc EXCEPT ![c] = "out"]
        /\ UNCHANGED ctty
  /\ UNCHANGED <<parentvars, table>>

\* Mutation: the slave is closed whatever its number.
dup_always_closes(c) ==
  /\ cpc[c] = "dup"
  /\ LET f == slave[c]
         t == sys_dup2(sys_dup2(sys_dup2(table[c], f, 0), f, 1), f, 2)
     IN  table' = [table EXCEPT ![c] = sys_close(t, f)]
  /\ cpc' = [cpc EXCEPT ![c] = "in"]
  /\ UNCHANGED <<parentvars, ctty>>

login_dup(c) ==
  /\ cpc[c] = "dup"
  /\ LET f == slave[c]
         t == sys_dup2(sys_dup2(sys_dup2(table[c], f, 0), f, 1), f, 2)
     IN  table' = [table EXCEPT ![c] = IF f > 2 THEN sys_close(t, f) ELSE t]
  /\ cpc' = [cpc EXCEPT ![c] = "in"]
  /\ UNCHANGED <<parentvars, ctty>>

child_step(c) == child_close(c) \/ login_session(c) \/ login_dup(c)

Next ==
  \/ call \/ sys_posix_openpt \/ grantpt \/ sys_unlockpt \/ sys_ptsname \/ other_ptsname
  \/ open_slave
  \/ bad \/ openpty_returns \/ forkpty \/ forkpty_parent
  \/ \E c \in Calls : child_step(c)

Spec == Init /\ [][Next]_vars

-----------------------------------------------------------------------------
(* Properties *)

fds_of(p, file) == {f \in Fds : table[p][f] = file}

\* A call that fails, at whichever of its steps, leaves the caller's descriptors
\* as they were (openpty's bad label, forkpty's case -1).
FailureLeavesTable == pc = "idle" /\ ret = "failed" => table[0] = entry

\* A call that succeeds adds the master, and openpty the slave, to descriptors
\* that were free, and nothing else: forkpty's parent does not keep the slave.
SuccessAddsPair ==
  pc = "idle" /\ ret = "ok" =>
    /\ table[0][master[0]] = master_of(n) /\ entry[master[0]] = closed
    /\ forks => table[0] = [entry EXCEPT ![master[0]] = master_of(n)]
    /\ ~forks => /\ table[0][slave[0]] = slave_of(name)
                 /\ table[0] = [entry EXCEPT ![master[0]] = master_of(n),
                                             ![slave[0]] = slave_of(name)]

\* The child that login_tty has moved to its terminal has exactly its three
\* standard descriptors on the slave and none on the master, also when the
\* caller ran with some of the three closed and the pair was opened there.
ChildOnSlave ==
  \A c \in Calls : cpc[c] = "in" =>
    \E m \in Calls : /\ 0..2 \subseteq fds_of(c, slave_of(m))
                     /\ ctty[m] = c
                     /\ fds_of(c, master_of(c)) = {}
                     /\ c \notin garbled => m = c /\ fds_of(c, slave_of(m)) = 0..2

\* login_tty can only fail in forkpty's child because opening the slave made it
\* the caller's controlling terminal, or because its own or an earlier taker's
\* slave name came from a failed ioctl or from another thread.
ChildLeftOutOnlyByOwner ==
  \A c \in Calls : cpc[c] = "out" => c \in garbled \/ ctty[c] \in garbled \cup {0}
=============================================================================
