------------------------------ MODULE PtyProofs ------------------------------
(***************************************************************************)
(* openpty and forkpty for any number of calls and descriptors: what a     *)
(* call leaves in the caller's table, and where its child ends up.         *)
(*                                                                         *)
(* CallOK says what the current call has put into the caller's table on    *)
(* top of what it found there.  HeldOK says that a table refers to no pair *)
(* of a later call, so that the pair of the current call is referred to    *)
(* through the two descriptors of that call only.  ChildOK carries that    *)
(* over to the copy that the child gets, and CttyOK says who can have      *)
(* taken a terminal.                                                       *)
(***************************************************************************)
EXTENDS Pty, TLAPS

Files == ({"master", "slave", "other", "closed"} \X Nat)

PCs  == {"idle", "openpt", "grant", "unlock", "ptsname", "open", "bad", "opened", "fork", "parent"}
CPCs == {"absent", "close", "login", "dup", "in", "out"}

PtyTypeOK ==
  /\ table \in [Procs -> [Fds -> Files]] /\ entry \in [Fds -> Files]
  /\ n \in Procs /\ forks \in BOOLEAN /\ pc \in PCs
  /\ master \in [Procs -> Fds] /\ slave \in [Procs -> Fds]
  /\ name \in Procs /\ locked \subseteq Calls /\ leader \in BOOLEAN
  /\ ctty \in [Calls -> Procs \cup {None}]
  /\ ret \in {"none", "ok", "failed"}
  /\ cpc \in [Calls -> CPCs]
  /\ garbled \subseteq Calls

with_master == [entry EXCEPT ![master[0]] = master_of(n)]
with_pair   == [entry EXCEPT ![master[0]] = master_of(n), ![slave[0]] = slave_of(name)]

\* The caller's descriptors at each step of a call, and when it has returned.
CallOK ==
  /\ pc # "idle" => n \in Calls
  /\ pc = "openpt" \/ (pc = "idle" /\ ret = "failed") => table[0] = entry
  /\ pc \in {"grant", "unlock", "ptsname", "open", "bad"} =>
       entry[master[0]] = closed /\ table[0] = with_master
  /\ pc \in {"opened", "fork", "parent"} \/ (pc = "idle" /\ ret = "ok") =>
       /\ n \in Calls /\ name \in Calls
       /\ entry[master[0]] = closed /\ entry[slave[0]] = closed /\ master[0] # slave[0]
  /\ pc \in {"opened", "fork", "parent"} \/ (pc = "idle" /\ ret = "ok" /\ ~forks) =>
       table[0] = with_pair
  /\ pc = "idle" /\ ret = "ok" /\ forks => table[0] = with_master
  /\ pc \in {"fork", "parent"} => forks
  /\ pc \in {"open", "opened", "fork"} => n \in garbled \/ name = n

\* No descriptor refers to the pair of a later call, and none that the current call found
\* refers to its own.
HeldOK ==
  /\ \A p \in Procs, f \in Fds, m \in Calls :
       table[p][f] \in {master_of(m), slave_of(m)} => m <= n
  /\ pc # "idle" =>
       \A f \in Fds, m \in Calls : entry[f] \in {master_of(m), slave_of(m)} => m < n

\* The child of call c: its slave, and who else refers to the pair.
OnSlave(c) ==
  \E m \in Calls : /\ table[c][slave[c]] = slave_of(m)
                   /\ cpc[c] = "dup" => ctty[m] = c
                   /\ c \notin garbled =>
                        /\ m = c
                        /\ \A f \in Fds \ {slave[c]} : table[c][f] # slave_of(c)

ChildOK(c) ==
  /\ cpc[c] # "absent" => c < n \/ (c = n /\ pc \in {"parent", "idle"})
  /\ cpc[c] = "close" => /\ master[c] # slave[c]
                         /\ \A f \in Fds \ {master[c]} : table[c][f] # master_of(c)
  /\ cpc[c] \in {"login", "dup"} => \A f \in Fds : table[c][f] # master_of(c)
  /\ cpc[c] \in {"close", "login", "dup"} => OnSlave(c)

\* A terminal is the caller's, or that of the child that has its slave.
CttyOK(m) ==
  ctty[m] \in Calls => cpc[ctty[m]] \in {"dup", "in"} /\ (ctty[m] = m \/ ctty[m] \in garbled)

PtyInv ==
  /\ PtyTypeOK /\ CallOK /\ HeldOK
  /\ \A c \in Calls : ChildOK(c) /\ CttyOK(c)
  /\ ChildOnSlave /\ ChildLeftOutOnlyByOwner

-----------------------------------------------------------------------------
(* Files and descriptors *)

\* The sides of different pairs are different files, and none is closed or another file.
LEMMA FilesDiffer ==
  /\ \A m \in Nat : master_of(m) \in Files /\ slave_of(m) \in Files
  /\ closed \in Files /\ other \in Files /\ closed # other
  /\ \A m, k : /\ master_of(m) # slave_of(k)
               /\ master_of(m) = master_of(k) => m = k
               /\ slave_of(m) = slave_of(k) => m = k
               /\ slave_of(m)[2] = m
  /\ \A m : /\ master_of(m) # closed /\ master_of(m) # other
            /\ slave_of(m) # closed /\ slave_of(m) # other
BY DEF Files, master_of, slave_of, closed, other

\* The caller is a process, and so is each child; the numbers are natural ones.
LEMMA ProcsAndFds ==
  /\ 0 \in Procs /\ 0 \notin Calls /\ Calls \subseteq Procs /\ Procs \subseteq Nat
  /\ None \notin Procs /\ None \notin Calls
  /\ 0 \in Fds /\ 1 \in Fds /\ 2 \in Fds /\ Fds \subseteq Nat
  /\ \A p \in Procs : p # 0 => p \in Calls
BY PtyAssumption DEF Procs, Calls, Fds

\* A new descriptor was closed.
LEMMA LowestIsClosed == \A t, f : f \in lowest(t) => f \in Fds /\ t[f] = closed
BY DEF lowest

\* Every step keeps the types.
LEMMA TypeStep == ASSUME PtyTypeOK, CallOK, \A c \in Calls : ChildOK(c), [Next]_vars PROVE PtyTypeOK'
<1> USE FilesDiffer, ProcsAndFds, LowestIsClosed
<1>1. CASE call
  BY <1>1, PtyAssumption DEF call, PtyTypeOK, PCs, Procs
<1>2. CASE sys_posix_openpt
  BY <1>2 DEF sys_posix_openpt, PtyTypeOK, PCs
<1>3. CASE grantpt \/ sys_unlockpt \/ openpty_returns
  BY <1>3 DEF grantpt, sys_unlockpt, openpty_returns, PtyTypeOK, PCs
<1>4. CASE sys_ptsname \/ other_ptsname
  BY <1>4 DEF sys_ptsname, other_ptsname, PtyTypeOK, CallOK, PCs, Procs
<1>5. CASE open_slave
  <2>1. CASE pc' = "bad"
    BY <1>5, <2>1 DEF open_slave, PtyTypeOK, PCs
  <2>2. CASE pc' # "bad"
    <3>1. name \in Calls /\ pc' = "opened"
      BY <1>5, <2>2 DEF open_slave, exists
    <3>2. PICK f \in lowest(table[0]) : /\ table' = [table EXCEPT ![0][f] = slave_of(name)]
                                        /\ slave' = [slave EXCEPT ![0] = f]
      BY <1>5, <2>2 DEF open_slave
    <3>3. table' \in [Procs -> [Fds -> Files]] /\ slave' \in [Procs -> Fds]
      BY <3>1, <3>2 DEF PtyTypeOK
    <3>4. ctty' \in [Calls -> Procs \cup {None}] /\ leader' \in BOOLEAN
      <4>1. ctty' = ctty \/ ctty' = [ctty EXCEPT ![name] = 0]
        BY <1>5, <2>2 DEF open_slave
      <4>2. leader' = leader \/ leader' = FALSE
        BY <1>5, <2>2 DEF open_slave
      <4>3. ctty' \in [Calls -> Procs \cup {None}]
        BY <3>1, <4>1 DEF PtyTypeOK
      <4>4. leader' \in BOOLEAN
        BY <4>2, Zenon DEF PtyTypeOK
      <4> QED BY <4>3, <4>4
    <3> QED BY <1>5, <3>1, <3>3, <3>4 DEF open_slave, PtyTypeOK, PCs
  <2> QED BY <2>1, <2>2
<1>6. CASE bad \/ forkpty_parent
  <2>1. table' \in [Procs -> [Fds -> Files]]
    BY <1>6 DEF bad, forkpty_parent, sys_close, PtyTypeOK
  <2> QED BY <1>6, <2>1 DEF bad, forkpty_parent, PtyTypeOK, PCs
<1>7. CASE forkpty
  BY <1>7 DEF forkpty, sys_close, PtyTypeOK, CallOK, PCs, CPCs
<1>8. ASSUME NEW c \in Calls, child_close(c) PROVE PtyTypeOK'
  BY <1>8 DEF child_close, sys_close, parentvars, PtyTypeOK, CPCs
<1>9. ASSUME NEW c \in Calls, login_session(c) PROVE PtyTypeOK'
  <2>1. pair(c) \in Calls
    BY <1>9 DEF login_session, ChildOK, OnSlave, pair
  <2> QED BY <1>9, <2>1 DEF login_session, parentvars, PtyTypeOK, CPCs
<1>10. ASSUME NEW c \in Calls, login_dup(c) PROVE PtyTypeOK'
  <2>1. PICK t \in [Fds -> Files] : table' = [table EXCEPT ![c] = t]
    <3>1. ASSUME NEW t \in [Fds -> Files], NEW f \in Fds, NEW g \in Fds
          PROVE  sys_dup2(t, f, g) \in [Fds -> Files] /\ sys_close(t, f) \in [Fds -> Files]
      BY DEF sys_dup2, sys_close
    <3> QED BY <1>10, <3>1 DEF login_dup, PtyTypeOK
  <2> QED BY <1>10, <2>1 DEF login_dup, parentvars, PtyTypeOK, CPCs
<1>11. CASE UNCHANGED vars
  BY <1>11 DEF vars, PtyTypeOK
<1> QED
  BY <1>1, <1>2, <1>3, <1>4, <1>5, <1>6, <1>7, <1>8, <1>9, <1>10, <1>11 DEF Next, child_step

-----------------------------------------------------------------------------
(* The caller *)

Caller ==
  \/ call \/ sys_posix_openpt \/ grantpt \/ sys_unlockpt \/ sys_ptsname \/ other_ptsname
  \/ open_slave
  \/ bad \/ openpty_returns \/ forkpty \/ forkpty_parent

\* A child's step changes its own table and place, and the terminal that it takes.
LEMMA ChildFrame ==
  ASSUME PtyTypeOK, NEW c \in Calls, child_step(c)
  PROVE  /\ UNCHANGED parentvars
         /\ \A p \in Procs \ {c} : table'[p] = table[p]
         /\ \A d \in Calls \ {c} : cpc'[d] = cpc[d]
BY DEF child_step, child_close, login_session, login_dup, PtyTypeOK

\* The caller's steps leave the children alone, but for the one that fork makes.
LEMMA CallerFrame ==
  ASSUME PtyTypeOK, Caller, NEW c \in Calls, ~ (forkpty /\ pc' = "parent") \/ c # n
  PROVE  /\ table'[c] = table[c] /\ cpc'[c] = cpc[c]
         /\ master'[c] = master[c] /\ slave'[c] = slave[c]
<1> USE ProcsAndFds DEF PtyTypeOK
<1>1. CASE call \/ grantpt \/ sys_unlockpt \/ sys_ptsname \/ other_ptsname \/ openpty_returns
  BY <1>1 DEF call, grantpt, sys_unlockpt, sys_ptsname, other_ptsname, openpty_returns
<1>2. CASE sys_posix_openpt
  BY <1>2 DEF sys_posix_openpt
<1>3. CASE open_slave
  BY <1>3 DEF open_slave
<1>4. CASE bad \/ forkpty_parent
  BY <1>4 DEF bad, forkpty_parent
<1>5. CASE forkpty
  BY <1>5 DEF forkpty
<1> QED BY <1>1, <1>2, <1>3, <1>4, <1>5 DEF Caller

\* What a call has put into the caller's table is what it takes out again.
LEMMA CallStep ==
  ASSUME PtyTypeOK, CallOK, [Next]_vars
  PROVE  CallOK'
<1> USE FilesDiffer, ProcsAndFds, LowestIsClosed
<1>1. CASE call
  <2>1. n' \in Calls
    BY <1>1, PtyAssumption DEF call, PtyTypeOK, Procs, Calls
  <2> QED BY <1>1, <2>1 DEF call, CallOK
<1>2. CASE sys_posix_openpt
  <2>1. CASE pc' = "idle"
    BY <1>2, <2>1 DEF sys_posix_openpt, CallOK
  <2>2. CASE pc' # "idle"
    <3>1. PICK f \in lowest(table[0]) : /\ table' = [table EXCEPT ![0][f] = master_of(n)]
                                        /\ master' = [master EXCEPT ![0] = f]
      BY <1>2, <2>2 DEF sys_posix_openpt
    <3>2. table[0] = entry /\ n \in Calls /\ UNCHANGED <<n, entry>> /\ pc' = "grant"
      BY <1>2, <2>2 DEF sys_posix_openpt, CallOK
    <3>3. entry'[master'[0]] = closed /\ table'[0] = with_master'
      BY <3>1, <3>2 DEF PtyTypeOK, with_master
    <3> QED BY <3>2, <3>3 DEF CallOK
  <2> QED BY <2>1, <2>2
<1>3. CASE grantpt \/ sys_unlockpt \/ sys_ptsname \/ other_ptsname
  BY <1>3 DEF grantpt, sys_unlockpt, sys_ptsname, other_ptsname, CallOK, with_master
<1>4. CASE openpty_returns
  BY <1>4 DEF openpty_returns, CallOK, with_master, with_pair, PtyTypeOK
<1>5. CASE open_slave
  <2>1. CASE pc' = "bad"
    BY <1>5, <2>1 DEF open_slave, CallOK, with_master
  <2>2. CASE pc' # "bad"
    <3>1. PICK f \in lowest(table[0]) : /\ table' = [table EXCEPT ![0][f] = slave_of(name)]
                                        /\ slave' = [slave EXCEPT ![0] = f]
      BY <1>5, <2>2 DEF open_slave
    <3>2. /\ table[0] = with_master /\ n \in Calls /\ name \in Calls /\ entry[master[0]] = closed
          /\ UNCHANGED <<n, entry, master, name, garbled>> /\ pc = "open" /\ pc' = "opened"
      BY <1>5, <2>2 DEF open_slave, exists, CallOK
    <3>3. entry[f] = closed /\ f # master[0]
      <4>1. f \in Fds /\ with_master[f] = closed
        BY <3>1, <3>2
      <4>2. with_master[f] = IF f = master[0] THEN master_of(n) ELSE entry[f]
        BY <4>1 DEF PtyTypeOK, with_master
      <4> QED BY <4>1, <4>2
    <3>4. table'[0] = with_pair'
      BY <3>1, <3>2, <3>3 DEF PtyTypeOK, with_master, with_pair
    <3>5. slave'[0] = f
      BY <3>1 DEF PtyTypeOK
    <3> QED BY <3>2, <3>3, <3>4, <3>5 DEF CallOK
  <2> QED BY <2>1, <2>2
<1>6. CASE bad
  <2>1. table'[0] = [with_master EXCEPT ![master[0]] = closed] /\ entry[master[0]] = closed
    BY <1>6 DEF bad, sys_close, PtyTypeOK, CallOK
  <2>2. table'[0] = entry
    BY <2>1 DEF with_master, PtyTypeOK
  <2> QED BY <1>6, <2>2 DEF bad, CallOK
<1>7. CASE forkpty
  <2>1. CASE pc' = "parent"
    <3>1. table'[0] = table[0] /\ master'[0] = master[0] /\ slave'[0] = slave[0]
      BY <1>7, <2>1 DEF forkpty, CallOK, PtyTypeOK
    <3> QED BY <1>7, <2>1, <3>1 DEF forkpty, CallOK, with_pair
  <2>2. CASE pc' # "parent"
    <3>1. /\ table'[0] = [[with_pair EXCEPT ![master[0]] = closed] EXCEPT ![slave[0]] = closed]
          /\ entry[master[0]] = closed /\ entry[slave[0]] = closed
      BY <1>7, <2>2 DEF forkpty, sys_close, PtyTypeOK, CallOK
    <3>2. table'[0] = entry
      BY <3>1 DEF with_pair, PtyTypeOK
    <3> QED BY <1>7, <2>2, <3>2 DEF forkpty, CallOK
  <2> QED BY <2>1, <2>2
<1>8. CASE forkpty_parent
  <2>1. /\ table'[0] = [with_pair EXCEPT ![slave[0]] = closed] /\ entry[slave[0]] = closed
        /\ entry[master[0]] = closed /\ master[0] # slave[0]
    BY <1>8 DEF forkpty_parent, sys_close, PtyTypeOK, CallOK
  <2>2. table'[0] = with_master
    BY <2>1 DEF with_pair, with_master, PtyTypeOK
  <2> QED BY <1>8, <2>1, <2>2 DEF forkpty_parent, CallOK, with_master
<1>9. CASE \E c \in Calls : child_step(c)
  <2>1. UNCHANGED parentvars /\ table'[0] = table[0]
    BY <1>9, ChildFrame
  <2> QED BY <2>1 DEF parentvars, CallOK, with_master, with_pair
<1>10. CASE UNCHANGED vars
  BY <1>10 DEF vars, CallOK, with_master, with_pair
<1> QED
  BY <1>1, <1>2, <1>3, <1>4, <1>5, <1>6, <1>7, <1>8, <1>9, <1>10 DEF Next

\* A descriptor is closed, has what some descriptor had, or is a side of the new pair or of
\* an existing one.
LEMMA TableFrom ==
  ASSUME PtyTypeOK, CallOK, [Next]_vars, NEW p \in Procs, NEW f \in Fds
  PROVE  \/ table'[p][f] = closed \/ table'[p][f] = master_of(n)
         \/ \E q \in Procs, g \in Fds : table'[p][f] = table[q][g]
         \/ table'[p][f] = slave_of(name) /\ exists(name)
<1> USE ProcsAndFds, LowestIsClosed
<1>0. CASE table' = table
  BY <1>0
<1>1. CASE sys_posix_openpt
  <2>1. table'[p][f] = table[p][f] \/ table'[p][f] = master_of(n)
    BY <1>1 DEF sys_posix_openpt, PtyTypeOK
  <2> QED BY <2>1
<1>2. CASE open_slave
  <2>1. CASE pc' = "bad"
    BY <1>2, <2>1 DEF open_slave
  <2>2. CASE pc' # "bad"
    <3>1. PICK g \in Fds : table' = [table EXCEPT ![0][g] = slave_of(name)]
      BY <1>2, <2>2 DEF open_slave
    <3>2. exists(name)
      BY <1>2, <2>2 DEF open_slave
    <3>3. table'[p][f] = slave_of(name) \/ table'[p][f] = table[p][f]
      BY <3>1 DEF PtyTypeOK
    <3> QED BY <3>2, <3>3
  <2> QED BY <2>1, <2>2
<1>3. CASE bad \/ forkpty_parent
  <2>1. table'[p][f] = table[p][f] \/ table'[p][f] = closed
    BY <1>3 DEF bad, forkpty_parent, sys_close, PtyTypeOK
  <2> QED BY <2>1
<1>4. CASE forkpty
  <2>1. table'[p][f] = table[p][f] \/ table'[p][f] = table[0][f] \/ table'[p][f] = closed
    <3>1. CASE table' = [table EXCEPT ![n] = table[0]]
      BY <3>1 DEF PtyTypeOK
    <3>2. CASE table' = [table EXCEPT ![0] = sys_close(sys_close(@, master[0]), slave[0])]
      BY <3>2 DEF PtyTypeOK, sys_close
    <3> QED BY <1>4, <3>1, <3>2 DEF forkpty
  <2> QED BY <2>1
<1>5. CASE \E c \in Calls : child_close(c)
  <2>1. table'[p][f] = table[p][f] \/ table'[p][f] = closed
    BY <1>5 DEF child_close, sys_close, PtyTypeOK
  <2> QED BY <2>1
<1>6. CASE \E c \in Calls : login_dup(c)
  <2>1. PICK c \in Calls : login_dup(c)
    BY <1>6
  <2> DEFINE s == slave[c]
             t == sys_dup2(sys_dup2(sys_dup2(table[c], s, 0), s, 1), s, 2)
  <2>2. s \in Fds /\ table[c] \in [Fds -> Files]
    BY DEF PtyTypeOK
  <2>3. t[f] \in {table[c][s], table[c][f]} /\ t \in [Fds -> Files]
    BY <2>2 DEF sys_dup2
  <2>4. table' = [table EXCEPT ![c] = IF s > 2 THEN sys_close(t, s) ELSE t]
    BY <2>1 DEF login_dup
  <2> HIDE DEF t, s
  <2>5. table'[p][f] = table[p][f] \/ table'[p][f] = t[f] \/ table'[p][f] = closed
    BY <2>3, <2>4 DEF PtyTypeOK, sys_close
  <2> QED BY <2>2, <2>3, <2>5
<1> QED
  BY <1>0, <1>1, <1>2, <1>3, <1>4, <1>5, <1>6
  DEF Next, child_step, call, grantpt, sys_unlockpt, sys_ptsname, other_ptsname, openpty_returns,
      login_session, vars

\* No table ever refers to the pair of a later call.
LEMMA HeldStep ==
  ASSUME PtyTypeOK, CallOK, HeldOK, [Next]_vars
  PROVE  HeldOK'
<1> USE FilesDiffer, ProcsAndFds
<1>0. n' = n \/ call
  BY DEF Next, sys_posix_openpt, grantpt, sys_unlockpt, sys_ptsname, other_ptsname,
         open_slave, bad, openpty_returns, forkpty, forkpty_parent, child_step, child_close,
         login_session, login_dup, parentvars, vars
<1>1. n \in Nat /\ n' \in Nat /\ (n' = n \/ call)
  BY <1>0 DEF call, PtyTypeOK
<1>2. n <= n'
  BY <1>1 DEF call
<1>3. ASSUME NEW p \in Procs, NEW f \in Fds, NEW m \in Calls,
             table'[p][f] \in {master_of(m), slave_of(m)}
      PROVE  m <= n
  <2>1. CASE table'[p][f] = master_of(n)
    BY <1>1, <1>3, <2>1
  <2>2. CASE \E q \in Procs, g \in Fds : table'[p][f] = table[q][g]
    BY <1>3, <2>2 DEF HeldOK
  <2>3. CASE table'[p][f] = slave_of(name) /\ exists(name)
    BY <1>3, <2>3 DEF HeldOK, exists
  <2> QED BY <1>3, <2>1, <2>2, <2>3, TableFrom
<1>4. ASSUME NEW f \in Fds, NEW m \in Calls, pc' # "idle",
             entry'[f] \in {master_of(m), slave_of(m)}
      PROVE  m < n'
  <2>1. CASE call
    BY <1>1, <1>4, <2>1 DEF call, HeldOK
  <2>2. CASE ~ call
    <3>1. entry' = entry /\ (pc' = "idle" \/ pc # "idle")
      BY <2>2 DEF Next, Caller, sys_posix_openpt, grantpt, sys_unlockpt, sys_ptsname, other_ptsname,
         open_slave, bad, openpty_returns, forkpty, forkpty_parent, child_step, child_close,
         login_session, login_dup, parentvars, vars
    <3> QED BY <1>1, <1>4, <2>2, <3>1 DEF HeldOK
  <2> QED BY <2>1, <2>2
<1> QED BY <1>1, <1>2, <1>3, <1>4 DEF HeldOK

-----------------------------------------------------------------------------
(* The children *)

\* A terminal keeps its session, and what is undefined stays so.
LEMMA CttyKeeps ==
  ASSUME PtyTypeOK, [Next]_vars
  PROVE  /\ \A m \in Calls : ctty[m] # None => ctty'[m] = ctty[m]
         /\ garbled \subseteq garbled'
<1>1. CASE open_slave
  BY <1>1 DEF open_slave, PtyTypeOK
<1>2. CASE \E c \in Calls : login_session(c)
  BY <1>2 DEF login_session, PtyTypeOK, parentvars
<1> QED
  BY <1>1, <1>2 DEF Next, child_step, call, sys_posix_openpt, grantpt, sys_unlockpt, sys_ptsname,
     other_ptsname, bad, openpty_returns, forkpty, forkpty_parent, child_close, login_dup,
     parentvars, vars

\* Nothing of a child changes that neither takes a step nor is made by fork.
LEMMA ChildRests ==
  ASSUME PtyTypeOK, HeldOK, NEW c \in Calls, ChildOK(c), [Next]_vars, ~ child_step(c),
         ~ (forkpty /\ pc' = "parent" /\ c = n)
  PROVE  /\ table'[c] = table[c] /\ cpc'[c] = cpc[c] /\ master'[c] = master[c] /\ slave'[c] = slave[c]
         /\ ChildOK(c)'
<1>1. table'[c] = table[c] /\ cpc'[c] = cpc[c] /\ master'[c] = master[c] /\ slave'[c] = slave[c]
  <2>1. CASE Caller
    BY <2>1, CallerFrame
  <2>2. CASE \E d \in Calls : child_step(d)
    <3>1. PICK d \in Calls : child_step(d)
      BY <2>2
    <3> QED BY <3>1, ChildFrame, ProcsAndFds DEF parentvars
  <2>3. CASE UNCHANGED vars
    BY <2>3 DEF vars
  <2> QED BY <2>1, <2>2, <2>3 DEF Next, Caller
<1>2. cpc[c] # "absent" => c < n' \/ (c = n' /\ pc' \in {"parent", "idle"})
  <2> SUFFICES ASSUME cpc[c] # "absent" PROVE c < n' \/ (c = n' /\ pc' \in {"parent", "idle"})
    OBVIOUS
  <2>1. n \in Nat /\ c \in Nat /\ (c < n \/ (c = n /\ pc \in {"parent", "idle"}))
    BY ProcsAndFds DEF PtyTypeOK, ChildOK
  <2>2. CASE call
    BY <2>1, <2>2 DEF call
  <2>3. CASE ~ call
    <3>1. n' = n /\ (pc' = pc \/ pc' = "idle" \/ pc \notin {"parent", "idle"})
      BY <2>3 DEF Next, child_step, sys_posix_openpt, grantpt, sys_unlockpt, sys_ptsname,
         other_ptsname, open_slave, bad, openpty_returns, forkpty, forkpty_parent, child_close, login_dup,
         login_session, parentvars, vars
    <3> QED BY <2>1, <3>1
  <2> QED BY <2>2, <2>3
<1>3. OnSlave(c) => OnSlave(c)'
  BY <1>1, CttyKeeps, ProcsAndFds DEF OnSlave
<1> QED BY <1>1, <1>2, <1>3 DEF ChildOK

\* The child that fork makes has the caller's table, with the pair of the call in it.
LEMMA ChildForked ==
  ASSUME PtyTypeOK, CallOK, HeldOK, forkpty, pc' = "parent"
  PROVE  ChildOK(n)' /\ n' = n /\ n \in Calls /\ cpc'[n] = "close"
<1> USE FilesDiffer, ProcsAndFds
<1>1. /\ n \in Calls /\ name \in Calls /\ table[0] = with_pair
      /\ entry[master[0]] = closed /\ entry[slave[0]] = closed /\ master[0] # slave[0]
      /\ n \in garbled \/ name = n
  BY DEF forkpty, CallOK
<1>2. /\ n' = n /\ table'[n] = table[0] /\ master'[n] = master[0] /\ slave'[n] = slave[0]
      /\ cpc'[n] = "close" /\ garbled' = garbled
  BY <1>1 DEF forkpty, PtyTypeOK
<1>3. master[0] \in Fds /\ slave[0] \in Fds
  BY DEF PtyTypeOK
<1>4. \A f \in Fds : with_pair[f] = IF f = slave[0] THEN slave_of(name)
                                    ELSE IF f = master[0] THEN master_of(n) ELSE entry[f]
  BY <1>3 DEF with_pair, PtyTypeOK
<1>5. \A f \in Fds : entry[f] # master_of(n) /\ entry[f] # slave_of(n)
  BY <1>1 DEF forkpty, HeldOK
<1>6. \A f \in Fds \ {master[0]} : table[0][f] # master_of(n)
  BY <1>1, <1>4, <1>5
<1>7. table[0][slave[0]] = slave_of(name)
  BY <1>1, <1>3, <1>4
<1>8. n \notin garbled => name = n /\ \A f \in Fds \ {slave[0]} : table[0][f] # slave_of(n)
  BY <1>1, <1>4, <1>5
<1>9. OnSlave(n)'
  BY <1>1, <1>2, <1>7, <1>8 DEF OnSlave
<1> QED BY <1>1, <1>2, <1>6, <1>9 DEF ChildOK, forkpty

\* A child's own step: it gives up the master, takes the terminal and duplicates the slave.
LEMMA ChildOwnStep ==
  ASSUME PtyTypeOK, NEW c \in Calls, ChildOK(c), child_step(c)
  PROVE  ChildOK(c)'
<1> USE FilesDiffer, ProcsAndFds
<1>0. UNCHANGED parentvars /\ slave[c] \in Fds /\ master[c] \in Fds /\ table[c] \in [Fds -> Files]
  BY ChildFrame DEF PtyTypeOK
<1>1. CASE child_close(c)
  <2>1. /\ cpc[c] = "close" /\ cpc'[c] = "login" /\ ctty' = ctty
        /\ \A f \in Fds : table'[c][f] = IF f = master[c] THEN closed ELSE table[c][f]
    BY <1>1 DEF child_close, sys_close, PtyTypeOK
  <2>2. master[c] # slave[c] /\ \A f \in Fds \ {master[c]} : table[c][f] # master_of(c)
    BY <2>1 DEF ChildOK
  <2>3. OnSlave(c)'
    <3>1. OnSlave(c)
      BY <2>1 DEF ChildOK
    <3> QED BY <1>0, <2>1, <2>2, <3>1 DEF OnSlave, parentvars
  <2> QED BY <1>0, <2>1, <2>2, <2>3 DEF ChildOK, parentvars
<1>2. CASE login_session(c)
  <2>1. PICK m \in Calls : /\ table[c][slave[c]] = slave_of(m)
                           /\ c \notin garbled =>
                                /\ m = c
                                /\ \A f \in Fds \ {slave[c]} : table[c][f] # slave_of(c)
    BY <1>2 DEF login_session, ChildOK, OnSlave
  <2>2. pair(c) = m
    BY <2>1 DEF pair
  <2>3. cpc'[c] = "dup" => ctty'[m] = c
    BY <1>2, <2>2 DEF login_session, PtyTypeOK
  <2>4. cpc[c] = "login" /\ table' = table /\ cpc'[c] \in {"dup", "out"}
    BY <1>2 DEF login_session, PtyTypeOK
  <2>5. OnSlave(c)'
    BY <1>0, <2>1, <2>3, <2>4 DEF OnSlave, parentvars
  <2> QED BY <1>0, <2>4, <2>5 DEF ChildOK, parentvars
<1>3. CASE login_dup(c)
  <2>1. cpc[c] = "dup" /\ cpc'[c] = "in"
    BY <1>3 DEF login_dup, PtyTypeOK
  <2> QED BY <1>0, <2>1 DEF ChildOK, parentvars
<1> QED BY <1>1, <1>2, <1>3 DEF child_step

\* Every child is where ChildOK says, whoever takes the step.
LEMMA ChildStep ==
  ASSUME PtyTypeOK, CallOK, HeldOK, \A c \in Calls : ChildOK(c), [Next]_vars
  PROVE  \A c \in Calls : ChildOK(c)'
<1> TAKE c \in Calls
<1>1. CASE child_step(c)
  BY <1>1, ChildOwnStep
<1>2. CASE forkpty /\ pc' = "parent" /\ c = n
  BY <1>2, ChildForked
<1>3. CASE ~ child_step(c) /\ ~ (forkpty /\ pc' = "parent" /\ c = n)
  BY <1>3, ChildRests
<1> QED BY <1>1, <1>2, <1>3

\* A child that has a terminal is not made again: fork makes the child of the current call.
LEMMA TakenStays ==
  ASSUME PtyTypeOK, CallOK, HeldOK, NEW c \in Calls, ChildOK(c), [Next]_vars
  PROVE  /\ cpc[c] \in {"dup", "in"} => cpc'[c] \in {"dup", "in"}
         /\ cpc[c] \in {"in", "out"} => cpc'[c] = cpc[c] /\ table'[c] = table[c]
<1>1. CASE child_step(c)
  BY <1>1 DEF child_step, child_close, login_session, login_dup, PtyTypeOK
<1>2. CASE forkpty /\ pc' = "parent" /\ c = n
  <2>1. cpc[c] = "absent"
    BY <1>2, ProcsAndFds DEF ChildOK, forkpty
  <2> QED BY <2>1
<1>3. CASE ~ child_step(c) /\ ~ (forkpty /\ pc' = "parent" /\ c = n)
  BY <1>3, ChildRests
<1> QED BY <1>1, <1>2, <1>3

\* Only the caller, the child of the pair, or one with an undefined name takes a terminal.
LEMMA CttyStep ==
  ASSUME PtyTypeOK, CallOK, HeldOK, \A c \in Calls : ChildOK(c) /\ CttyOK(c), [Next]_vars
  PROVE  \A m \in Calls : CttyOK(m)'
<1> USE ProcsAndFds
<1> TAKE m \in Calls
<1>1. CASE ctty'[m] = ctty[m]
  BY <1>1, TakenStays, CttyKeeps DEF CttyOK
<1>2. CASE ctty'[m] # ctty[m]
  <2>1. CASE open_slave
    BY <1>2, <2>1 DEF open_slave, PtyTypeOK, CttyOK
  <2>2. CASE ~ open_slave
    <3>1. PICK c \in Calls : login_session(c)
      BY <1>2, <2>2 DEF Next, child_step, call, sys_posix_openpt, grantpt, sys_unlockpt, sys_ptsname,
         other_ptsname, bad, openpty_returns, forkpty, forkpty_parent, child_close, login_dup,
         parentvars, vars
    <3>2. pair(c) \in Calls /\ (c \in garbled \/ pair(c) = c)
      BY <3>1, FilesDiffer DEF login_session, ChildOK, OnSlave, pair
    <3>3. m = pair(c) /\ ctty'[m] = c /\ cpc'[c] = "dup" /\ garbled' = garbled
      BY <1>2, <3>1, <3>2 DEF login_session, parentvars, PtyTypeOK
    <3> QED BY <3>2, <3>3 DEF CttyOK
  <2> QED BY <2>1, <2>2
<1> QED BY <1>1, <1>2

\* login_tty's three duplicates, and the close of the slave unless it is one of them.
LEMMA DupTable ==
  ASSUME PtyTypeOK, NEW c \in Calls, login_dup(c), NEW f \in Fds
  PROVE  table'[c][f] = IF f \in 0..2 THEN table[c][slave[c]]
                        ELSE IF f = slave[c] THEN closed ELSE table[c][f]
<1> DEFINE s == slave[c]
           t == sys_dup2(sys_dup2(sys_dup2(table[c], s, 0), s, 1), s, 2)
<1>1. s \in Fds /\ table[c] \in [Fds -> Files] /\ s \in Nat /\ f \in Nat
  BY ProcsAndFds DEF PtyTypeOK
<1>2. t \in [Fds -> Files] /\ t[f] = IF f \in 0..2 THEN table[c][s] ELSE table[c][f]
  BY <1>1, ProcsAndFds DEF sys_dup2
<1>3. table'[c] = IF s > 2 THEN sys_close(t, s) ELSE t
  BY ProcsAndFds DEF login_dup, PtyTypeOK
<1> HIDE DEF t, s
<1>4. table'[c][f] = IF s > 2 /\ f = s THEN closed ELSE t[f]
  BY <1>1, <1>2, <1>3 DEF sys_close
<1>5. f = s /\ f \notin 0..2 => s > 2
  BY <1>1
<1>6. s > 2 /\ f = s => f \notin 0..2
  BY <1>1
<1> QED BY <1>2, <1>4, <1>5, <1>6 DEF s

\* A child that login_tty has moved to its terminal is there, and stays.
LEMMA OnSlaveStep ==
  ASSUME PtyTypeOK, CallOK, HeldOK, \A c \in Calls : ChildOK(c), ChildOnSlave, [Next]_vars
  PROVE  ChildOnSlave'
<1> USE FilesDiffer, ProcsAndFds
<1> SUFFICES ASSUME NEW c \in Calls, cpc'[c] = "in"
             PROVE  \E m \in Calls : /\ 0..2 \subseteq {f \in Fds : table'[c][f] = slave_of(m)}
                                     /\ ctty'[m] = c
                                     /\ {f \in Fds : table'[c][f] = master_of(c)} = {}
                                     /\ c \notin garbled' =>
                                          m = c /\ {f \in Fds : table'[c][f] = slave_of(m)} = 0..2
  BY DEF ChildOnSlave, fds_of
<1>1. CASE cpc[c] = "in"
  <2>1. table'[c] = table[c]
    BY <1>1, TakenStays
  <2>2. PICK m \in Calls : /\ 0..2 \subseteq {f \in Fds : table[c][f] = slave_of(m)}
                           /\ ctty[m] = c
                           /\ {f \in Fds : table[c][f] = master_of(c)} = {}
                           /\ c \notin garbled =>
                                m = c /\ {f \in Fds : table[c][f] = slave_of(m)} = 0..2
    BY <1>1 DEF ChildOnSlave, fds_of
  <2>3. ctty'[m] = c /\ (c \notin garbled' => c \notin garbled)
    BY <2>2, CttyKeeps
  <2> QED BY <2>1, <2>2, <2>3
<1>2. CASE cpc[c] # "in"
  <2>1. login_dup(c)
    <3>1. CASE child_step(c)
      BY <1>2, <3>1 DEF child_step, child_close, login_session, PtyTypeOK
    <3>2. CASE forkpty /\ pc' = "parent" /\ c = n
      BY <3>2, ChildForked
    <3>3. CASE ~ child_step(c) /\ ~ (forkpty /\ pc' = "parent" /\ c = n)
      BY <1>2, <3>3, ChildRests
    <3> QED BY <3>1, <3>2, <3>3
  <2>2. PICK m \in Calls : /\ table[c][slave[c]] = slave_of(m) /\ ctty[m] = c
                           /\ c \notin garbled =>
                                m = c /\ \A f \in Fds \ {slave[c]} : table[c][f] # slave_of(c)
    BY <2>1 DEF login_dup, ChildOK, OnSlave
  <2>3. \A f \in Fds : table[c][f] # master_of(c)
    BY <2>1 DEF login_dup, ChildOK
  <2>4. \A f \in Fds : table'[c][f] = IF f \in 0..2 THEN slave_of(m)
                                      ELSE IF f = slave[c] THEN closed ELSE table[c][f]
    BY <2>1, <2>2, DupTable
  <2>5. ctty' = ctty /\ garbled' = garbled
    BY <2>1 DEF login_dup, parentvars
  <2>6. 0..2 \subseteq Fds
    BY PtyAssumption DEF Fds
  <2>7. {f \in Fds : table'[c][f] = master_of(c)} = {}
    <3>1. \A f \in Fds : table'[c][f] # master_of(c)
      <4> TAKE f \in Fds
      <4>1. CASE f \in 0..2 \/ f = slave[c]
        <5>1. table'[c][f] = slave_of(m) \/ table'[c][f] = closed
          BY <2>4, <4>1
        <5> QED BY <5>1
      <4>2. CASE f \notin 0..2 /\ f # slave[c]
        BY <2>3, <2>4, <4>2
      <4> QED BY <4>1, <4>2
    <3> QED BY <3>1, Zenon
  <2>8. c \notin garbled => \A f \in Fds : table'[c][f] = slave_of(m) <=> f \in 0..2
    BY <2>2, <2>4
  <2> QED BY <2>2, <2>4, <2>5, <2>6, <2>7, <2>8
<1> QED BY <1>1, <1>2

\* A child that found its terminal taken found it taken by the caller, or a name was undefined.
LEMMA LeftOutStep ==
  ASSUME PtyTypeOK, CallOK, HeldOK, \A c \in Calls : ChildOK(c) /\ CttyOK(c),
         ChildLeftOutOnlyByOwner, [Next]_vars
  PROVE  ChildLeftOutOnlyByOwner'
<1> USE FilesDiffer, ProcsAndFds
<1> SUFFICES ASSUME NEW c \in Calls, cpc'[c] = "out"
             PROVE  c \in garbled' \/ ctty'[c] \in garbled' \cup {0}
  BY DEF ChildLeftOutOnlyByOwner
<1>0. garbled \subseteq garbled' /\ (ctty[c] # None => ctty'[c] = ctty[c])
  BY CttyKeeps
<1>1. CASE cpc[c] = "out"
  <2>1. c \in garbled \/ ctty[c] \in garbled \cup {0}
    BY <1>1 DEF ChildLeftOutOnlyByOwner
  <2> QED BY <1>0, <2>1 DEF PtyTypeOK
<1>2. CASE cpc[c] # "out"
  <2>1. login_session(c)
    <3>1. CASE child_step(c)
      BY <1>2, <3>1 DEF child_step, child_close, login_dup, PtyTypeOK
    <3>2. CASE forkpty /\ pc' = "parent" /\ c = n
      BY <3>2, ChildForked
    <3>3. CASE ~ child_step(c) /\ ~ (forkpty /\ pc' = "parent" /\ c = n)
      BY <1>2, <3>3, ChildRests
    <3> QED BY <3>1, <3>2, <3>3
  <2>2. ctty[pair(c)] # None /\ cpc[c] = "login"
    BY <2>1 DEF login_session, PtyTypeOK
  <2>3. c \in garbled \/ pair(c) = c
    BY <2>1 DEF login_session, ChildOK, OnSlave, pair
  <2>4. CASE c \notin garbled
    <3>1. ctty[c] # c
      BY <2>2 DEF CttyOK
    <3>2. ctty[c] \in Calls \cup {0}
      BY <2>2, <2>3, <2>4 DEF PtyTypeOK
    <3>3. ctty[c] \in garbled \cup {0}
      BY <3>1, <3>2 DEF CttyOK
    <3> QED BY <1>0, <2>2, <2>3, <2>4, <3>3
  <2> QED BY <1>0, <2>4
<1> QED BY <1>1, <1>2

-----------------------------------------------------------------------------
(* The inductive invariant *)

\* What the first state is like: the caller has other files open, and no child exists.
LEMMA PtyInit == Init => PtyInv
<1> USE FilesDiffer, ProcsAndFds
<1> SUFFICES ASSUME Init PROVE PtyInv
  OBVIOUS
<1>1. \A p \in Procs, f \in Fds : table[p][f] \in {other, closed}
  BY DEF Init
<1>2. PtyTypeOK
  <2>1. table \in [Procs -> [Fds -> Files]] /\ entry \in [Fds -> Files]
    <3>1. PICK open \in SUBSET (0..2) :
            table = [p \in Procs |-> [f \in Fds |-> IF f \in open THEN other ELSE closed]]
      BY DEF Init
    <3>2. [f \in Fds |-> IF f \in open THEN other ELSE closed] \in [Fds -> Files]
      OBVIOUS
    <3>3. entry = table[0]
      BY DEF Init
    <3> QED BY <3>1, <3>2, <3>3
  <2> QED BY <2>1 DEF Init, PtyTypeOK, PCs, CPCs
<1>3. CallOK
  BY DEF Init, CallOK
<1>4. HeldOK
  BY <1>1 DEF Init, HeldOK
<1>5. \A c \in Calls : ChildOK(c) /\ CttyOK(c)
  BY DEF Init, ChildOK, CttyOK
<1>6. ChildOnSlave /\ ChildLeftOutOnlyByOwner
  BY DEF Init, ChildOnSlave, ChildLeftOutOnlyByOwner
<1> QED BY <1>2, <1>3, <1>4, <1>5, <1>6 DEF PtyInv

\* The invariant is inductive.
LEMMA PtyNext == PtyInv /\ [Next]_vars => PtyInv'
<1> SUFFICES ASSUME PtyInv, [Next]_vars PROVE PtyInv'
  OBVIOUS
<1>1. /\ PtyTypeOK /\ CallOK /\ HeldOK /\ \A c \in Calls : ChildOK(c) /\ CttyOK(c)
      /\ ChildOnSlave /\ ChildLeftOutOnlyByOwner
  BY DEF PtyInv
<1>2. PtyTypeOK' /\ CallOK' /\ HeldOK'
  BY <1>1, TypeStep, CallStep, HeldStep
<1>3. (\A c \in Calls : ChildOK(c)') /\ (\A c \in Calls : CttyOK(c)')
  BY <1>1, ChildStep, CttyStep
<1>4. ChildOnSlave' /\ ChildLeftOutOnlyByOwner'
  BY <1>1, OnSlaveStep, LeftOutStep
<1> QED BY <1>2, <1>3, <1>4 DEF PtyInv

\* The invariant holds in every reachable state.
LEMMA PtyInvariant == Spec => []PtyInv
BY PtyInit, PtyNext, PTL DEF Spec

-----------------------------------------------------------------------------
(* Theorems *)

\* The tables, the local variables and the terminals of all processes have their types.
THEOREM PtyTypeCorrect == Spec => []PtyTypeOK
BY PtyInvariant, PTL DEF PtyInv

\* Whichever step of openpty or forkpty fails, the caller's descriptors are as they were.
THEOREM FailuresLeaveTable == Spec => []FailureLeavesTable
<1>1. PtyInv => FailureLeavesTable
  BY DEF PtyInv, CallOK, FailureLeavesTable
<1> QED BY <1>1, PtyInvariant, PTL

\* A call that succeeds adds its pair to descriptors that were free, and nothing else.
THEOREM SuccessesAddPair == Spec => []SuccessAddsPair
<1>1. PtyInv => SuccessAddsPair
  <2> SUFFICES ASSUME PtyInv, pc = "idle", ret = "ok"
               PROVE  /\ table[0][master[0]] = master_of(n) /\ entry[master[0]] = closed
                      /\ forks => table[0] = with_master
                      /\ ~forks => table[0][slave[0]] = slave_of(name) /\ table[0] = with_pair
    BY DEF SuccessAddsPair, with_master, with_pair
  <2>1. /\ entry[master[0]] = closed /\ master[0] # slave[0]
        /\ forks => table[0] = with_master
        /\ ~forks => table[0] = with_pair
    BY DEF PtyInv, CallOK
  <2>2. with_master[master[0]] = master_of(n)
    BY ProcsAndFds DEF PtyInv, PtyTypeOK, with_master
  <2>3. with_pair[master[0]] = master_of(n) /\ with_pair[slave[0]] = slave_of(name)
    BY <2>1, ProcsAndFds DEF PtyInv, PtyTypeOK, with_pair
  <2>4. forks \in BOOLEAN
    BY DEF PtyInv, PtyTypeOK
  <2> QED BY <2>1, <2>2, <2>3, <2>4
<1> QED BY <1>1, PtyInvariant, PTL

\* forkpty's child that login_tty has moved has its three standard descriptors on the slave,
\* no other on it and none on the master.
THEOREM ChildrenOnSlave == Spec => []ChildOnSlave
BY PtyInvariant, PTL DEF PtyInv

\* login_tty fails in forkpty's child only for the reasons that ChildLeftOutOnlyByOwner lists.
THEOREM ChildrenLeftOutOnlyByOwner == Spec => []ChildLeftOutOnlyByOwner
BY PtyInvariant, PTL DEF PtyInv

=============================================================================
