----------------------------- MODULE Descriptors -----------------------------
(***************************************************************************)
(* The descriptors of a process and the wrappers that make and change      *)
(* them (mlibc-salernos/sysdeps/generic/generic.cpp).  One thread of the   *)
(* program is in sys_accept, which sets the flags of the new descriptor by *)
(* later calls of fcntl; another makes any of the other calls meanwhile.   *)
(* The kernel is external: it hands out the lowest free descriptors and    *)
(* any call may fail, which changes nothing.                               *)
(***************************************************************************)
EXTENDS Naturals, FiniteSets

CONSTANTS
  MaxFd,     \* the highest descriptor
  MaxOpens,  \* the open files that the program and the library make
  MaxSteps   \* the calls that the program makes on descriptors

ASSUME DescriptorsAssumption == MaxFd \in Nat /\ MaxOpens \in Nat /\ MaxSteps \in Nat

Fds    == 0..MaxFd
Flags  == {"nonblock", "cloexec"}
closed == [via |-> "closed", owner |-> "none"]

VARIABLES
  fd,        \* each descriptor: closed or an entry
  nonblock,  \* the open files that have O_NONBLOCK
  opens,     \* the number of the last open file
  acc,       \* sys_accept: its descriptor and open file, and the flags left to set
  steps,     \* the calls made
  unset      \* open files whose flags an unsuccessful fcntl left as they were

dvars == <<fd, nonblock, opens, acc, steps, unset>>

\* A descriptor of open file n: who opened it, by which call, asking for which flags.
entry(n, owner, via, asked, flags) ==
  [desc |-> n, owner |-> owner, via |-> via, asked |-> asked, cloexec |-> "cloexec" \in flags]

open_fds == {f \in Fds : fd[f] # closed}
of_app   == {f \in open_fds : fd[f].owner = "app"}

\* The program changes no descriptor that sys_accept has not returned yet.
settled == {f \in of_app : acc.todo = {} \/ fd[f].desc # acc.desc}

DescriptorsInit ==
  /\ \E open \in {{}, {0}} :
       fd = [f \in Fds |-> IF f \in open THEN entry(0, "app", "start", {}, {}) ELSE closed]
  /\ nonblock = {} /\ opens = 0 /\ steps = 0 /\ unset = {}
  /\ acc = [fd |-> 0, desc |-> 0, todo |-> {}]

lowest == {f \in Fds \ open_fds : \A g \in Fds \ open_fds : f <= g}

\* A new open file, with the flags that the system call is given.
opened(f, owner, via, asked, flags) ==
  /\ f \in lowest /\ opens < MaxOpens
  /\ opens' = opens + 1
  /\ fd' = [fd EXCEPT ![f] = entry(opens', owner, via, asked, flags)]
  /\ nonblock' = IF "nonblock" \in flags THEN nonblock \cup {opens'} ELSE nonblock
  /\ UNCHANGED unset

sys_openat(flags)  == \E f \in Fds : opened(f, "app", "open", flags, flags) /\ UNCHANGED acc
sys_open(flags)    == sys_openat(flags)
sys_open_dir       == sys_open({})
sys_socket(flags)  == \E f \in Fds : opened(f, "app", "open", flags, flags) /\ UNCHANGED acc

\* The flags are dropped.
sys_pipe(flags) ==
  /\ opens + 1 < MaxOpens
  /\ \E f \in lowest : \E g \in Fds \ (open_fds \cup {f}) :
       /\ \A h \in Fds \ (open_fds \cup {f}) : g <= h
       /\ fd' = [fd EXCEPT ![f] = entry(opens + 1, "app", "pipe", flags, {}),
                           ![g] = entry(opens + 2, "app", "pipe", flags, {})]
  /\ opens' = opens + 2
  /\ UNCHANGED <<nonblock, acc, unset>>

\* What a duplicate of f is asked for: f's status flags and its own descriptor flag.
duplicate(f, flags) ==
  [fd[f] EXCEPT !.asked = (@ \ {"cloexec"}) \cup flags, !.cloexec = "cloexec" \in flags]

\* F_DUPFD; the library's dup passes no flags.
sys_dup(f) ==
  /\ f \in settled
  /\ \E g \in lowest : fd' = [fd EXCEPT ![g] = duplicate(f, {})]
  /\ UNCHANGED <<nonblock, opens, acc, unset>>

sys_dup2(f, flags, g) ==
  /\ f \in settled /\ f # g /\ g \in settled \cup (Fds \ open_fds)
  /\ fd' = [fd EXCEPT ![g] = duplicate(f, flags)]
  /\ UNCHANGED <<nonblock, opens, acc, unset>>

\* The program's own fcntl: F_SETFD.
sys_fcntl(f, flags) ==
  /\ f \in settled
  /\ fd' = [fd EXCEPT ![f] = duplicate(f, flags)]
  /\ UNCHANGED <<nonblock, opens, acc, unset>>

sys_close(f) ==
  /\ f \in settled
  /\ fd' = [fd EXCEPT ![f] = closed]
  /\ UNCHANGED <<nonblock, opens, acc, unset>>

-----------------------------------------------------------------------------
(* sys_accept *)

\* The connection gets a descriptor without flags.
accept(flags) ==
  /\ acc.todo = {}
  /\ \E f \in Fds :
       /\ opened(f, "app", "accept", flags, {})
       /\ acc' = [fd |-> f, desc |-> opens', todo |-> flags]

\* F_SETFL and F_SETFD on the new descriptor's number, and the result is not looked at.
\* The flag read before it by F_GETFL or F_GETFD is the one that is set.
fcntl_helper(flag) ==
  \/ /\ fd[acc.fd] # closed
     /\ fd' = [fd EXCEPT ![acc.fd].cloexec = @ \/ flag = "cloexec"]
     /\ nonblock' = IF flag = "nonblock" THEN nonblock \cup {fd[acc.fd].desc} ELSE nonblock
     /\ UNCHANGED unset
  \/ /\ unset' = unset \cup {acc.desc}
     /\ UNCHANGED <<fd, nonblock>>

accept_nonblock ==
  /\ "nonblock" \in acc.todo
  /\ fcntl_helper("nonblock")
  /\ acc' = [acc EXCEPT !.todo = @ \ {"nonblock"}]
  /\ UNCHANGED opens

\* Mutation: F_SETFL for F_SETFD.
accept_cloexec_setfl ==
  /\ acc.todo = {"cloexec"}
  /\ fcntl_helper("nonblock")
  /\ acc' = [acc EXCEPT !.todo = {}]
  /\ UNCHANGED opens

accept_cloexec ==
  /\ acc.todo = {"cloexec"}
  /\ fcntl_helper("cloexec")
  /\ acc' = [acc EXCEPT !.todo = {}]
  /\ UNCHANGED opens

Calls ==
  \/ \E flags \in SUBSET Flags :
       sys_open(flags) \/ sys_socket(flags) \/ sys_pipe(flags) \/ accept(flags)
  \/ sys_open_dir
  \/ \E f \in Fds : sys_dup(f) \/ sys_close(f)
  \/ \E f \in Fds : \E flags \in SUBSET {"cloexec"} :
       sys_fcntl(f, flags) \/ \E g \in Fds : sys_dup2(f, flags, g)

DescriptorsNext ==
  \/ steps < MaxSteps /\ steps' = steps + 1 /\ Calls
  \/ (accept_nonblock \/ accept_cloexec) /\ UNCHANGED steps

=============================================================================
