--------------------------- MODULE InitInterpreter ---------------------------
(***************************************************************************)
(* SalernOS's init: main (init/src/main.c) and the interpreter of its      *)
(* configuration (init/src/interpreter.c), with the processes that the     *)
(* tty directives fork.                                                    *)
(*                                                                         *)
(* init interprets one directive after the other.  Every tty directive     *)
(* forks a child, which prepares its terminal and then spins on its own    *)
(* copy of g_tty_lock; the SIGUSR1 that init sends to every child after    *)
(* the last directive runs handle_sigusr1, which clears that copy.         *)
(*                                                                         *)
(* What the kernel does (fork's choice of a pid, the delivery of signals,  *)
(* what exec does to their dispositions, who owns a terminal) is external. *)
(***************************************************************************)
EXTENDS InitTable, FiniteSets

CONSTANTS
  Pids,        \* the process ids that fork can return
  InitPid,     \* init's own process id
  Ttys,        \* the paths that name a terminal
  ChildSlots,  \* the length of g_children: 20
  Configs      \* the parsed configurations: sequences of directives

ASSUME InitAssumption == /\ InitPid \notin Pids
                         /\ ChildSlots \in Nat
                         /\ Configs \subseteq Seq(Seq(Seq(STRING)))

Procs == Pids \cup {InitPid}

VARIABLES
  directives,  \* what parse_config returned
  pc,          \* where init is
  i,           \* interpret_config: the directive being interpreted, from 1
  r,           \* interpret_config's result
  pid,         \* cb_tty: what fork returned to the parent
  g_children,  \* the recorded children, g_num_children = Len(g_children)
  k,           \* interpret_config: the next child to notify, from 1
  \* each process' copy of what it inherits by fork
  g_active_options, g_tty_lock, env, disposition,
  \* each child
  cpc,         \* where the child is
  d,           \* the index of the directive it was forked for
  pending,     \* the processes with a pending SIGUSR1
  \* the terminals
  leader,      \* the children that lead a session of their own
  owner,       \* the session that has the terminal as controlling terminal
  ttymode,     \* text or graphics
  refused,     \* the children whose terminal did not take the graphics mode
  cleared      \* the children that have cleared their screen

initvars  == <<directives, pc, i, r, pid, g_children, k>>
procvars  == <<g_active_options, g_tty_lock, env, disposition>>
childvars == <<cpc, d>>
ttyvars   == <<leader, owner, ttymode, refused, cleared>>
vars == <<initvars, procvars, childvars, pending, ttyvars>>

CPCs == {"none", "open", "session", "ctty", "mode", "wait", "clear", "exec",
         "running", "dead", "killed"}

TypeOK ==
  /\ directives \in Configs
  /\ pc \in {"load", "sigaction", "directive", "record", "notify", "exited", "overrun"}
  /\ i \in 1..(Len(directives) + 1)
  /\ r \in {"none", "ok", "err"}
  /\ pid \in Procs
  /\ g_children \in Seq(Pids)
  /\ Len(g_children) <= ChildSlots
  /\ k \in 1..(Len(g_children) + 1)
  /\ g_active_options \in [Procs -> SUBSET {TTY_TEXT, TTY_GFX, OPT_CLEAR}]
  /\ g_tty_lock \in [Procs -> {0, 1}]
  /\ env \in [Procs -> SUBSET (Seq(STRING) \X Seq(STRING))]
  /\ disposition \in [Procs -> {"default", "handler"}]
  /\ cpc \in [Pids -> CPCs]
  /\ d \in [Pids -> 0..Len(directives)]
  /\ \A p \in Pids : cpc[p] # "none" => d[p] # 0
  /\ pending \subseteq Pids
  /\ owner \in [Ttys -> Procs]
  /\ ttymode \in [Ttys -> {"text", "graphics"}]
  /\ leader \subseteq Pids /\ refused \subseteq Pids /\ cleared \subseteq Pids

Init ==
  /\ directives \in Configs
  /\ pc = "load"
  /\ i = 1
  /\ r = "none"
  /\ pid = InitPid
  /\ g_children = << >>
  /\ k = 1
  /\ g_active_options = [p \in Procs |-> {}]
  /\ g_tty_lock = [p \in Procs |-> 1]
  /\ env = [p \in Procs |-> {}]
  /\ disposition = [p \in Procs |-> "default"]
  /\ cpc = [p \in Pids |-> "none"]
  /\ d = [p \in Pids |-> 0]
  /\ pending = {}
  /\ owner = [t \in Ttys |-> InitPid]     \* InitPid: no session owns it
  /\ ttymode = [t \in Ttys |-> "text"]
  /\ leader = {} /\ refused = {} /\ cleared = {}

-----------------------------------------------------------------------------
(* The arguments of a directive as the callbacks read them. *)

tty_path(n) == eval_string(directives[n][2])
tty_mode(n) == eval_int(directives[n][3])

\* The tests that each callback makes before its effect: the number of
\* arguments, then the evaluation of every one of them.
env_valid(n) ==
  /\ "cb_env" \in callback(directives[n])
  /\ Len(directives[n]) = 3
  /\ eval_string(directives[n][2]) # {} /\ eval_string(directives[n][3]) # {}

enable_valid(n) ==
  /\ "cb_enable" \in callback(directives[n])
  /\ Len(directives[n]) = 2
  /\ eval_int(directives[n][2]) # {}

tty_valid(n) ==
  /\ "cb_tty" \in callback(directives[n])
  /\ Len(directives[n]) >= 4
  /\ tty_path(n) # {} /\ tty_mode(n) # {}
  /\ \A a \in 4..Len(directives[n]) : eval_string(directives[n][a]) # {}

-----------------------------------------------------------------------------
(* init *)

\* main opens, reads and parses /boot/initcfg; any failure ends it.
load_config ==
  /\ pc = "load"
  /\ pc' \in {"sigaction", "exited"}
  /\ UNCHANGED <<directives, i, r, pid, g_children, k,
                 procvars, childvars, pending, ttyvars>>

\* Mutation: the handler is not installed.
no_sigaction ==
  /\ pc = "sigaction"
  /\ pc' \in {"directive", "exited"}
  /\ UNCHANGED <<directives, i, r, pid, g_children, k,
                 procvars, childvars, pending, ttyvars>>

\* interpret_config installs handle_sigusr1 before the first directive.
install_handler ==
  /\ pc = "sigaction"
  /\ \/ /\ pc' = "directive"
        /\ disposition' = [disposition EXCEPT ![InitPid] = "handler"]
     \/ /\ pc' = "exited"                       \* exit(-1)
        /\ UNCHANGED disposition
  /\ UNCHANGED <<directives, i, r, pid, g_children, k, g_active_options,
                 g_tty_lock, env, childvars, pending, ttyvars>>

\* setenv(name, value, true) on a set of <<name, value>> pairs.
setenv(e, name, value) == {b \in e : b[1] # name} \cup {<<name, value>>}

interpreting == pc = "directive" /\ i <= Len(directives)

cb_env ==
  /\ interpreting
  /\ env_valid(i)
  /\ \E name \in eval_string(directives[i][2]), value \in eval_string(directives[i][3]) :
       env' = [env EXCEPT ![InitPid] = setenv(@, name, value)]
  /\ i' = i + 1
  /\ UNCHANGED <<directives, pc, r, pid, g_children, k, g_active_options,
                 g_tty_lock, disposition, childvars, pending, ttyvars>>

\* Mutation: the option reaches the children that are already forked.
enable_everywhere ==
  /\ interpreting
  /\ enable_valid(i)
  /\ g_active_options' = [p \in Procs |-> g_active_options[p] \cup eval_int(directives[i][2])]
  /\ i' = i + 1
  /\ UNCHANGED <<directives, pc, r, pid, g_children, k, g_tty_lock, env,
                 disposition, childvars, pending, ttyvars>>

\* The options are distinct bits, so |= is a union of sets of bits.
cb_enable ==
  /\ interpreting
  /\ enable_valid(i)
  /\ g_active_options' =
       [g_active_options EXCEPT ![InitPid] = @ \cup eval_int(directives[i][2])]
  /\ i' = i + 1
  /\ UNCHANGED <<directives, pc, r, pid, g_children, k, g_tty_lock, env,
                 disposition, childvars, pending, ttyvars>>

\* cb_tty up to fork.  The child starts with a copy of init's memory and
\* signal dispositions, and no pending signal.
cb_tty_fork ==
  /\ interpreting
  /\ tty_valid(i)
  /\ \E p \in Pids :
       /\ cpc[p] = "none"
       /\ cpc' = [cpc EXCEPT ![p] = "open"]
       /\ d' = [d EXCEPT ![p] = i]
       /\ pid' = p
       /\ g_active_options' = [g_active_options EXCEPT ![p] = g_active_options[InitPid]]
       /\ g_tty_lock' = [g_tty_lock EXCEPT ![p] = g_tty_lock[InitPid]]
       /\ env' = [env EXCEPT ![p] = env[InitPid]]
       /\ disposition' = [disposition EXCEPT ![p] = disposition[InitPid]]
  /\ pc' = "record"
  /\ UNCHANGED <<directives, i, r, g_children, k, pending, ttyvars>>

\* Mutation: the child is notified as soon as it is recorded.
record_and_notify ==
  /\ pc = "record"
  /\ g_children' = Append(g_children, pid)
  /\ pending' = pending \cup {pid}
  /\ i' = i + 1
  /\ pc' = "directive"
  /\ UNCHANGED <<directives, r, pid, k, procvars, childvars, ttyvars>>

\* The parent's side of cb_tty after fork.  There is no bound check: the
\* write past g_children is undefined, and the model stops there.
cb_tty_record ==
  /\ pc = "record"
  /\ IF Len(g_children) < ChildSlots
       THEN /\ g_children' = Append(g_children, pid)
            /\ i' = i + 1
            /\ pc' = "directive"
       ELSE /\ pc' = "overrun"
            /\ UNCHANGED <<g_children, i>>
  /\ UNCHANGED <<directives, r, pid, k, procvars, childvars, pending, ttyvars>>

\* What a directive can fail for: an unknown name, a wrong number of arguments,
\* an argument that does not evaluate, or fork.
fail(n) ==
  \/ tty_valid(n)                               \* fork() < 0
  \/ ~(env_valid(n) \/ enable_valid(n) \/ tty_valid(n))

\* Mutation: a failing directive is reported and skipped.
directive_skipped ==
  /\ interpreting
  /\ fail(i)
  /\ i' = i + 1
  /\ UNCHANGED <<directives, pc, r, pid, g_children, k,
                 procvars, childvars, pending, ttyvars>>

\* Any failure ends interpret_config at once, and main with it.  No child is
\* notified.
directive_error ==
  /\ interpreting
  /\ fail(i)
  /\ r' = "err"
  /\ pc' = "exited"
  /\ UNCHANGED <<directives, i, pid, g_children, k,
                 procvars, childvars, pending, ttyvars>>

directives_done ==
  /\ pc = "directive" /\ i > Len(directives)
  /\ pc' = "notify"
  /\ UNCHANGED <<directives, i, r, pid, g_children, k,
                 procvars, childvars, pending, ttyvars>>

alive(p) == cpc[p] \notin {"none", "dead", "killed"}

\* Mutation: the loop's counter is advanced twice.
notify_and_skip ==
  /\ pc = "notify" /\ k <= Len(g_children)
  /\ pending' = IF alive(g_children[k]) THEN pending \cup {g_children[k]} ELSE pending
  /\ k' = k + 2
  /\ UNCHANGED <<directives, pc, i, r, pid, g_children,
                 procvars, childvars, ttyvars>>

\* kill(g_children[k], SIGUSR1): a child that has exited stays a zombie (init
\* never waits for it), so its pid is never another process'.
notify_child ==
  /\ pc = "notify" /\ k <= Len(g_children)
  /\ pending' = IF alive(g_children[k]) THEN pending \cup {g_children[k]} ELSE pending
  /\ k' = k + 1
  /\ UNCHANGED <<directives, pc, i, r, pid, g_children,
                 procvars, childvars, ttyvars>>

\* Mutation: the loop stops before the last child.
stop_before_last ==
  /\ pc = "notify" /\ k >= Len(g_children)
  /\ r' = "ok"
  /\ pc' = "exited"
  /\ UNCHANGED <<directives, i, pid, g_children, k,
                 procvars, childvars, pending, ttyvars>>

init_returns ==
  /\ pc = "notify" /\ k > Len(g_children)
  /\ r' = "ok"
  /\ pc' = "exited"
  /\ UNCHANGED <<directives, i, pid, g_children, k,
                 procvars, childvars, pending, ttyvars>>

init_step ==
  \/ load_config \/ install_handler
  \/ cb_env \/ cb_enable \/ cb_tty_fork \/ cb_tty_record
  \/ directive_error \/ directives_done \/ notify_child \/ init_returns

-----------------------------------------------------------------------------
(* The children *)

on_tty(p, t) == t \in tty_path(d[p])

\* open, then the three dup2, which go on in any case; a failing open is
\* exit(-1).  Whether what was opened is a terminal shows in nothing before
\* the ioctls, which fail if it is not.
child_open(p) ==
  /\ cpc[p] = "open"
  /\ \E c \in {"session", "dead"} : cpc' = [cpc EXCEPT ![p] = c]
  /\ UNCHANGED <<initvars, procvars, d, pending, ttyvars>>

\* Mutation: setsid is left out.
setsid_left_out(p) ==
  /\ cpc[p] = "session"
  /\ cpc' = [cpc EXCEPT ![p] = "ctty"]
  /\ UNCHANGED <<initvars, procvars, d, pending, ttyvars>>

\* setsid cannot fail in a process that was just forked.
child_setsid(p) ==
  /\ cpc[p] = "session"
  /\ cpc' = [cpc EXCEPT ![p] = "ctty"]
  /\ leader' = leader \cup {p}
  /\ UNCHANGED <<initvars, procvars, d, pending, owner, ttymode, refused, cleared>>

\* TIOCSCTTY, which fails unless the process leads its session and the terminal
\* controls none; the failure is ignored.
child_ctty(p) ==
  /\ cpc[p] = "ctty"
  /\ cpc' = [cpc EXCEPT ![p] = "mode"]
  /\ owner' = [t \in Ttys |-> IF on_tty(p, t) /\ p \in leader /\ owner[t] = InitPid
                                THEN p ELSE owner[t]]
  /\ UNCHANGED <<initvars, procvars, d, pending, leader, ttymode, refused, cleared>>

\* The terminal of a directive with TTY_GFX is switched to graphics; that the
\* ioctl fails is ignored.
child_mode(p) ==
  /\ cpc[p] = "mode"
  /\ cpc' = [cpc EXCEPT ![p] = "wait"]
  /\ \/ /\ ttymode' = [t \in Ttys |-> IF on_tty(p, t) /\ TTY_GFX \in tty_mode(d[p])
                                       THEN "graphics" ELSE ttymode[t]]
        /\ UNCHANGED refused
     \/ /\ TTY_GFX \in tty_mode(d[p])
        /\ refused' = refused \cup {p}
        /\ UNCHANGED ttymode
  /\ UNCHANGED <<initvars, procvars, d, pending, leader, owner, cleared>>

\* Mutation: the child does not wait.
no_wait(p) ==
  /\ cpc[p] = "wait"
  /\ cpc' = [cpc EXCEPT ![p] = "clear"]
  /\ UNCHANGED <<initvars, procvars, d, pending, ttyvars>>

\* The child leaves its loop once its own copy of g_tty_lock is 0.
wait_start_signal(p) ==
  /\ cpc[p] = "wait"
  /\ g_tty_lock[p] = 0
  /\ cpc' = [cpc EXCEPT ![p] = "clear"]
  /\ UNCHANGED <<initvars, procvars, d, pending, ttyvars>>

child_clear(p) ==
  /\ cpc[p] = "clear"
  /\ cpc' = [cpc EXCEPT ![p] = "exec"]
  /\ cleared' = IF OPT_CLEAR \in g_active_options[p] THEN cleared \cup {p} ELSE cleared
  /\ UNCHANGED <<initvars, procvars, d, pending, leader, owner, ttymode, refused>>

\* A successful exec resets caught signals to their default action; a failing
\* one is exit(-1).
child_exec(p) ==
  /\ cpc[p] = "exec"
  /\ \/ /\ cpc' = [cpc EXCEPT ![p] = "running"]
        /\ disposition' = [disposition EXCEPT ![p] = "default"]
     \/ /\ cpc' = [cpc EXCEPT ![p] = "dead"]
        /\ UNCHANGED disposition
  /\ UNCHANGED <<initvars, g_active_options, g_tty_lock, env, d, pending, ttyvars>>

child_step(p) ==
  \/ child_open(p) \/ child_setsid(p) \/ child_ctty(p) \/ child_mode(p)
  \/ wait_start_signal(p) \/ child_clear(p) \/ child_exec(p)

\* The kernel delivers a pending SIGUSR1 at any point of the child's code: the
\* handler clears the child's lock, the default action ends the process.  The
\* pending signal of a process that has ended is lost.
deliver(p) ==
  /\ p \in pending
  /\ pending' = pending \ {p}
  /\ g_tty_lock' = IF alive(p) /\ disposition[p] = "handler"
                     THEN [g_tty_lock EXCEPT ![p] = 0]       \* handle_sigusr1
                     ELSE g_tty_lock
  /\ cpc' = IF alive(p) /\ disposition[p] = "default"
              THEN [cpc EXCEPT ![p] = "killed"] ELSE cpc
  /\ UNCHANGED <<initvars, g_active_options, env, disposition, d, ttyvars>>

-----------------------------------------------------------------------------

Next == init_step \/ \E p \in Pids : child_step(p) \/ deliver(p)

\* Every process runs under a preemptive scheduler, and the kernel delivers
\* what it has pending.
Fairness ==
  /\ WF_vars(init_step)
  /\ \A p \in Pids : WF_vars(child_step(p)) /\ WF_vars(deliver(p))

Spec == Init /\ [][Next]_vars /\ Fairness

-----------------------------------------------------------------------------
(* Properties *)

started(p) == cpc[p] \in {"clear", "exec", "running"}
notified   == pc = "notify" \/ (pc = "exited" /\ r = "ok")

\* The start gate (wait_start_signal): while init still interprets directives,
\* and for ever when it gave up on one, no child gets past the gate.
NoEarlyStart == \A p \in Pids : started(p) => notified

\* A program of any tty directive starts only when every line of the
\* configuration was acceptable and every tty directive has its process: a
\* bad line (interpret_config's early return) starts nothing at all.
AllOrNothing ==
  (\E p \in Pids : started(p)) =>
     \A n \in 1..Len(directives) :
        /\ env_valid(n) \/ enable_valid(n) \/ tty_valid(n)
        /\ tty_valid(n) => \E q \in Pids : d[q] = n

\* SIGUSR1 only ever opens the gate: it reaches a child neither before the
\* handler it inherits is installed nor after execv has reset it, where the
\* default action would end the program.
NoChildKilled == \A p \in Pids : cpc[p] # "killed"

OptionsAbove(n) ==
  UNION {eval_int(directives[m][2]) : m \in {o \in 1..(n - 1) : enable_valid(o)}}

EnvAbove(n) ==
  LET overwritten(m) == \E o \in (m + 1)..(n - 1) :
        env_valid(o) /\ eval_string(directives[o][2]) = eval_string(directives[m][2])
  IN  UNION {eval_string(directives[m][2]) \X eval_string(directives[m][3]) :
               m \in {o \in 1..(n - 1) : env_valid(o) /\ ~overwritten(o)}}

\* fork copies init's memory: a child sees exactly the options and the
\* environment of the lines above its own, the last assignment winning,
\* however long it waits while init goes on with the lines below.
SnapshotExact ==
  \A p \in Pids : cpc[p] # "none" =>
     /\ g_active_options[p] = OptionsAbove(d[p])
     /\ env[p] = EnvAbove(d[p])

\* What cb_tty's child has done by the time its program runs, on a terminal
\* that no other directive names: the session that setsid has made controls
\* the terminal, which is in graphics mode exactly when the line asks for it
\* and the terminal took it, and was cleared exactly when a line above enables
\* OPT_CLEAR's bit.
sole_user(p) == \A q \in Pids \ {p} : cpc[q] = "none" \/ tty_path(d[q]) # tty_path(d[p])

RunsPrepared ==
  \A p \in Pids : \A t \in Ttys :
     cpc[p] = "running" /\ on_tty(p, t) /\ sole_user(p) =>
        /\ owner[t] = p
        /\ ttymode[t] = "graphics" <=> tty_mode(d[p]) = {TTY_GFX} /\ p \notin refused
        /\ p \in cleared <=> OPT_CLEAR \in OptionsAbove(d[p])

\* Once init has interpreted the last directive, no child is left waiting at
\* the gate or anywhere before it: each ends up running its program or, when
\* open or execv failed, exited.  One signal per child is enough even when it
\* arrives before the child waits.
EveryChildStarts ==
  (pc = "notify") ~> \A p \in Pids : cpc[p] \in {"none", "running", "dead"}

\* init implements StartGate: the gate is the set of recorded children being
\* notified, and a program is waiting until its child has read g_tty_lock = 0.
gate == IF notified THEN "open"
        ELSE IF pc \in {"exited", "overrun"} THEN "abandoned" ELSE "closed"

prog == [p \in Pids |->
  IF cpc[p] = "none" THEN "absent"
  ELSE IF cpc[p] \in {"open", "session", "ctty", "mode", "wait"} THEN "waiting"
  ELSE IF started(p) THEN "started"
  ELSE IF cpc[p] = "dead" THEN "ended"
  ELSE "killed"]

Gate == INSTANCE StartGate WITH Programs <- Pids

\* No program starts before the gate opens, none is created or killed after,
\* and every waiting one starts once it is open or gives up.
ImplementsStartGate == Gate!Spec

\* interpreter.c:46 says of the spinning child that it is "waiting until init
\* has finished": when init has exited the wait comes to an end.
WaitEndsWithInit ==
  \A p \in Pids : (pc = "exited" /\ cpc[p] = "wait") ~> (cpc[p] # "wait")

\* interpreter.c:30 sizes g_children as "arbitrary number higher than TTY_MAX":
\* with more slots than terminals no child is recorded past the array's end.
ChildSlotsSuffice == ChildSlots > Cardinality(Ttys) => pc # "overrun"
=============================================================================
