------------------------------- MODULE Signals -------------------------------
(***************************************************************************)
(* Signals and child processes as the C library uses them: abort, system,  *)
(* sigsetjmp and siglongjmp (mlibc-salernos/stdlib.patched.cpp) over       *)
(* sys_sigaction, sys_sigprocmask, sys_kill, sys_tgkill, sys_fork,         *)
(* sys_execve, sys_waitpid and sys_exit (generic.cpp).                     *)
(*                                                                         *)
(* The threads of one process share the dispositions; each has a mask.     *)
(* The kernel is external: a signal is accepted by a thread that does not  *)
(* block it, or waits (it is not modelled until then); fork, execve and    *)
(* waitpid may fail.  The program may do anything with the dispositions    *)
(* and its masks, and a handler may return or jump out, but not out of     *)
(* system or abort.                                                        *)
(***************************************************************************)
EXTENDS Integers, FiniteSets

CONSTANTS
  Threads,
  MaxCalls,    \* the calls that the program makes
  MaxSignals   \* the signals that arrive from outside

ASSUME SignalsAssumption == MaxCalls \in Nat /\ MaxSignals \in Nat

Sigs == {"INT", "QUIT", "ABRT"}

\* A disposition: what to do, and whether a handler has somewhere to return to.
dfl     == [handler |-> "dfl", restorer |-> TRUE]
ign     == [handler |-> "ign", restorer |-> TRUE]
Actions == [handler : {"dfl", "ign", "own"}, restorer : BOOLEAN]

VARIABLES
  disp,      \* the process' dispositions
  mask,      \* each thread's blocked signals
  pc,        \* where each thread is: "run", "handler", or a step of system or abort
  old_int, old_quit, old_mask,   \* system's local variables
  status,    \* what system returns
  child,     \* the child of each thread's system
  buffer,    \* each thread's sigjmp_buf
  context,   \* what a handler's return needs: the mask to restore and the restorer
  dead,      \* "no", or what ended the process
  calls, signals,
  prog,      \* the dispositions that the program last asked for
  wants,     \* the mask that each thread of the program expects
  mark,      \* what it expects siglongjmp to restore
  overlap    \* a call of system met another one, or a change of the dispositions

procvars == <<disp, mask, dead>>
sysvars  == <<old_int, old_quit, old_mask, status, child>>
jmpvars  == <<buffer, context>>
ghosts   == <<prog, wants, mark, overlap>>
vars     == <<procvars, sysvars, jmpvars, ghosts, pc, calls, signals>>

no_child == [pc |-> "none", disp |-> [s \in Sigs |-> dfl], mask |-> {}, code |-> 0]

\* The program has set up what it likes before the first call.
Init ==
  /\ disp \in [Sigs -> {dfl, ign, [handler |-> "own", restorer |-> TRUE]}] /\ prog = disp
  /\ disp["QUIT"] = dfl /\ disp["ABRT"] # ign
  /\ mask = [t \in Threads |-> {}] /\ wants = mask
  /\ pc = [t \in Threads |-> "run"]
  /\ old_int = [t \in Threads |-> dfl] /\ old_quit = old_int /\ old_mask = mask
  /\ status = [t \in Threads |-> 0] /\ child = [t \in Threads |-> no_child]
  /\ buffer = [t \in Threads |-> [savesigs |-> FALSE, sigset |-> {}]] /\ mark = buffer
  /\ context = [t \in Threads |-> [sigset |-> {}, restorer |-> TRUE]]
  /\ dead = "no" /\ calls = 0 /\ signals = 0 /\ overlap = FALSE

system_pcs == {"quit", "block", "fork", "wait", "int2", "quit2", "mask2"}
in_system == {t \in Threads : pc[t] \in system_pcs}
in_abort  == {t \in Threads : pc[t] \in {"raise", "fill", "default", "raise2", "trap"}}

goto(t, to) == dead = "no" /\ pc' = [pc EXCEPT ![t] = to]
at(t, from, to) == pc[t] = from /\ goto(t, to)

\* A call of the program.
begins(t, to) ==
  /\ pc[t] = "run" /\ goto(t, to)
  /\ calls < MaxCalls /\ calls' = calls + 1 /\ UNCHANGED signals

continues == UNCHANGED <<calls, signals>>

-----------------------------------------------------------------------------
(* sys_sigaction, sys_sigprocmask and the program's use of them *)

\* The copy of act gets the library's restorer unless it brings its own.
sys_sigaction(d, s, act) == [d EXCEPT ![s] = [act EXCEPT !.restorer = TRUE]]

sys_sigprocmask(t, how, set) ==
  mask' = [mask EXCEPT ![t] = CASE how = "SIG_BLOCK"   -> @ \cup set
                                [] how = "SIG_UNBLOCK" -> @ \ set
                                [] how = "SIG_SETMASK" -> set]

program_sigaction(t, s, h) ==
  /\ begins(t, "run")
  /\ LET act == [handler |-> h, restorer |-> FALSE] IN
     disp' = sys_sigaction(disp, s, act) /\ prog' = [prog EXCEPT ![s] = [act EXCEPT !.restorer = TRUE]]
  /\ overlap' = (overlap \/ in_system \cup in_abort # {})
  /\ UNCHANGED <<mask, dead, sysvars, jmpvars, wants, mark>>

\* pthread_sigmask and sigprocmask are the same system call.
sys_thread_sigmask(t, set) ==
  /\ begins(t, "run")
  /\ sys_sigprocmask(t, "SIG_SETMASK", set)
  /\ wants' = [wants EXCEPT ![t] = set]
  /\ UNCHANGED <<disp, dead, sysvars, jmpvars, prog, mark, overlap>>

-----------------------------------------------------------------------------
(* Signals *)

dies(by) == dead' = by /\ UNCHANGED <<disp, mask>>

\* sys_tgkill, or a signal from outside: thread t accepts it.  A handler that interrupts
\* the library runs and returns at once.
accepts(t, s) ==
  /\ signals < MaxSignals /\ signals' = signals + 1
  /\ dead = "no" /\ s \notin mask[t] /\ pc[t] # "handler"
  /\ \/ /\ disp[s].handler = "dfl" /\ dies(s) /\ UNCHANGED <<pc, context>>
     \/ /\ disp[s].handler = "ign" /\ UNCHANGED <<pc, context, procvars>>
     \/ /\ disp[s].handler = "own" /\ pc[t] # "run"
        /\ UNCHANGED <<pc, context, procvars>>
     \/ /\ disp[s].handler = "own" /\ pc[t] = "run"
        /\ pc' = [pc EXCEPT ![t] = "handler"]
        /\ context' = [context EXCEPT ![t] = [sigset |-> mask[t], restorer |-> disp[s].restorer]]
        /\ sys_sigprocmask(t, "SIG_BLOCK", {s}) /\ UNCHANGED <<disp, dead>>
  /\ UNCHANGED <<sysvars, buffer, ghosts, calls>>

\* A handler returns through its restorer, which has the kernel restore the mask.
__mlibc_restorer(t) ==
  /\ at(t, "handler", "run")
  /\ IF context[t].restorer
       THEN sys_sigprocmask(t, "SIG_SETMASK", context[t].sigset) /\ UNCHANGED <<disp, dead>>
       ELSE dies("crash")
  /\ continues /\ UNCHANGED <<sysvars, jmpvars, ghosts>>

saved(t, savesigs) ==
  [savesigs |-> savesigs, sigset |-> IF savesigs THEN mask[t] ELSE buffer[t].sigset]

__sigsetjmp(t, savesigs) ==
  /\ begins(t, "run")
  /\ buffer' = [buffer EXCEPT ![t] = saved(t, savesigs)]
  /\ mark' = [mark EXCEPT ![t] = [savesigs |-> savesigs, sigset |-> wants[t]]]
  /\ UNCHANGED <<procvars, sysvars, context, prog, wants, overlap>>

\* From the program or out of a handler: the mask is the saved one, or stays.
siglongjmp(t) ==
  /\ pc[t] \in {"run", "handler"} /\ goto(t, "run")
  /\ IF buffer[t].savesigs
       THEN sys_sigprocmask(t, "SIG_SETMASK", buffer[t].sigset)
       ELSE UNCHANGED mask
  /\ wants' = [wants EXCEPT ![t] = IF mark[t].savesigs THEN mark[t].sigset ELSE mask[t]]
  /\ continues /\ UNCHANGED <<disp, dead, sysvars, jmpvars, prog, mark, overlap>>

-----------------------------------------------------------------------------
(* system *)

\* Nothing but the dispositions, or nothing but the mask, changes in the parent.
only_disp == UNCHANGED <<mask, dead>>
only_mask == UNCHANGED <<disp, dead>>

system_int(t) ==
  /\ begins(t, "quit")
  /\ old_int' = [old_int EXCEPT ![t] = disp["INT"]]
  /\ disp' = sys_sigaction(disp, "INT", ign)
  /\ overlap' = (overlap \/ in_system # {})
  /\ only_disp /\ UNCHANGED <<old_quit, old_mask, status, child, jmpvars, prog, wants, mark>>

system_quit(t) ==
  /\ at(t, "quit", "block")
  /\ old_quit' = [old_quit EXCEPT ![t] = disp["QUIT"]]
  /\ disp' = sys_sigaction(disp, "QUIT", ign)
  /\ only_disp /\ continues /\ UNCHANGED <<old_int, old_mask, status, child, jmpvars, ghosts>>

system_block(t) ==
  /\ at(t, "block", "fork")
  /\ old_mask' = [old_mask EXCEPT ![t] = mask[t]]
  /\ sys_sigprocmask(t, "SIG_BLOCK", {"CHLD"})
  /\ only_mask /\ continues /\ UNCHANGED <<old_int, old_quit, status, child, jmpvars, ghosts>>

sys_fork(t) ==
  /\ pc[t] = "fork"
  /\ status' = [status EXCEPT ![t] = -1]
  /\ \/ goto(t, "wait")
        /\ child' = [child EXCEPT ![t] = [pc |-> "int", disp |-> disp, mask |-> mask[t], code |-> 0]]
     \/ goto(t, "int2") /\ child' = [child EXCEPT ![t] = no_child]
  /\ continues /\ UNCHANGED <<procvars, old_int, old_quit, old_mask, jmpvars, ghosts>>

\* sys_waitpid starts again when a signal interrupts it, which leaves everything as it
\* is.  It fails when something else has waited for the child; system's loop is only for
\* negative results, which sys_waitpid has not, so that status keeps its -1.
sys_waitpid(t) ==
  /\ at(t, "wait", "int2")
  /\ \/ /\ child[t].pc = "exited"
        /\ status' = [status EXCEPT ![t] = child[t].code]
        /\ child' = [child EXCEPT ![t].pc = "reaped"]
     \/ child[t].pc = "stolen" /\ UNCHANGED <<status, child>>
  /\ continues /\ UNCHANGED <<procvars, old_int, old_quit, old_mask, jmpvars, ghosts>>

restore_int(t) ==
  /\ at(t, "int2", "quit2") /\ disp' = sys_sigaction(disp, "INT", old_int[t])
  /\ only_disp /\ continues /\ UNCHANGED <<sysvars, jmpvars, ghosts>>

\* Mutation: what was saved for SIGINT is restored for SIGQUIT too.
restore_quit_swapped(t) ==
  /\ at(t, "quit2", "mask2") /\ disp' = sys_sigaction(disp, "QUIT", old_int[t])
  /\ only_disp /\ continues /\ UNCHANGED <<sysvars, jmpvars, ghosts>>

restore_quit(t) ==
  /\ at(t, "quit2", "mask2") /\ disp' = sys_sigaction(disp, "QUIT", old_quit[t])
  /\ only_disp /\ continues /\ UNCHANGED <<sysvars, jmpvars, ghosts>>

\* Mutation: SIGCHLD stays blocked.
restore_mask_not(t) ==
  /\ at(t, "mask2", "run") /\ UNCHANGED procvars
  /\ continues /\ UNCHANGED <<sysvars, jmpvars, ghosts>>

restore_mask(t) ==
  /\ at(t, "mask2", "run") /\ sys_sigprocmask(t, "SIG_SETMASK", old_mask[t])
  /\ only_mask /\ continues /\ UNCHANGED <<sysvars, jmpvars, ghosts>>

\* The child of system restores what the parent saved and becomes the shell.
child_becomes(t, from, c) ==
  /\ dead = "no" /\ child[t].pc = from /\ child' = [child EXCEPT ![t] = c]
  /\ UNCHANGED <<procvars, old_int, old_quit, old_mask, status, jmpvars, ghosts, pc, calls, signals>>

child_int(t) ==
  child_becomes(t, "int", [child[t] EXCEPT !.pc = "quit",
                                           !.disp = sys_sigaction(@, "INT", old_int[t])])
child_quit(t) ==
  child_becomes(t, "quit", [child[t] EXCEPT !.pc = "mask",
                                            !.disp = sys_sigaction(@, "QUIT", old_quit[t])])

\* Mutation: the child keeps SIGCHLD blocked.
child_mask_kept(t) == child_becomes(t, "mask", [child[t] EXCEPT !.pc = "exec"])

child_mask(t) == child_becomes(t, "mask", [child[t] EXCEPT !.pc = "exec", !.mask = old_mask[t]])

\* A new program has no handlers; what is ignored stays ignored.
sys_execve(t) ==
  child_becomes(t, "exec",
    [child[t] EXCEPT !.pc = "shell",
                     !.disp = [s \in Sigs |-> IF @[s].handler = "ign" THEN ign ELSE dfl]])
exec_fails(t) == child_becomes(t, "exec", [child[t] EXCEPT !.pc = "exited", !.code = 127])

\* The shell ends, and its parent, or a handler of SIGCHLD in another thread, waits for it.
shell_exits(t)  == \E n \in 0..1 :
                     child_becomes(t, "shell", [child[t] EXCEPT !.pc = "exited", !.code = n])
child_stolen(t) == child_becomes(t, "exited", [child[t] EXCEPT !.pc = "stolen"])

-----------------------------------------------------------------------------
(* abort *)

abort(t) ==
  /\ begins(t, "raise")
  /\ sys_sigprocmask(t, "SIG_UNBLOCK", {"ABRT"})
  /\ only_mask /\ UNCHANGED <<sysvars, jmpvars, ghosts>>

\* raise: a handler runs and returns, in this thread or in another.  That the first
\* raise fails is ignored.
raise(t, from, to) ==
  /\ at(t, from, to)
  /\ IF disp["ABRT"].handler = "dfl" THEN dies("ABRT") ELSE UNCHANGED procvars
  /\ continues /\ UNCHANGED <<sysvars, jmpvars, ghosts>>

abort_raise(t) == raise(t, "raise", "fill")

abort_raise_fails(t) ==
  /\ at(t, "raise", "fill") /\ UNCHANGED procvars
  /\ continues /\ UNCHANGED <<sysvars, jmpvars, ghosts>>

abort_fill(t) ==
  /\ at(t, "fill", "default")
  /\ sys_sigprocmask(t, "SIG_SETMASK", (Sigs \cup {"CHLD"}) \ {"ABRT"})
  /\ only_mask /\ continues /\ UNCHANGED <<sysvars, jmpvars, ghosts>>

\* Mutation: the disposition is not reset.
abort_default_not(t) ==
  /\ at(t, "default", "raise2") /\ UNCHANGED procvars
  /\ continues /\ UNCHANGED <<sysvars, jmpvars, ghosts>>

abort_default(t) ==
  /\ at(t, "default", "raise2") /\ disp' = sys_sigaction(disp, "ABRT", dfl)
  /\ only_disp /\ continues /\ UNCHANGED <<sysvars, jmpvars, ghosts>>

abort_raise2(t) == raise(t, "raise2", "trap")

\* sys_sigaction or the second raise fails, and mlibc's panic ends the process.
abort_panics(t) ==
  /\ at(t, "default", "trap") \/ at(t, "raise2", "trap")
  /\ dies("panic")
  /\ continues /\ UNCHANGED <<sysvars, jmpvars, ghosts>>

trap(t) ==
  /\ at(t, "trap", "trap") /\ dies("ILL")
  /\ continues /\ UNCHANGED <<sysvars, jmpvars, ghosts>>

\* The program ends with exit or _Exit.
sys_exit(t) ==
  /\ begins(t, "run") /\ dies("exit")
  /\ UNCHANGED <<sysvars, jmpvars, ghosts>>

-----------------------------------------------------------------------------

Program(t) ==
  \/ \E s \in Sigs : \E h \in {"dfl", "ign", "own"} : program_sigaction(t, s, h)
  \/ \E set \in SUBSET {"INT", "CHLD"} : sys_thread_sigmask(t, set)
  \/ \E savesigs \in BOOLEAN : __sigsetjmp(t, savesigs)
  \/ siglongjmp(t) \/ system_int(t) \/ abort(t) \/ sys_exit(t)
  \/ \E s \in Sigs : accepts(t, s)

System(t) ==
  \/ system_quit(t) \/ system_block(t) \/ sys_fork(t) \/ sys_waitpid(t)
  \/ restore_int(t) \/ restore_quit(t) \/ restore_mask(t)
  \/ child_int(t) \/ child_quit(t) \/ child_mask(t) \/ sys_execve(t) \/ exec_fails(t)
  \/ shell_exits(t) \/ child_stolen(t)

Abort(t) ==
  \/ abort_raise(t) \/ abort_raise_fails(t) \/ abort_fill(t) \/ abort_default(t)
  \/ abort_raise2(t) \/ abort_panics(t) \/ trap(t)

Next == \E t \in Threads : Program(t) \/ System(t) \/ Abort(t) \/ __mlibc_restorer(t)

\* A thread that is in abort runs on: it waits for nothing.
Spec == Init /\ [][Next]_vars /\ \A t \in Threads : WF_vars(Abort(t))

-----------------------------------------------------------------------------
(* Properties *)

\* When no thread is in system or abort, the dispositions are the ones that the program
\* last asked for, unless two calls of system overlapped or the program changed a
\* disposition during one: then the later one to return puts back what the other set.
DispositionsRestored ==
  ~overlap /\ in_system \cup in_abort = {} => disp = prog

\* Wherever a thread of the program is back from system, a handler or siglongjmp, its
\* mask is the one that it asked for, however the calls of the threads overlapped; and
\* no handler lacks the restorer that it returns through.
MaskRestored ==
  dead # "crash" /\ \A t \in Threads : pc[t] = "run" => mask[t] = wants[t]

\* The shell that system starts blocks and ignores what the program did before the call,
\* not what system set for its wait.
ShellStartsAsProgram ==
  \A t \in Threads : child[t].pc = "shell" =>
    /\ child[t].mask = wants[t]
    /\ ~overlap => \A s \in {"INT", "QUIT"} :
                     child[t].disp[s].handler = "ign" <=> prog[s].handler = "ign"

\* abort does not return: it ends the process whatever SIGABRT was set to, and reaches the
\* trap behind its second raise only if another thread changed the disposition meanwhile.
AbortEnds ==
  \A t \in Threads : pc[t] = "raise" ~> (dead # "no" /\ (dead = "ILL" => overlap))

=============================================================================
