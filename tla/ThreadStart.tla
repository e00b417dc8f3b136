----------------------------- MODULE ThreadStart -----------------------------
(***************************************************************************)
(* Starting, ending and joining a thread in the mlibc port:                *)
(* sys_prepare_stack and __mlibc_thread_trampoline (thread.cpp),           *)
(* __mlibc_thread_entry (thread.S), and sys_clone, sys_futex_wait,         *)
(* sys_futex_wake and sys_thread_exit (generic.cpp), all under             *)
(* mlibc-salernos/sysdeps/generic.                                         *)
(*                                                                         *)
(* The callers, mlibc's thread_create and thread_join, are external: the   *)
(* creator stores the new thread's id in tcb->tid and wakes the futex on   *)
(* it, the joiner waits on the futex on tcb->didExit.  The kernel's futex  *)
(* is external too: FUTEX_WAIT compares the word and goes to sleep in one  *)
(* step, and any sleep may end early (a signal).                           *)
(***************************************************************************)
EXTENDS Naturals, Sequences

CONSTANTS
  Threads,  \* the threads that may be created, each with its own creator
  Joiners,  \* the callers of thread_join
  Values,   \* what a thread function may return
  None      \* no value yet

ASSUME NoneAssumption == None \notin Values

VARIABLES
  target,   \* the thread each joiner joins
  \* the TCB of each thread
  tid, didExit, returnValue,
  \* what the creator and the thread's own processor state are
  stack,    \* the words pushed on the new stack, top last
  regs,     \* rdi, rsi, rdx on entry to the trampoline
  cpc,      \* the creator
  tpc,      \* the thread
  jpc,      \* the joiner
  result,   \* what fn returned
  joined    \* what thread_join handed to its caller

tcbvars == <<tid, didExit, returnValue>>
vars == <<target, tcbvars, stack, regs, cpc, tpc, jpc, result, joined>>

\* The three words a thread is started with.
fn(t)  == <<"fn", t>>
tcb(t) == <<"tcb", t>>
arg(t) == <<"arg", t>>

Init ==
  /\ target \in [Joiners -> Threads]
  /\ tid = [t \in Threads |-> 0]
  /\ didExit = [t \in Threads |-> 0]
  /\ returnValue = [t \in Threads |-> None]
  /\ stack = [t \in Threads |-> << >>]
  /\ regs = [t \in Threads |-> [rdi |-> None, rsi |-> None, rdx |-> None]]
  /\ cpc = [t \in Threads |-> "prepare"]
  /\ tpc = [t \in Threads |-> "absent"]
  /\ jpc = [j \in Joiners |-> "join"]
  /\ result = [t \in Threads |-> None]
  /\ joined = [j \in Joiners |-> None]

-----------------------------------------------------------------------------
(* The creator *)

\* Mutation: the words are pushed in the order of the parameters.
prepare_in_order(t) ==
  /\ cpc[t] = "prepare"
  /\ \/ /\ stack' = [stack EXCEPT ![t] = <<fn(t), tcb(t), arg(t)>>]
        /\ cpc' = [cpc EXCEPT ![t] = "clone"]
     \/ /\ cpc' = [cpc EXCEPT ![t] = "failed"]
        /\ UNCHANGED stack
  /\ UNCHANGED <<target, tcbvars, regs, tpc, jpc, result, joined>>

\* Without a stack of the caller's, mmap may fail and its errno is returned.
sys_prepare_stack(t) ==
  /\ cpc[t] = "prepare"
  /\ \/ /\ stack' = [stack EXCEPT ![t] = <<arg(t), tcb(t), fn(t)>>]
        /\ cpc' = [cpc EXCEPT ![t] = "clone"]
     \/ /\ cpc' = [cpc EXCEPT ![t] = "failed"]
        /\ UNCHANGED stack
  /\ UNCHANGED <<target, tcbvars, regs, tpc, jpc, result, joined>>

\* The new thread starts at __mlibc_thread_entry, before or after the creator
\* has learnt its id.
sys_clone(t) ==
  /\ cpc[t] = "clone"
  /\ \/ /\ cpc' = [cpc EXCEPT ![t] = "settid"]
        /\ tpc' = [tpc EXCEPT ![t] = "entry"]
     \/ /\ cpc' = [cpc EXCEPT ![t] = "failed"]
        /\ UNCHANGED tpc
  /\ UNCHANGED <<target, tcbvars, stack, regs, jpc, result, joined>>

\* thread_create after sys_clone (external): store the id, then wake.
store_tid(t) ==
  /\ cpc[t] = "settid"
  /\ tid' = [tid EXCEPT ![t] = 1]
  /\ cpc' = [cpc EXCEPT ![t] = "wake"]
  /\ UNCHANGED <<target, didExit, returnValue, stack, regs, tpc, jpc, result, joined>>

\* sys_futex_wake(&tcb->tid): INT_MAX waiters, so all of them.
wake_thread(t) ==
  /\ cpc[t] = "wake"
  /\ cpc' = [cpc EXCEPT ![t] = "created"]
  /\ tpc' = [tpc EXCEPT ![t] = IF @ = "asleep" THEN "gate" ELSE @]
  /\ UNCHANGED <<target, tcbvars, stack, regs, jpc, result, joined>>

-----------------------------------------------------------------------------
(* The thread *)

pop(s)     == s[Len(s)]
popped(s, n) == SubSeq(s, 1, Len(s) - n)

\* Three pops, then the call; the trampoline sets the TCB.
__mlibc_thread_entry(t) ==
  /\ tpc[t] = "entry"
  /\ regs' = [regs EXCEPT ![t] = [rdi |-> pop(stack[t]),
                                  rsi |-> pop(popped(stack[t], 1)),
                                  rdx |-> pop(popped(stack[t], 2))]]
  /\ stack' = [stack EXCEPT ![t] = popped(@, 3)]
  /\ tpc' = [tpc EXCEPT ![t] = "gate"]
  /\ UNCHANGED <<target, tcbvars, cpc, jpc, result, joined>>

\* while (tid == 0) sys_futex_wait(&tid, 0): the test ...
gate_test(t) ==
  /\ tpc[t] = "gate"
  /\ tpc' = [tpc EXCEPT ![t] = IF tid[t] = 0 THEN "futex" ELSE "body"]
  /\ UNCHANGED <<target, tcbvars, stack, regs, cpc, jpc, result, joined>>

\* ... and the call: EAGAIN when the word has changed in between.
gate_wait(t) ==
  /\ tpc[t] = "futex"
  /\ tpc' = [tpc EXCEPT ![t] = IF tid[t] = 0 THEN "asleep" ELSE "gate"]
  /\ UNCHANGED <<target, tcbvars, stack, regs, cpc, jpc, result, joined>>

\* Mutation: the TCB does not keep the value.
value_not_kept(t) ==
  /\ tpc[t] = "body"
  /\ \E v \in Values : result' = [result EXCEPT ![t] = v]
  /\ tpc' = [tpc EXCEPT ![t] = "exit"]
  /\ UNCHANGED <<target, tcbvars, stack, regs, cpc, jpc, joined>>

\* invokeThreadFunc calls fn(arg) and keeps what it returns in the TCB.
invokeThreadFunc(t) ==
  /\ tpc[t] = "body"
  /\ \E v \in Values : /\ result' = [result EXCEPT ![t] = v]
                       /\ returnValue' = [returnValue EXCEPT ![t] = v]
  /\ tpc' = [tpc EXCEPT ![t] = "exit"]
  /\ UNCHANGED <<target, tid, didExit, stack, regs, cpc, jpc, joined>>

\* Mutation: didExit is set before the function has returned.
early_didExit(t) ==
  /\ tpc[t] = "body"
  /\ didExit' = [didExit EXCEPT ![t] = 1]
  /\ UNCHANGED <<target, tid, returnValue, stack, regs, cpc, tpc, jpc, result, joined>>

store_didExit(t) ==
  /\ tpc[t] = "exit"
  /\ didExit' = [didExit EXCEPT ![t] = 1]
  /\ tpc' = [tpc EXCEPT ![t] = "wake"]
  /\ UNCHANGED <<target, tid, returnValue, stack, regs, cpc, jpc, result, joined>>

\* Mutation: the futex is not woken.
wake_nobody(t) ==
  /\ tpc[t] = "wake"
  /\ tpc' = [tpc EXCEPT ![t] = "ending"]
  /\ UNCHANGED <<target, tcbvars, stack, regs, cpc, jpc, result, joined>>

wake_joiners(t) ==
  /\ tpc[t] = "wake"
  /\ jpc' = [j \in Joiners |-> IF target[j] = t /\ jpc[j] = "asleep" THEN "join" ELSE jpc[j]]
  /\ tpc' = [tpc EXCEPT ![t] = "ending"]
  /\ UNCHANGED <<target, tcbvars, stack, regs, cpc, result, joined>>

sys_thread_exit(t) ==
  /\ tpc[t] = "ending"
  /\ tpc' = [tpc EXCEPT ![t] = "gone"]
  /\ UNCHANGED <<target, tcbvars, stack, regs, cpc, jpc, result, joined>>

-----------------------------------------------------------------------------
(* thread_join (external) on the didExit futex *)

\* Nobody knows a thread to join before it was cloned.
join_test(j) ==
  /\ jpc[j] = "join" /\ tpc[target[j]] # "absent"
  /\ IF didExit[target[j]] = 0
       THEN /\ jpc' = [jpc EXCEPT ![j] = "futex"]
            /\ UNCHANGED joined
       ELSE /\ jpc' = [jpc EXCEPT ![j] = "returned"]
            /\ joined' = [joined EXCEPT ![j] = returnValue[target[j]]]
  /\ UNCHANGED <<target, tcbvars, stack, regs, cpc, tpc, result>>

join_wait(j) ==
  /\ jpc[j] = "futex"
  /\ jpc' = [jpc EXCEPT ![j] = IF didExit[target[j]] = 0 THEN "asleep" ELSE "join"]
  /\ UNCHANGED <<target, tcbvars, stack, regs, cpc, tpc, result, joined>>

-----------------------------------------------------------------------------

\* A futex sleep that ends without a wake; sys_futex_wait hands the error to
\* loops that ignore it.
interrupt_thread(t) ==
  /\ tpc[t] = "asleep"
  /\ tpc' = [tpc EXCEPT ![t] = "gate"]
  /\ UNCHANGED <<target, tcbvars, stack, regs, cpc, jpc, result, joined>>

interrupt_joiner(j) ==
  /\ jpc[j] = "asleep"
  /\ jpc' = [jpc EXCEPT ![j] = "join"]
  /\ UNCHANGED <<target, tcbvars, stack, regs, cpc, tpc, result, joined>>

create_step(t) ==
  sys_prepare_stack(t) \/ sys_clone(t) \/ store_tid(t) \/ wake_thread(t)

thread_step(t) ==
  \/ __mlibc_thread_entry(t) \/ gate_test(t) \/ gate_wait(t) \/ invokeThreadFunc(t)
  \/ store_didExit(t) \/ wake_joiners(t) \/ sys_thread_exit(t)

join_step(j) == join_test(j) \/ join_wait(j)

Next ==
  \/ \E t \in Threads : create_step(t) \/ thread_step(t) \/ interrupt_thread(t)
  \/ \E j \in Joiners : join_step(j) \/ interrupt_joiner(j)

\* Every thread that can run does; thread functions return.  A signal need not
\* come, so nothing relies on an interrupted sleep.
Spec ==
  /\ Init /\ [][Next]_vars
  /\ \A t \in Threads : WF_vars(create_step(t)) /\ WF_vars(thread_step(t))
  /\ \A j \in Joiners : WF_vars(join_step(j))

-----------------------------------------------------------------------------
(* Properties *)

\* What sys_prepare_stack pushed is what thread.S pops: a thread function runs
\* with its own fn, TCB and argument, and only once its TCB holds its id.
BodyRunsReady ==
  \A t \in Threads : tpc[t] \in {"body", "exit", "wake", "ending", "gone"} =>
     /\ regs[t] = [rdi |-> fn(t), rsi |-> tcb(t), rdx |-> arg(t)]
     /\ stack[t] = << >>
     /\ tid[t] # 0

\* thread_join returns only after the thread function has, and with its value; of the
\* trampoline at most the wake and the exit are left then, the two calls that still run
\* on the stack that the joiner may now free.
JoinGetsResult ==
  \A j \in Joiners : jpc[j] = "returned" =>
     /\ result[target[j]] # None /\ joined[j] = result[target[j]]
     /\ tpc[target[j]] \in {"wake", "ending", "gone"}

\* No wakeup is lost on either futex: a thread that was cloned gets past its
\* gate, and every joiner of a thread that was cloned returns.
NoLostWakeup ==
  /\ \A t \in Threads : (cpc[t] = "settid") ~> (tpc[t] = "gone")
  /\ \A j \in Joiners : (cpc[target[j]] = "settid") ~> (jpc[j] = "returned")

\* The protocol implements ThreadLifecycle: a thread is live from the clone
\* until didExit is stored.
life == [t \in Threads |-> CASE tpc[t] = "absent"                       -> "absent"
                             [] tpc[t] # "absent" /\ didExit[t] = 0     -> "live"
                             [] tpc[t] # "absent" /\ didExit[t] = 1     -> "finished"]
value == [t \in Threads |-> IF didExit[t] = 1 THEN result[t] ELSE None]

Lifecycle == INSTANCE ThreadLifecycle

ImplementsLifecycle == Lifecycle!Spec
=============================================================================
