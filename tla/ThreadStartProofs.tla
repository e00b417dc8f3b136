-------------------------- MODULE ThreadStartProofs --------------------------
(***************************************************************************)
(* Threads start with what their creator pushed, join gets the value that  *)
(* the thread function returned, and the protocol implements the safety    *)
(* part of ThreadLifecycle: for any number of threads and joiners.         *)
(*                                                                         *)
(* ThreadInv ties the words of a TCB and the stack to where the creator    *)
(* and the thread are, JoinInv what a joiner holds to the TCB it read.     *)
(***************************************************************************)
EXTENDS ThreadStart, TLAPS

Words    == {"fn", "tcb", "arg"} \X Threads
Pushed   == [t \in Threads |-> <<arg(t), tcb(t), fn(t)>>]
Entered(t) == [rdi |-> fn(t), rsi |-> tcb(t), rdx |-> arg(t)]

CreatorPCs == {"prepare", "clone", "settid", "wake", "created", "failed"}
ThreadPCs  == {"absent", "entry", "gate", "futex", "asleep", "body", "exit", "wake",
               "ending", "gone"}
JoinerPCs  == {"join", "futex", "asleep", "returned"}

ThreadTypeOK ==
  /\ target \in [Joiners -> Threads]
  /\ tid \in [Threads -> {0, 1}] /\ didExit \in [Threads -> {0, 1}]
  /\ returnValue \in [Threads -> Values \cup {None}]
  /\ stack \in [Threads -> Seq(Words)]
  /\ regs \in [Threads -> [rdi : Words \cup {None}, rsi : Words \cup {None},
                           rdx : Words \cup {None}]]
  /\ cpc \in [Threads -> CreatorPCs]
  /\ tpc \in [Threads -> ThreadPCs]
  /\ jpc \in [Joiners -> JoinerPCs]
  /\ result \in [Threads -> Values \cup {None}]
  /\ joined \in [Joiners -> Values \cup {None}]

\* A thread and its creator.
ThreadOK(t) ==
  /\ tpc[t] = "absent" <=> cpc[t] \in {"prepare", "clone", "failed"}
  /\ cpc[t] = "clone" \/ tpc[t] = "entry" => stack[t] = Pushed[t]
  /\ tpc[t] \notin {"absent", "entry"} => regs[t] = Entered(t) /\ stack[t] = << >>
  /\ tid[t] = 1 <=> cpc[t] \in {"wake", "created"}
  /\ tpc[t] \in {"body", "exit", "wake", "ending", "gone"} => tid[t] = 1
  /\ tpc[t] \in {"exit", "wake", "ending", "gone"} =>
       result[t] \in Values /\ returnValue[t] = result[t]
  /\ didExit[t] = 1 <=> tpc[t] \in {"wake", "ending", "gone"}

ThreadInv == \A t \in Threads : ThreadOK(t)

\* The joiners.
JoinInv ==
  \A j \in Joiners :
    /\ jpc[j] = "returned" => didExit[target[j]] = 1 /\ joined[j] = result[target[j]]
    /\ jpc[j] # "returned" => joined[j] = None

ThreadIInv == ThreadTypeOK /\ ThreadInv /\ JoinInv

-----------------------------------------------------------------------------

\* What the three pops of thread.S take off the stack of sys_prepare_stack.
LEMMA ThreePops ==
  ASSUME NEW t \in Threads
  PROVE  /\ Pushed[t] \in Seq(Words) /\ << >> \in Seq(Words)
         /\ pop(Pushed[t]) = fn(t)
         /\ pop(popped(Pushed[t], 1)) = tcb(t)
         /\ pop(popped(Pushed[t], 2)) = arg(t)
         /\ popped(Pushed[t], 3) = << >>
         /\ Entered(t) \in [rdi : Words, rsi : Words, rdx : Words]
<1> DEFINE s == <<arg(t), tcb(t), fn(t)>>
<1>1. fn(t) \in Words /\ tcb(t) \in Words /\ arg(t) \in Words
  BY DEF Words, fn, tcb, arg
<1>2. s \in Seq(Words) /\ Len(s) = 3 /\ s[1] = arg(t) /\ s[2] = tcb(t) /\ s[3] = fn(t)
  BY <1>1
<1>3. Pushed[t] = s
  BY DEF Pushed
<1> HIDE DEF s
<1>4. pop(s) = fn(t) /\ pop(popped(s, 1)) = tcb(t) /\ pop(popped(s, 2)) = arg(t)
  BY <1>1, <1>2 DEF pop, popped
<1>5. popped(s, 3) = << >>
  BY <1>1, <1>2 DEF popped
<1>6. Entered(t) \in [rdi : Words, rsi : Words, rdx : Words] /\ << >> \in Seq(Words)
  BY <1>1 DEF Entered
<1> QED
  BY <1>2, <1>3, <1>4, <1>5, <1>6

LEMMA ThreadInit == Init => ThreadIInv
<1> SUFFICES ASSUME Init PROVE ThreadIInv
  OBVIOUS
<1>1. ThreadTypeOK
  BY ThreePops DEF Init, ThreadTypeOK, CreatorPCs, ThreadPCs, JoinerPCs
<1>2. ThreadInv
  <2> SUFFICES ASSUME NEW t \in Threads PROVE ThreadOK(t)
    BY DEF ThreadInv
  <2>1. tid[t] = 0 /\ didExit[t] = 0 /\ cpc[t] = "prepare" /\ tpc[t] = "absent"
    BY DEF Init
  <2> QED
    BY <2>1 DEF ThreadOK
<1>3. JoinInv
  BY DEF Init, JoinInv
<1> QED
  BY <1>1, <1>2, <1>3 DEF ThreadIInv

\* A step of a creator.
LEMMA CreateStep ==
  ASSUME ThreadIInv, NEW t \in Threads, create_step(t)
  PROVE  ThreadIInv'
<1> USE DEF ThreadIInv
<1>1. CASE sys_prepare_stack(t)
  <2>1. ThreadTypeOK'
    BY <1>1, ThreePops DEF sys_prepare_stack, ThreadTypeOK, tcbvars, Pushed, CreatorPCs, ThreadPCs, JoinerPCs
  <2>2. ThreadInv'
    <3>1. ThreadOK(t)
      BY DEF ThreadInv
    <3>2. ThreadOK(t)'
      BY <1>1, <3>1 DEF sys_prepare_stack, ThreadTypeOK, ThreadOK, tcbvars, Pushed
    <3>3. ASSUME NEW u \in Threads \ {t}, ThreadOK(u) PROVE ThreadOK(u)'
      BY <1>1, <3>3 DEF sys_prepare_stack, ThreadTypeOK, ThreadOK, tcbvars, Pushed
    <3> QED
      BY <3>2, <3>3 DEF ThreadInv
  <2>3. JoinInv'
    BY <1>1 DEF sys_prepare_stack, JoinInv, tcbvars
  <2> QED BY <2>1, <2>2, <2>3
<1>2. CASE sys_clone(t)
  <2>1. ThreadTypeOK'
    <3>1. cpc' \in [Threads -> CreatorPCs] /\ tpc' \in [Threads -> ThreadPCs]
      BY <1>2 DEF sys_clone, ThreadTypeOK, CreatorPCs, ThreadPCs
    <3>2. UNCHANGED <<target, tid, didExit, returnValue, stack, regs, jpc, result, joined>>
      BY <1>2 DEF sys_clone, tcbvars
    <3> QED
      BY <3>1, <3>2 DEF ThreadTypeOK
  <2>2. ThreadInv'
    <3>1. ThreadOK(t)
      BY DEF ThreadInv
    <3>2. ThreadOK(t)'
      BY <1>2, <3>1 DEF sys_clone, ThreadTypeOK, ThreadOK, tcbvars
    <3>3. ASSUME NEW u \in Threads \ {t}, ThreadOK(u) PROVE ThreadOK(u)'
      BY <1>2, <3>3 DEF sys_clone, ThreadTypeOK, ThreadOK, tcbvars
    <3> QED
      BY <3>2, <3>3 DEF ThreadInv
  <2>3. JoinInv'
    BY <1>2 DEF sys_clone, JoinInv, tcbvars
  <2> QED BY <2>1, <2>2, <2>3
<1>3. CASE store_tid(t)
  <2>1. ThreadTypeOK'
    BY <1>3 DEF store_tid, ThreadTypeOK, CreatorPCs, ThreadPCs, JoinerPCs
  <2>2. ThreadInv'
    <3>1. ThreadOK(t)
      BY DEF ThreadInv
    <3>2. ThreadOK(t)'
      BY <1>3, <3>1 DEF store_tid, ThreadTypeOK, ThreadOK
    <3>3. ASSUME NEW u \in Threads \ {t}, ThreadOK(u) PROVE ThreadOK(u)'
      BY <1>3, <3>3 DEF store_tid, ThreadTypeOK, ThreadOK
    <3> QED
      BY <3>2, <3>3 DEF ThreadInv
  <2>3. JoinInv'
    BY <1>3 DEF store_tid, JoinInv
  <2> QED BY <2>1, <2>2, <2>3
<1>4. CASE wake_thread(t)
  <2>1. ThreadTypeOK'
    BY <1>4 DEF wake_thread, ThreadTypeOK, tcbvars, CreatorPCs, ThreadPCs, JoinerPCs
  <2>2. ThreadInv'
    <3>1. ThreadOK(t)
      BY DEF ThreadInv
    <3>2. ThreadOK(t)'
      BY <1>4, <3>1 DEF wake_thread, ThreadTypeOK, ThreadOK, tcbvars
    <3>3. ASSUME NEW u \in Threads \ {t}, ThreadOK(u) PROVE ThreadOK(u)'
      BY <1>4, <3>3 DEF wake_thread, ThreadTypeOK, ThreadOK, tcbvars
    <3> QED
      BY <3>2, <3>3 DEF ThreadInv
  <2>3. JoinInv'
    BY <1>4 DEF wake_thread, JoinInv, tcbvars
  <2> QED BY <2>1, <2>2, <2>3
<1> QED
  BY <1>1, <1>2, <1>3, <1>4 DEF create_step

\* A step of a thread, or the end of its sleep.
LEMMA ThreadStep ==
  ASSUME ThreadIInv, NEW t \in Threads, thread_step(t) \/ interrupt_thread(t)
  PROVE  ThreadIInv'
<1> USE DEF ThreadIInv
<1>1. CASE __mlibc_thread_entry(t)
  <2>1. stack[t] = Pushed[t] /\ tpc[t] = "entry"
    BY <1>1 DEF __mlibc_thread_entry, ThreadInv, ThreadOK
  <2>2. /\ regs' = [regs EXCEPT ![t] = Entered(t)]
        /\ stack' = [stack EXCEPT ![t] = << >>]
    BY <1>1, <2>1, ThreePops DEF __mlibc_thread_entry, Entered, ThreadTypeOK
  <2>3. ThreadTypeOK'
    <3>1. tpc' \in [Threads -> ThreadPCs]
      BY <1>1 DEF __mlibc_thread_entry, ThreadTypeOK, ThreadPCs
    <3>2. stack' \in [Threads -> Seq(Words)]
      BY <2>2, ThreePops DEF ThreadTypeOK
    <3>3. Entered(t) \in [rdi : Words \cup {None}, rsi : Words \cup {None},
                          rdx : Words \cup {None}]
      BY DEF Entered, Words, fn, tcb, arg
    <3>4. regs' \in [Threads -> [rdi : Words \cup {None}, rsi : Words \cup {None},
                                 rdx : Words \cup {None}]]
      BY <2>2, <3>3 DEF ThreadTypeOK
    <3> QED
      BY <1>1, <3>1, <3>2, <3>4 DEF __mlibc_thread_entry, ThreadTypeOK, tcbvars
  <2>4. ThreadInv'
    <3>1. ThreadOK(t)
      BY DEF ThreadInv
    <3>2. ThreadOK(t)'
      BY <1>1, <2>1, <2>2, <3>1 DEF __mlibc_thread_entry, ThreadTypeOK, ThreadOK, tcbvars
    <3>3. ASSUME NEW u \in Threads \ {t}, ThreadOK(u) PROVE ThreadOK(u)'
      BY <1>1, <2>1, <2>2, <3>3 DEF __mlibc_thread_entry, ThreadTypeOK, ThreadOK, tcbvars
    <3> QED
      BY <3>2, <3>3 DEF ThreadInv
  <2>5. JoinInv'
    BY <1>1 DEF __mlibc_thread_entry, JoinInv, tcbvars
  <2> QED BY <2>3, <2>4, <2>5
<1>2. CASE gate_test(t) \/ gate_wait(t) \/ interrupt_thread(t)
  <2>1. ThreadTypeOK'
    BY <1>2 DEF gate_test, gate_wait, interrupt_thread, ThreadTypeOK, tcbvars, CreatorPCs, ThreadPCs, JoinerPCs
  <2>2. ThreadInv'
    <3>1. ThreadOK(t)
      BY DEF ThreadInv
    <3>2. ThreadOK(t)'
      BY <1>2, <3>1 DEF gate_test, gate_wait, interrupt_thread, ThreadTypeOK, ThreadOK, tcbvars
    <3>3. ASSUME NEW u \in Threads \ {t}, ThreadOK(u) PROVE ThreadOK(u)'
      BY <1>2, <3>3 DEF gate_test, gate_wait, interrupt_thread, ThreadTypeOK, ThreadOK, tcbvars
    <3> QED
      BY <3>2, <3>3 DEF ThreadInv
  <2>3. JoinInv'
    BY <1>2 DEF gate_test, gate_wait, interrupt_thread, JoinInv, tcbvars
  <2> QED BY <2>1, <2>2, <2>3
<1>3. CASE invokeThreadFunc(t)
  <2>1. ThreadTypeOK'
    BY <1>3 DEF invokeThreadFunc, ThreadTypeOK, CreatorPCs, ThreadPCs, JoinerPCs
  <2>2. ThreadInv'
    <3>1. ThreadOK(t)
      BY DEF ThreadInv
    <3>2. ThreadOK(t)'
      BY <1>3, <3>1 DEF invokeThreadFunc, ThreadTypeOK, ThreadOK
    <3>3. ASSUME NEW u \in Threads \ {t}, ThreadOK(u) PROVE ThreadOK(u)'
      BY <1>3, <3>3 DEF invokeThreadFunc, ThreadTypeOK, ThreadOK
    <3> QED
      BY <3>2, <3>3 DEF ThreadInv
  \* No joiner has returned yet: didExit is still 0.
  <2>3. JoinInv'
    <3>1. tpc[t] = "body" /\ didExit[t] # 1
      BY <1>3 DEF invokeThreadFunc, ThreadInv, ThreadOK
    <3>2. \A u \in Threads \ {t} : result'[u] = result[u]
      BY <1>3 DEF invokeThreadFunc, ThreadTypeOK
    <3>3. UNCHANGED <<target, didExit, jpc, joined>>
      BY <1>3 DEF invokeThreadFunc
    <3> QED
      BY <3>1, <3>2, <3>3 DEF ThreadTypeOK, JoinInv
  <2> QED BY <2>1, <2>2, <2>3
<1>4. CASE store_didExit(t)
  <2>1. ThreadTypeOK'
    BY <1>4 DEF store_didExit, ThreadTypeOK, CreatorPCs, ThreadPCs, JoinerPCs
  <2>2. ThreadInv'
    <3>1. ThreadOK(t)
      BY DEF ThreadInv
    <3>2. ThreadOK(t)'
      BY <1>4, <3>1 DEF store_didExit, ThreadTypeOK, ThreadOK
    <3>3. ASSUME NEW u \in Threads \ {t}, ThreadOK(u) PROVE ThreadOK(u)'
      BY <1>4, <3>3 DEF store_didExit, ThreadTypeOK, ThreadOK
    <3> QED
      BY <3>2, <3>3 DEF ThreadInv
  <2>3. JoinInv'
    BY <1>4 DEF store_didExit, ThreadTypeOK, JoinInv
  <2> QED BY <2>1, <2>2, <2>3
<1>5. CASE wake_joiners(t)
  <2>1. ThreadTypeOK'
    BY <1>5 DEF wake_joiners, ThreadTypeOK, tcbvars, CreatorPCs, ThreadPCs, JoinerPCs
  <2>2. ThreadInv'
    <3>1. ThreadOK(t)
      BY DEF ThreadInv
    <3>2. ThreadOK(t)'
      BY <1>5, <3>1 DEF wake_joiners, ThreadTypeOK, ThreadOK, tcbvars
    <3>3. ASSUME NEW u \in Threads \ {t}, ThreadOK(u) PROVE ThreadOK(u)'
      BY <1>5, <3>3 DEF wake_joiners, ThreadTypeOK, ThreadOK, tcbvars
    <3> QED
      BY <3>2, <3>3 DEF ThreadInv
  <2>3. JoinInv'
    BY <1>5 DEF wake_joiners, ThreadTypeOK, JoinInv, tcbvars
  <2> QED BY <2>1, <2>2, <2>3
<1>6. CASE sys_thread_exit(t)
  <2>1. ThreadTypeOK'
    BY <1>6 DEF sys_thread_exit, ThreadTypeOK, tcbvars, CreatorPCs, ThreadPCs, JoinerPCs
  <2>2. ThreadInv'
    <3>1. ThreadOK(t)
      BY DEF ThreadInv
    <3>2. ThreadOK(t)'
      BY <1>6, <3>1 DEF sys_thread_exit, ThreadTypeOK, ThreadOK, tcbvars
    <3>3. ASSUME NEW u \in Threads \ {t}, ThreadOK(u) PROVE ThreadOK(u)'
      BY <1>6, <3>3 DEF sys_thread_exit, ThreadTypeOK, ThreadOK, tcbvars
    <3> QED
      BY <3>2, <3>3 DEF ThreadInv
  <2>3. JoinInv'
    BY <1>6 DEF sys_thread_exit, JoinInv, tcbvars
  <2> QED BY <2>1, <2>2, <2>3
<1> QED
  BY <1>1, <1>2, <1>3, <1>4, <1>5, <1>6 DEF thread_step

\* A step of a joiner, or the end of its sleep.
LEMMA JoinStep ==
  ASSUME ThreadIInv, NEW j \in Joiners, join_step(j) \/ interrupt_joiner(j)
  PROVE  ThreadIInv'
<1> USE DEF ThreadIInv
<1>1. UNCHANGED <<target, tcbvars, stack, regs, cpc, tpc, result>>
  BY DEF join_step, join_test, join_wait, interrupt_joiner
<1>2. jpc' \in [Joiners -> JoinerPCs]
  BY DEF join_step, join_test, join_wait, interrupt_joiner, ThreadTypeOK, JoinerPCs
<1>3. joined' \in [Joiners -> Values \cup {None}]
  BY DEF join_step, join_test, join_wait, interrupt_joiner, ThreadTypeOK
<1>4. ThreadTypeOK'
  BY <1>1, <1>2, <1>3 DEF ThreadTypeOK, tcbvars
<1>5. ThreadInv'
  BY <1>1 DEF ThreadInv, ThreadOK, tcbvars
\* What is read is the value of a thread that has set didExit, hence its result.
<1>6. CASE join_test(j)
  <2>1. didExit[target[j]] # 0 => returnValue[target[j]] = result[target[j]]
                                  /\ didExit[target[j]] = 1
    BY DEF ThreadTypeOK, ThreadInv, ThreadOK
  <2>2. JoinInv'
    BY <1>1, <1>6, <2>1 DEF join_test, ThreadTypeOK, JoinInv, tcbvars
  <2> QED BY <1>4, <1>5, <2>2
<1>7. CASE join_wait(j) \/ interrupt_joiner(j)
  <2>1. JoinInv'
    BY <1>1, <1>7 DEF join_wait, interrupt_joiner, ThreadTypeOK, JoinInv, tcbvars
  <2> QED BY <1>4, <1>5, <2>1
<1> QED
  BY <1>6, <1>7 DEF join_step

LEMMA ThreadInductive == Spec => []ThreadIInv
<1>1. ThreadIInv /\ [Next]_vars => ThreadIInv'
  <2> SUFFICES ASSUME ThreadIInv, [Next]_vars PROVE ThreadIInv'
    OBVIOUS
  <2>1. ASSUME UNCHANGED vars PROVE ThreadIInv'
    BY <2>1 DEF vars, tcbvars, ThreadIInv, ThreadTypeOK, ThreadInv, ThreadOK, JoinInv
  <2> QED
    BY <2>1, CreateStep, ThreadStep, JoinStep DEF Next
<1> QED
  BY <1>1, ThreadInit, PTL DEF Spec

-----------------------------------------------------------------------------
(* The theorems *)

\* The TCB words, the stack and the program counters keep their types.
THEOREM ThreadTypeCorrect == Spec => []ThreadTypeOK
BY ThreadInductive, PTL DEF ThreadIInv

\* What sys_prepare_stack pushes is what thread.S pops and the trampoline runs with, and
\* only once tcb->tid is set.
THEOREM ThreadsStartReady == Spec => []BodyRunsReady
<1>1. ThreadIInv => BodyRunsReady
  BY DEF ThreadIInv, ThreadInv, ThreadOK, BodyRunsReady, Entered
<1> QED
  BY <1>1, ThreadInductive, PTL

\* thread_join returns the value of the thread function, whatever the order of stores,
\* tests, sleeps and wakes, and leaves at most two calls of the trampoline to run.
THEOREM JoinReturnsValue == Spec => []JoinGetsResult
<1>1. ThreadIInv => JoinGetsResult
  BY NoneAssumption DEF ThreadIInv, ThreadTypeOK, ThreadInv, ThreadOK, JoinInv, JoinGetsResult
<1> QED
  BY <1>1, ThreadInductive, PTL

-----------------------------------------------------------------------------
(* The refinement *)

\* What the mapping says of one thread.
LEMMA LifeOf ==
  ASSUME ThreadIInv, NEW t \in Threads
  PROVE  /\ tpc[t] = "absent" <=> life[t] = "absent"
         /\ tpc[t] # "absent" /\ didExit[t] = 0 <=> life[t] = "live"
         /\ didExit[t] = 1 <=> life[t] = "finished"
         /\ life[t] \in {"absent", "live", "finished"}
         /\ value[t] = IF didExit[t] = 1 THEN result[t] ELSE None
<1>1. /\ didExit[t] \in {0, 1}
      /\ tpc[t] = "absent" => didExit[t] = 0
  BY DEF ThreadIInv, ThreadTypeOK, ThreadInv, ThreadOK
<1> QED
  BY <1>1 DEF life, value

\* The cases of life are complete, before and after a step.
LifeCases ==
  [t \in Threads |-> IF tpc[t] = "absent" THEN "absent"
                     ELSE IF didExit[t] = 0 THEN "live" ELSE "finished"]

LEMMA LifeIsCases ==
  ASSUME didExit \in [Threads -> {0, 1}] PROVE life = LifeCases
<1> SUFFICES ASSUME NEW t \in Threads PROVE life[t] = LifeCases[t]
  BY DEF life, LifeCases
<1>1. didExit[t] \in {0, 1}
  OBVIOUS
<1>2. CASE tpc[t] = "absent"
  BY <1>2 DEF life, LifeCases
<1>3. CASE tpc[t] # "absent" /\ didExit[t] = 0
  BY <1>3 DEF life, LifeCases
<1>4. CASE tpc[t] # "absent" /\ didExit[t] = 1
  BY <1>4 DEF life, LifeCases
<1> QED
  BY <1>1, <1>2, <1>3, <1>4

LEMMA LifeIsCasesNext ==
  ASSUME didExit' \in [Threads -> {0, 1}] PROVE life' = LifeCases'
<1> SUFFICES ASSUME NEW t \in Threads PROVE life'[t] = LifeCases'[t]
  BY DEF life, LifeCases
<1>1. didExit'[t] \in {0, 1}
  OBVIOUS
<1>2. CASE tpc'[t] = "absent"
  BY <1>2 DEF life, LifeCases
<1>3. CASE tpc'[t] # "absent" /\ didExit'[t] = 0
  BY <1>3 DEF life, LifeCases
<1>4. CASE tpc'[t] # "absent" /\ didExit'[t] = 1
  BY <1>4 DEF life, LifeCases
<1> QED
  BY <1>1, <1>2, <1>3, <1>4

\* A step that neither creates nor finishes a thread, nor joins one, changes nothing
\* that the users of threads see.
LEMMA LifeStutter ==
  ASSUME didExit \in [Threads -> {0, 1}], UNCHANGED <<target, didExit, joined>>,
         \A t \in Threads : tpc'[t] = "absent" <=> tpc[t] = "absent",
         \A t \in Threads : didExit[t] = 1 => result'[t] = result[t]
  PROVE  UNCHANGED <<target, life, value, joined>>
<1>1. life' = life
  BY LifeIsCases, LifeIsCasesNext DEF LifeCases
<1>2. value' = value
  BY DEF value
<1> QED
  BY <1>1, <1>2

LEMMA LifeStep ==
  ASSUME ThreadIInv, ThreadIInv', [Next]_vars
  PROVE  [Lifecycle!Next]_(Lifecycle!lifevars)
<1> USE DEF Lifecycle!lifevars
<1>0. ThreadTypeOK /\ ThreadInv /\ JoinInv
  BY DEF ThreadIInv
<1>a. didExit \in [Threads -> {0, 1}] /\ life = LifeCases /\ life' = LifeCases'
  BY LifeIsCases, LifeIsCasesNext DEF ThreadIInv, ThreadTypeOK
<1>1. ASSUME NEW t \in Threads, sys_clone(t)
      PROVE  [Lifecycle!Next]_(Lifecycle!lifevars)
  <2>1. CASE cpc'[t] = "settid"
    <3>1. tpc' = [tpc EXCEPT ![t] = "entry"] /\ UNCHANGED <<target, didExit, result, joined>>
      BY <1>0, <1>1, <2>1 DEF sys_clone, ThreadTypeOK, tcbvars
    <3>2. tpc[t] = "absent" /\ didExit[t] = 0
      BY <1>0, <1>1 DEF sys_clone, ThreadTypeOK, ThreadInv, ThreadOK
    <3>3. life[t] = "absent" /\ life' = [life EXCEPT ![t] = "live"]
      BY <1>0, <1>a, <3>1, <3>2 DEF LifeCases, ThreadTypeOK
    <3>4. value' = value
      BY <3>1 DEF value
    <3>5. Lifecycle!Create(t)
      BY <3>1, <3>3, <3>4 DEF Lifecycle!Create
    <3> QED
      BY <3>5 DEF Lifecycle!Next
  <2>2. CASE cpc'[t] # "settid"
    <3>1. UNCHANGED <<target, didExit, joined, tpc, result>>
      BY <1>0, <1>1, <2>2 DEF sys_clone, ThreadTypeOK, tcbvars
    <3> QED
      BY <3>1, <1>a, LifeStutter
  <2> QED
    BY <2>1, <2>2
<1>2. ASSUME NEW t \in Threads, store_didExit(t)
      PROVE  [Lifecycle!Next]_(Lifecycle!lifevars)
  <2>1. /\ tpc' = [tpc EXCEPT ![t] = "wake"] /\ didExit' = [didExit EXCEPT ![t] = 1]
        /\ UNCHANGED <<target, result, joined>>
    BY <1>2 DEF store_didExit
  <2>2. tpc[t] = "exit" /\ didExit[t] = 0 /\ result[t] \in Values
    BY <1>0, <1>2 DEF store_didExit, ThreadTypeOK, ThreadInv, ThreadOK
  <2>3. life[t] = "live" /\ life' = [life EXCEPT ![t] = "finished"]
    BY <1>0, <1>a, <2>1, <2>2 DEF LifeCases, ThreadTypeOK
  <2>4. value' = [value EXCEPT ![t] = result[t]]
    BY <1>0, <2>1, <2>2 DEF value, ThreadTypeOK
  <2>5. Lifecycle!Finish(t)
    BY <2>1, <2>2, <2>3, <2>4 DEF Lifecycle!Finish
  <2> QED
    BY <2>5 DEF Lifecycle!Next
<1>3. ASSUME NEW j \in Joiners, join_test(j)
      PROVE  [Lifecycle!Next]_(Lifecycle!lifevars)
  <2>0. UNCHANGED <<target, didExit, tpc, result>>
    BY <1>3 DEF join_test, tcbvars
  <2>1. CASE didExit[target[j]] = 0
    <3>1. UNCHANGED joined
      BY <1>3, <2>1 DEF join_test
    <3> QED
      BY <2>0, <3>1, <1>a, LifeStutter
  <2>2. CASE didExit[target[j]] # 0
    <3>1. target[j] \in Threads /\ didExit[target[j]] = 1
      BY <1>0, <2>2 DEF ThreadTypeOK
    <3>2. life[target[j]] = "finished" /\ value[target[j]] = result[target[j]]
      BY <3>1, LifeOf
    <3>3. returnValue[target[j]] = result[target[j]]
      BY <1>0, <3>1 DEF ThreadInv, ThreadOK
    <3>4. joined' = [joined EXCEPT ![j] = value[target[j]]]
      BY <1>3, <3>1, <3>2, <3>3 DEF join_test
    <3>5. joined[j] = None
      BY <1>0, <1>3 DEF join_test, JoinInv
    <3>6. life' = life /\ value' = value
      BY <2>0 DEF life, value
    <3>7. Lifecycle!Join(j)
      BY <2>0, <3>2, <3>4, <3>5, <3>6 DEF Lifecycle!Join
    <3> QED
      BY <3>7 DEF Lifecycle!Next
  <2> QED
    BY <2>1, <2>2
<1>4. ASSUME NEW t \in Threads, invokeThreadFunc(t)
      PROVE  UNCHANGED <<target, life, value, joined>>
  <2>1. UNCHANGED <<target, didExit, joined>> /\ tpc[t] = "body"
    BY <1>4 DEF invokeThreadFunc
  <2>2. \A u \in Threads : tpc'[u] = "absent" <=> tpc[u] = "absent"
    BY <1>0, <1>4 DEF invokeThreadFunc, ThreadTypeOK
  <2>3. didExit[t] # 1
    BY <1>0, <2>1 DEF ThreadInv, ThreadOK
  <2>4. \A u \in Threads \ {t} : result'[u] = result[u]
    BY <1>0, <1>4 DEF invokeThreadFunc, ThreadTypeOK
  <2> QED
    BY <2>1, <2>2, <2>3, <2>4, <1>a, LifeStutter
<1>5. ASSUME NEW t \in Threads,
             \/ sys_prepare_stack(t) \/ store_tid(t) \/ wake_thread(t)
             \/ __mlibc_thread_entry(t) \/ gate_test(t) \/ gate_wait(t)
             \/ wake_joiners(t) \/ sys_thread_exit(t) \/ interrupt_thread(t)
      PROVE  UNCHANGED <<target, life, value, joined>>
  <2>1. UNCHANGED <<target, didExit, result, joined>>
    BY <1>5 DEF sys_prepare_stack, store_tid, wake_thread, __mlibc_thread_entry, gate_test,
                gate_wait, wake_joiners, sys_thread_exit, interrupt_thread, tcbvars
  <2>2. \A u \in Threads : tpc'[u] = "absent" <=> tpc[u] = "absent"
    BY <1>0, <1>5
    DEF sys_prepare_stack, store_tid, wake_thread, __mlibc_thread_entry, gate_test,
        gate_wait, wake_joiners, sys_thread_exit, interrupt_thread, ThreadTypeOK
  <2> QED
    BY <2>1, <2>2, <1>a, LifeStutter
<1>6. ASSUME NEW j \in Joiners, join_wait(j) \/ interrupt_joiner(j)
      PROVE  UNCHANGED <<target, life, value, joined>>
  BY <1>6, <1>a, LifeStutter DEF join_wait, interrupt_joiner, tcbvars
<1>7. CASE UNCHANGED vars
  BY <1>7, <1>a, LifeStutter DEF vars, tcbvars
<1> QED
  BY <1>1, <1>2, <1>3, <1>4, <1>5, <1>6, <1>7
  DEF Next, create_step, thread_step, join_step

\* The futex protocol implements the safety part of ThreadLifecycle: a thread finishes
\* once, with the value of its function, and a join returns after that and with it.
THEOREM ImplementsLife == Spec => Lifecycle!Safety
<1>1. Init => Lifecycle!Init
  BY DEF Init, Lifecycle!Init, life, value
<1> QED
  BY <1>1, ThreadInductive, LifeStep, PTL DEF Spec, Lifecycle!Safety
=============================================================================
