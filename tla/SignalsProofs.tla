---------------------------- MODULE SignalsProofs ----------------------------
(***************************************************************************)
(* system, abort, sigsetjmp and siglongjmp, for any number of threads,     *)
(* calls and signals: masks and dispositions are what the program asked    *)
(* for, the shell of system starts as the program would, and abort ends by *)
(* SIGABRT.                                                                *)
(*                                                                         *)
(* An action belongs to one thread; OthersKeep says that it leaves what is *)
(* local to the others alone.  What is shared, the dispositions, is        *)
(* changed by system and abort, and DispOK says who may have changed what. *)
(***************************************************************************)
EXTENDS Signals, TLAPS

\* A disposition that the library has installed has a restorer.
Installed == [handler : {"dfl", "ign", "own"}, restorer : {TRUE}]

Masks == SUBSET (Sigs \cup {"CHLD"})

PCs == {"run", "handler"} \cup system_pcs \cup {"raise", "fill", "default", "raise2", "trap"}

ChildPCs == {"none", "int", "quit", "mask", "exec", "shell", "exited", "stolen", "reaped"}
Children == [pc : ChildPCs, disp : [Sigs -> Installed], mask : Masks, code : Int]
Buffers  == [savesigs : BOOLEAN, sigset : Masks]
Contexts == [sigset : Masks, restorer : {TRUE}]

\* Types; no handler lacks its restorer, so that nothing crashes.
SignalsTypeOK ==
  /\ disp \in [Sigs -> Installed] /\ prog \in [Sigs -> Installed]
  /\ mask \in [Threads -> Masks] /\ wants \in [Threads -> Masks]
  /\ old_mask \in [Threads -> Masks]
  /\ pc \in [Threads -> PCs]
  /\ old_int \in [Threads -> Installed] /\ old_quit \in [Threads -> Installed]
  /\ status \in [Threads -> Int] /\ child \in [Threads -> Children]
  /\ buffer \in [Threads -> Buffers] /\ mark \in [Threads -> Buffers]
  /\ context \in [Threads -> Contexts]
  /\ dead \in {"no", "INT", "QUIT", "ABRT", "ILL", "exit", "panic"}
  /\ overlap \in BOOLEAN

\* What a thread's mask will be when it is back in the program.
MaskOK(t) ==
  /\ pc[t] \in {"run", "quit", "block"} => mask[t] = wants[t]
  /\ pc[t] = "handler" => context[t].sigset = wants[t]
  /\ pc[t] \in {"fork", "wait", "int2", "quit2", "mask2"} => old_mask[t] = wants[t]
  /\ buffer[t].savesigs = mark[t].savesigs
  /\ buffer[t].savesigs => buffer[t].sigset = mark[t].sigset

\* A child that has not ended has a parent that waits, and has what its parent saved.
ChildOK(t) ==
  /\ child[t].pc \in {"int", "quit", "mask", "exec", "shell", "exited"} => pc[t] = "wait"
  /\ child[t].pc \in {"quit", "mask", "exec"} => child[t].disp["INT"] = old_int[t]
  /\ child[t].pc \in {"mask", "exec"} => child[t].disp["QUIT"] = old_quit[t]
  /\ child[t].pc \in {"exec", "shell"} => child[t].mask = old_mask[t]
  /\ child[t].pc = "shell" =>
       /\ child[t].disp["INT"].handler = "ign" <=> old_int[t].handler = "ign"
       /\ child[t].disp["QUIT"].handler = "ign" <=> old_quit[t].handler = "ign"

\* While no calls overlap, one thread at most is in system, and what it has saved is what
\* the program asked for.
SavedOK(t) ==
  pc[t] \in system_pcs =>
    /\ \A u \in Threads \ {t} : pc[u] \notin system_pcs
    /\ old_int[t] = prog["INT"]
    /\ pc[t] # "quit" => old_quit[t] = prog["QUIT"]

\* Which dispositions are the program's.
DispOK ==
  /\ disp["INT"] = prog["INT"] \/ \E t \in Threads : pc[t] \in {"quit", "block", "fork", "wait", "int2"}
  /\ disp["QUIT"] = prog["QUIT"] \/ \E t \in Threads : pc[t] \in {"block", "fork", "wait", "int2", "quit2"}
  /\ disp["ABRT"] = prog["ABRT"] \/ in_abort # {}

\* SIGABRT keeps its default action from abort's reset on.
AbortOK(t) ==
  /\ pc[t] = "raise2" => disp["ABRT"] = dfl
  /\ pc[t] = "trap" => dead # "no"

SharedOK ==
  ~overlap => /\ DispOK
              /\ \A t \in Threads : SavedOK(t) /\ AbortOK(t)
              /\ dead # "ILL"

SignalsInv ==
  /\ SignalsTypeOK
  /\ \A t \in Threads : MaskOK(t) /\ ChildOK(t)
  /\ SharedOK

Step(t) == Program(t) \/ System(t) \/ Abort(t) \/ __mlibc_restorer(t)

-----------------------------------------------------------------------------
(* What the calls of the kernel do *)

\* What sys_sigaction installs has a restorer, whatever it was given; a disposition that
\* was read back is installed as it was.
LEMMA SigactionInstalls ==
  ASSUME NEW d \in [Sigs -> Installed], NEW s \in Sigs, NEW act \in Actions
  PROVE  /\ sys_sigaction(d, s, act) = [d EXCEPT ![s] = [handler |-> act.handler, restorer |-> TRUE]]
         /\ sys_sigaction(d, s, act) \in [Sigs -> Installed]
         /\ act \in Installed => sys_sigaction(d, s, act) = [d EXCEPT ![s] = act]
<1>1. [act EXCEPT !.restorer = TRUE] = [handler |-> act.handler, restorer |-> TRUE]
  <2>1. \A v : [act EXCEPT !.restorer = v] = [handler |-> act.handler, restorer |-> v]
    BY DEF Actions
  <2> QED BY <2>1, Zenon
<1>2. act \in Installed => [handler |-> act.handler, restorer |-> TRUE] = act
  <2> SUFFICES ASSUME act \in Installed PROVE [handler |-> act.handler, restorer |-> TRUE] = act
    OBVIOUS
  <2>1. act = [handler |-> act.handler, restorer |-> act.restorer]
    BY DEF Installed
  <2>2. act.restorer = TRUE
    BY DEF Installed
  <2> QED BY <2>1, <2>2
<1>3. [handler |-> act.handler, restorer |-> TRUE] \in Installed
  BY DEF Actions, Installed
<1> QED BY <1>1, <1>2, <1>3 DEF sys_sigaction

\* Dispositions are actions; the two that the library sets are installed ones.
LEMMA InstalledActions == Installed \subseteq Actions /\ dfl \in Installed /\ ign \in Installed
BY DEF Installed, Actions, dfl, ign

\* A disposition that was read back is installed as it was, and the others stay.
LEMMA SigactionRestores ==
  ASSUME NEW d \in [Sigs -> Installed], NEW s \in Sigs, NEW act \in Installed
  PROVE  /\ sys_sigaction(d, s, act) = [d EXCEPT ![s] = act]
         /\ sys_sigaction(d, s, act)[s] = act
         /\ \A r \in Sigs \ {s} : sys_sigaction(d, s, act)[r] = d[r]
<1>1. sys_sigaction(d, s, act) = [d EXCEPT ![s] = act]
  BY SigactionInstalls, InstalledActions
<1> QED BY <1>1

\* sys_sigprocmask adds, removes or replaces.
LEMMA SigprocmaskSets ==
  ASSUME NEW t, NEW set
  PROVE  /\ sys_sigprocmask(t, "SIG_BLOCK", set) <=> mask' = [mask EXCEPT ![t] = @ \cup set]
         /\ sys_sigprocmask(t, "SIG_UNBLOCK", set) <=> mask' = [mask EXCEPT ![t] = @ \ set]
         /\ sys_sigprocmask(t, "SIG_SETMASK", set) <=> mask' = [mask EXCEPT ![t] = set]
BY DEF sys_sigprocmask

\* What is local to a thread stays as it is.
Keeps(u) ==
  /\ pc'[u] = pc[u] /\ mask'[u] = mask[u] /\ old_mask'[u] = old_mask[u]
  /\ old_int'[u] = old_int[u] /\ old_quit'[u] = old_quit[u]
  /\ child'[u] = child[u] /\ buffer'[u] = buffer[u] /\ context'[u] = context[u]
  /\ wants'[u] = wants[u] /\ mark'[u] = mark[u]

\* A step of one thread leaves what is local to the others alone.
LEMMA OthersKeep ==
  ASSUME SignalsTypeOK, NEW t \in Threads, Step(t), NEW u \in Threads \ {t}
  PROVE  Keeps(u)
<1> USE SigprocmaskSets
    DEF SignalsTypeOK, Keeps, begins, at, goto, continues, only_disp, only_mask, dies,
        procvars, sysvars, jmpvars, ghosts
<1>1. CASE \E s \in Sigs : \E h \in {"dfl", "ign", "own"} : program_sigaction(t, s, h)
  BY <1>1 DEF program_sigaction
<1>2. CASE \E set \in SUBSET {"INT", "CHLD"} : sys_thread_sigmask(t, set)
  BY <1>2 DEF sys_thread_sigmask
<1>3. CASE \E savesigs \in BOOLEAN : __sigsetjmp(t, savesigs)
  BY <1>3 DEF __sigsetjmp
<1>4. CASE siglongjmp(t)
  BY <1>4 DEF siglongjmp
<1>5. CASE system_int(t) \/ abort(t) \/ sys_exit(t)
  BY <1>5 DEF system_int, abort, sys_exit
<1>6. CASE \E s \in Sigs : accepts(t, s)
  BY <1>6 DEF accepts
<1>7. CASE system_quit(t) \/ system_block(t) \/ sys_fork(t) \/ sys_waitpid(t)
  BY <1>7 DEF system_quit, system_block, sys_fork, sys_waitpid
<1>8. CASE restore_int(t) \/ restore_quit(t) \/ restore_mask(t)
  BY <1>8 DEF restore_int, restore_quit, restore_mask
<1>9. CASE child_int(t) \/ child_quit(t) \/ child_mask(t) \/ sys_execve(t) \/ exec_fails(t)
           \/ shell_exits(t) \/ child_stolen(t)
  BY <1>9 DEF child_int, child_quit, child_mask, sys_execve, exec_fails, shell_exits,
              child_stolen, child_becomes
<1>10. CASE Abort(t)
  BY <1>10 DEF Abort, abort_raise,
               abort_raise_fails, abort_panics, abort_fill, abort_default, abort_raise2, trap, raise
<1>11. CASE __mlibc_restorer(t)
  BY <1>11 DEF __mlibc_restorer
<1> QED
  BY <1>1, <1>2, <1>3, <1>4, <1>5, <1>6, <1>7, <1>8, <1>9, <1>10, <1>11
  DEF Step, Program, System

\* A child that ends or is taken away stays a child.
LEMMA ChildEndTypes ==
  ASSUME SignalsTypeOK, NEW t \in Threads, exec_fails(t) \/ shell_exits(t) \/ child_stolen(t)
  PROVE  \E c \in Children : child' = [child EXCEPT ![t] = c]
<1>1. /\ [child[t] EXCEPT !.pc = "stolen"] \in Children
      /\ \A n \in Int : [child[t] EXCEPT !.pc = "exited", !.code = n] \in Children
  BY DEF SignalsTypeOK, Children, ChildPCs
<1>2. \A n \in 0..1 : n \in Int
  OBVIOUS
<1>3. CASE shell_exits(t)
  <2>1. PICK n \in 0..1 : child' = [child EXCEPT ![t] = [child[t] EXCEPT !.pc = "exited", !.code = n]]
    BY <1>3, Zenon DEF shell_exits, child_becomes
  <2> QED BY <1>1, <1>2, <2>1, Zenon
<1>4. CASE exec_fails(t)
  <2>1. 127 \in Int OBVIOUS
  <2> QED BY <1>1, <1>4, <2>1, Zenon DEF exec_fails, child_becomes
<1>5. CASE child_stolen(t)
  BY <1>1, <1>5, Zenon DEF child_stolen, child_becomes
<1> QED BY <1>3, <1>4, <1>5

\* Every step keeps the types: what is installed, saved and put back has its restorer.
LEMMA TypeStep ==
  ASSUME SignalsTypeOK, NEW t \in Threads, Step(t)
  PROVE  SignalsTypeOK'
<1> USE DEF Step, Program, System, Abort, begins, at, goto, continues, only_disp, only_mask, dies,
        procvars, sysvars, jmpvars, ghosts, program_sigaction, sys_thread_sigmask, accepts,
        __mlibc_restorer, __sigsetjmp, siglongjmp, system_int, system_quit, system_block, sys_fork,
        sys_waitpid, restore_int, restore_quit, restore_mask, child_becomes, child_int, child_quit,
        child_mask, sys_execve, exec_fails, shell_exits, child_stolen, abort, raise, abort_raise,
        abort_raise_fails, abort_panics,
        abort_fill, abort_default, abort_raise2, trap, sys_exit
<1>1. disp' \in [Sigs -> Installed]
  <2>1. \/ disp' = disp
        \/ \E s \in Sigs, act \in Actions : disp' = sys_sigaction(disp, s, act)
    BY InstalledActions DEF SignalsTypeOK, Sigs, Actions
  <2> QED BY <2>1, SigactionInstalls DEF SignalsTypeOK
<1>2. prog' \in [Sigs -> Installed]
  <2>1. \/ prog' = prog
        \/ \E s \in Sigs, act \in Actions : prog' = sys_sigaction(prog, s, act)
    BY DEF Actions, sys_sigaction
  <2> QED BY <2>1, SigactionInstalls DEF SignalsTypeOK
<1>3. mask' \in [Threads -> Masks]
  <2>1. mask' = mask \/ \E m \in Masks : mask' = [mask EXCEPT ![t] = m]
    <3>1. CASE siglongjmp(t)
      BY <3>1, SigprocmaskSets DEF SignalsTypeOK, Buffers
    <3>2. CASE __mlibc_restorer(t)
      BY <3>2, SigprocmaskSets DEF SignalsTypeOK, Contexts
    <3>3. CASE \E set \in SUBSET {"INT", "CHLD"} : sys_thread_sigmask(t, set)
      BY <3>3, SigprocmaskSets DEF Masks, Sigs
    <3>4. CASE system_block(t) \/ abort(t)
      BY <3>4, SigprocmaskSets DEF SignalsTypeOK, Masks
    <3>5. CASE restore_mask(t)
      BY <3>5, SigprocmaskSets DEF SignalsTypeOK
    <3>6. CASE abort_fill(t)
      BY <3>6, SigprocmaskSets DEF Masks
    <3>7. CASE \E s \in Sigs : accepts(t, s)
      BY <3>7, SigprocmaskSets DEF SignalsTypeOK, Masks
    <3> QED BY <3>1, <3>2, <3>3, <3>4, <3>5, <3>6, <3>7
  <2> QED BY <2>1 DEF SignalsTypeOK
<1>4. wants' \in [Threads -> Masks] /\ old_mask' \in [Threads -> Masks]
  <2>1. wants' = wants \/ \E m \in Masks : wants' = [wants EXCEPT ![t] = m]
    <3>1. CASE siglongjmp(t)
      BY <3>1 DEF SignalsTypeOK, Buffers
    <3>2. CASE \E set \in SUBSET {"INT", "CHLD"} : sys_thread_sigmask(t, set)
      BY <3>2 DEF Masks, Sigs
    <3> QED BY <3>1, <3>2
  <2>2. old_mask' = old_mask \/ old_mask' = [old_mask EXCEPT ![t] = mask[t]]
    OBVIOUS
  <2> QED BY <2>1, <2>2 DEF SignalsTypeOK
<1>5. pc' \in [Threads -> PCs]
  BY DEF SignalsTypeOK, PCs, system_pcs
<1>6. old_int' \in [Threads -> Installed] /\ old_quit' \in [Threads -> Installed]
  BY DEF SignalsTypeOK, Sigs
<1>7. status' \in [Threads -> Int]
  <2>1. \/ status' = status
        \/ status' = [status EXCEPT ![t] = -1] \/ status' = [status EXCEPT ![t] = child[t].code]
    OBVIOUS
  <2>2. child[t].code \in Int BY DEF SignalsTypeOK, Children
  <2> QED BY <2>1, <2>2 DEF SignalsTypeOK
<1>8. child' \in [Threads -> Children]
  <2>1. child' = child \/ \E c \in Children : child' = [child EXCEPT ![t] = c]
    <3>0. child[t] \in Children
      BY DEF SignalsTypeOK
    <3>1. CASE sys_fork(t)
      BY <3>1, InstalledActions DEF SignalsTypeOK, Children, ChildPCs, no_child, Masks
    <3>2. CASE sys_waitpid(t)
      <4>1. [child[t] EXCEPT !.pc = "reaped"] \in Children
        BY <3>0 DEF Children, ChildPCs
      <4> QED BY <3>2, <4>1 DEF SignalsTypeOK
    <3>3. CASE child_int(t)
      <4>0. /\ child[t].disp \in [Sigs -> Installed] /\ "INT" \in Sigs
            /\ old_int[t] \in Actions
        BY <3>0, InstalledActions DEF SignalsTypeOK, Children, Sigs
      <4>1. sys_sigaction(child[t].disp, "INT", old_int[t]) \in [Sigs -> Installed]
        BY <4>0, SigactionInstalls
      <4> QED BY <3>0, <3>3, <4>1 DEF Children, ChildPCs
    <3>4. CASE child_quit(t)
      <4>0. /\ child[t].disp \in [Sigs -> Installed] /\ "QUIT" \in Sigs
            /\ old_quit[t] \in Actions
        BY <3>0, InstalledActions DEF SignalsTypeOK, Children, Sigs
      <4>1. sys_sigaction(child[t].disp, "QUIT", old_quit[t]) \in [Sigs -> Installed]
        BY <4>0, SigactionInstalls
      <4> QED BY <3>0, <3>4, <4>1 DEF Children, ChildPCs
    <3>5. CASE child_mask(t)
      <4>1. old_mask[t] \in Masks BY DEF SignalsTypeOK
      <4> QED BY <3>0, <3>5, <4>1 DEF Children, ChildPCs
    <3>6. CASE sys_execve(t)
      <4> DEFINE d == [s \in Sigs |-> IF child[t].disp[s].handler = "ign" THEN ign ELSE dfl]
      <4>1. d \in [Sigs -> Installed]
        BY InstalledActions
      <4>2. child' = [child EXCEPT ![t] = [child[t] EXCEPT !.pc = "shell", !.disp = d]]
        BY <3>0, <3>6 DEF Children
      <4> HIDE DEF d
      <4>3. [child[t] EXCEPT !.pc = "shell", !.disp = d] \in Children
        BY <3>0, <4>1 DEF Children, ChildPCs
      <4> QED BY <4>2, <4>3
    <3>7. CASE exec_fails(t) \/ shell_exits(t) \/ child_stolen(t)
      BY <3>7, ChildEndTypes
    <3> QED BY <3>1, <3>2, <3>3, <3>4, <3>5, <3>6, <3>7
  <2> QED BY <2>1 DEF SignalsTypeOK
<1>9. buffer' \in [Threads -> Buffers] /\ mark' \in [Threads -> Buffers]
  <2>1. CASE \E savesigs \in BOOLEAN : __sigsetjmp(t, savesigs)
    BY <2>1 DEF SignalsTypeOK, Buffers, saved
  <2>2. CASE ~ \E savesigs \in BOOLEAN : __sigsetjmp(t, savesigs)
    BY <2>2 DEF SignalsTypeOK
  <2> QED BY <2>1, <2>2
<1>10. context' \in [Threads -> Contexts]
  <2>1. \/ context' = context
        \/ \E s \in Sigs : context' = [context EXCEPT ![t] = [sigset |-> mask[t], restorer |-> disp[s].restorer]]
    OBVIOUS
  <2>2. \A s \in Sigs : [sigset |-> mask[t], restorer |-> disp[s].restorer] \in Contexts
    BY DEF SignalsTypeOK, Contexts, Installed
  <2> QED BY <2>1, <2>2 DEF SignalsTypeOK
<1>11. dead' \in {"no", "INT", "QUIT", "ABRT", "ILL", "exit", "panic"}
  BY DEF SignalsTypeOK, Contexts, Sigs
<1>12. overlap' \in BOOLEAN
  BY DEF SignalsTypeOK
<1> QED
  BY <1>1, <1>2, <1>3, <1>4, <1>5, <1>6, <1>7, <1>8, <1>9, <1>10, <1>11, <1>12 DEF SignalsTypeOK

-----------------------------------------------------------------------------
(* Masks *)

\* A thread's own step: what it saved is what it expects to get back.
LEMMA MaskOwnStep ==
  ASSUME SignalsTypeOK, NEW t \in Threads, Step(t), MaskOK(t)
  PROVE  MaskOK(t)'
<1> USE SigprocmaskSets
    DEF SignalsTypeOK, MaskOK, begins, at, goto, continues, only_disp, only_mask, dies,
        procvars, sysvars, jmpvars, ghosts, system_pcs
<1>1. CASE \E s \in Sigs : \E h \in {"dfl", "ign", "own"} : program_sigaction(t, s, h)
  BY <1>1 DEF program_sigaction
<1>2. CASE \E set \in SUBSET {"INT", "CHLD"} : sys_thread_sigmask(t, set)
  BY <1>2 DEF sys_thread_sigmask
<1>3. CASE \E savesigs \in BOOLEAN : __sigsetjmp(t, savesigs)
  BY <1>3 DEF __sigsetjmp, saved
<1>4. CASE siglongjmp(t)
  BY <1>4 DEF siglongjmp, Buffers
<1>5. CASE system_int(t) \/ abort(t) \/ sys_exit(t)
  BY <1>5 DEF system_int, abort, sys_exit
<1>6. CASE \E s \in Sigs : accepts(t, s)
  BY <1>6 DEF accepts
<1>7. CASE system_quit(t) \/ system_block(t)
  BY <1>7 DEF system_quit, system_block
<1>8. CASE sys_fork(t) \/ sys_waitpid(t)
  BY <1>8 DEF sys_fork, sys_waitpid
<1>9. CASE restore_int(t) \/ restore_quit(t) \/ restore_mask(t)
  BY <1>9 DEF restore_int, restore_quit, restore_mask
<1>10. CASE child_int(t) \/ child_quit(t) \/ child_mask(t) \/ sys_execve(t) \/ exec_fails(t)
            \/ shell_exits(t) \/ child_stolen(t)
  BY <1>10 DEF child_int, child_quit, child_mask, sys_execve, exec_fails, shell_exits,
               child_stolen, child_becomes
<1>11. CASE Abort(t)
  BY <1>11 DEF Abort, abort_raise,
               abort_raise_fails, abort_panics, abort_fill, abort_default, abort_raise2, trap, raise
<1>12. CASE __mlibc_restorer(t)
  <2>1. context[t].restorer
    BY DEF Contexts
  <2>2. mask' = [mask EXCEPT ![t] = context[t].sigset]
    BY <1>12, <2>1 DEF __mlibc_restorer
  <2> QED BY <1>12, <2>2 DEF __mlibc_restorer
<1> QED
  BY <1>1, <1>2, <1>3, <1>4, <1>5, <1>6, <1>7, <1>8, <1>9, <1>10, <1>11, <1>12
  DEF Step, Program, System

\* A step of any thread keeps every thread's mask recoverable.
LEMMA MaskStep ==
  ASSUME SignalsTypeOK, \A u \in Threads : MaskOK(u), NEW t \in Threads, Step(t)
  PROVE  \A u \in Threads : MaskOK(u)'
<1>1. MaskOK(t)'
  BY MaskOwnStep
<1>2. ASSUME NEW u \in Threads \ {t} PROVE MaskOK(u)'
  BY OthersKeep DEF MaskOK, Keeps
<1> QED BY <1>1, <1>2

-----------------------------------------------------------------------------
(* The child of system *)

\* What the child of system installs is what its parent saved, as it was.
LEMMA ChildInstalls ==
  ASSUME SignalsTypeOK, NEW t \in Threads
  PROVE  /\ sys_sigaction(child[t].disp, "INT", old_int[t]) = [child[t].disp EXCEPT !["INT"] = old_int[t]]
         /\ sys_sigaction(child[t].disp, "QUIT", old_quit[t]) = [child[t].disp EXCEPT !["QUIT"] = old_quit[t]]
<1>1. /\ child[t].disp \in [Sigs -> Installed] /\ "INT" \in Sigs /\ "QUIT" \in Sigs
      /\ old_int[t] \in Installed /\ old_quit[t] \in Installed
  BY DEF SignalsTypeOK, Children, Sigs
<1>2. \A d \in [Sigs -> Installed], s \in Sigs, act \in Installed :
        sys_sigaction(d, s, act) = [d EXCEPT ![s] = act]
  BY SigactionRestores
<1> QED BY <1>1, <1>2, Zenon

\* A thread's own step: the child gets what its parent saved, and the parent waits for it
\* with nothing of that changed.
LEMMA ChildOwnStep ==
  ASSUME SignalsTypeOK, NEW t \in Threads, Step(t), ChildOK(t)
  PROVE  ChildOK(t)'
<1>s. /\ sys_sigaction(child[t].disp, "INT", old_int[t]) = [child[t].disp EXCEPT !["INT"] = old_int[t]]
       /\ sys_sigaction(child[t].disp, "QUIT", old_quit[t]) = [child[t].disp EXCEPT !["QUIT"] = old_quit[t]]
  BY ChildInstalls
<1> USE DEF SignalsTypeOK, begins, at, goto, continues, only_disp, only_mask, dies,
            procvars, sysvars, jmpvars, ghosts
<1>0. child[t] \in Children /\ old_int[t] \in Installed /\ old_quit[t] \in Installed
  OBVIOUS
<1>1. CASE Program(t)
  BY <1>1 DEF ChildOK, Program, program_sigaction, sys_thread_sigmask, __sigsetjmp, siglongjmp,
              system_int, abort, sys_exit, accepts
<1>2. CASE system_quit(t) \/ system_block(t)
  BY <1>2 DEF ChildOK, system_quit, system_block
<1>3. CASE sys_fork(t)
  BY <1>3 DEF ChildOK, sys_fork, no_child
<1>4. CASE sys_waitpid(t)
  BY <1>0, <1>4 DEF ChildOK, sys_waitpid, Children
<1>5. CASE restore_int(t) \/ restore_quit(t) \/ restore_mask(t)
  BY <1>5 DEF ChildOK, restore_int, restore_quit, restore_mask
<1>6. CASE child_int(t)
  BY <1>0, <1>s, <1>6 DEF ChildOK, child_int, child_becomes, Children, Sigs
<1>7. CASE child_quit(t)
  BY <1>0, <1>s, <1>7 DEF ChildOK, child_quit, child_becomes, Children, Sigs
<1>8. CASE child_mask(t)
  BY <1>0, <1>8 DEF ChildOK, child_mask, child_becomes, Children
<1>9. CASE sys_execve(t)
  BY <1>0, <1>9 DEF ChildOK, sys_execve, child_becomes, Children, ign, dfl, Sigs
<1>10. CASE exec_fails(t) \/ shell_exits(t) \/ child_stolen(t)
  <2>1. child[t].pc \in {"exec", "shell", "exited"} /\ pc' = pc
    BY <1>10 DEF exec_fails, shell_exits, child_stolen, child_becomes
  <2>2. child'[t].pc \in {"exited", "stolen"}
    <3>1. /\ [child[t] EXCEPT !.pc = "stolen"].pc = "stolen"
          /\ \A n : [child[t] EXCEPT !.pc = "exited", !.code = n].pc = "exited"
      BY <1>0 DEF Children
    <3>2. \A c : child' = [child EXCEPT ![t] = c] => child'[t] = c
      OBVIOUS
    <3>3. \/ child'[t] = [child[t] EXCEPT !.pc = "stolen"]
          \/ \E n : child'[t] = [child[t] EXCEPT !.pc = "exited", !.code = n]
      BY <1>10, <3>2, Zenon DEF exec_fails, shell_exits, child_stolen, child_becomes
    <3> QED BY <3>1, <3>3, Zenon
  <2> QED BY <2>1, <2>2 DEF ChildOK
<1>11. CASE Abort(t) \/ __mlibc_restorer(t)
  BY <1>11 DEF ChildOK, Abort, abort_raise,
               abort_raise_fails, abort_panics, abort_fill, abort_default, abort_raise2, trap, raise,
               __mlibc_restorer
<1> QED
  BY <1>1, <1>2, <1>3, <1>4, <1>5, <1>6, <1>7, <1>8, <1>9, <1>10, <1>11 DEF Step, System

\* A step of any thread keeps every child as its parent saved it.
LEMMA ChildStep ==
  ASSUME SignalsTypeOK, \A u \in Threads : ChildOK(u), NEW t \in Threads, Step(t)
  PROVE  \A u \in Threads : ChildOK(u)'
<1>1. ChildOK(t)'
  BY ChildOwnStep
<1>2. ASSUME NEW u \in Threads \ {t} PROVE ChildOK(u)'
  BY OthersKeep DEF ChildOK, Keeps
<1> QED BY <1>1, <1>2

-----------------------------------------------------------------------------
(* Dispositions *)

int_pcs  == {"quit", "block", "fork", "wait", "int2"}
quit_pcs == {"block", "fork", "wait", "int2", "quit2"}
abort_pcs == {"raise", "fill", "default", "raise2", "trap"}

sets_disposition(t) ==
  \E s \in Sigs : \E h \in {"dfl", "ign", "own"} : program_sigaction(t, s, h)

\* Nothing happens in a dead process, and overlap is remembered.
LEMMA StepFrame ==
  ASSUME SignalsTypeOK, NEW t \in Threads, Step(t)
  PROVE  /\ dead = "no"
         /\ overlap => overlap'
         /\ sets_disposition(t) /\ ~overlap' => in_system \cup in_abort = {}
         /\ system_int(t) /\ ~overlap' => in_system = {}
<1> USE DEF begins, at, goto
<1>1. dead = "no"
  BY DEF Step, Program, System, Abort, program_sigaction, sys_thread_sigmask, accepts,
         __mlibc_restorer, __sigsetjmp, siglongjmp, system_int, system_quit, system_block, sys_fork,
         sys_waitpid, restore_int, restore_quit, restore_mask, child_becomes, child_int, child_quit,
         child_mask, sys_execve, exec_fails, shell_exits, child_stolen, abort, raise, abort_raise,
         abort_raise_fails, abort_panics,
         abort_fill, abort_default, abort_raise2, trap, sys_exit
<1>2. sets_disposition(t) => (overlap => overlap') /\ (~overlap' => in_system \cup in_abort = {})
  BY Zenon DEF sets_disposition, program_sigaction
<1>3. system_int(t) => (overlap => overlap') /\ (~overlap' => in_system = {})
  BY Zenon DEF system_int
<1>4. ~ sets_disposition(t) /\ ~ system_int(t) => overlap' = overlap
  BY DEF Step, Program, System, Abort, sets_disposition, sys_thread_sigmask, accepts, ghosts,
         __mlibc_restorer, __sigsetjmp, siglongjmp, system_quit, system_block, sys_fork,
         sys_waitpid, restore_int, restore_quit, restore_mask, child_becomes, child_int, child_quit,
         child_mask, sys_execve, exec_fails, shell_exits, child_stolen, abort, raise, abort_raise,
         abort_raise_fails, abort_panics,
         abort_fill, abort_default, abort_raise2, trap, sys_exit
<1>5. overlap' = overlap => (overlap => overlap')
  BY SMT
<1> QED BY <1>1, <1>2, <1>3, <1>4, <1>5

\* Who changes the dispositions, and where a thread goes from which step.
LEMMA DispFrame ==
  ASSUME SignalsTypeOK, NEW t \in Threads, Step(t),
         ~ sets_disposition(t), ~ system_int(t), ~ system_quit(t), ~ restore_int(t),
         ~ restore_quit(t), ~ abort_default(t)
  PROVE  /\ disp' = disp
         /\ pc[t] \in int_pcs => pc'[t] \in int_pcs
         /\ pc[t] \in quit_pcs => pc'[t] \in quit_pcs
         /\ pc[t] \in abort_pcs => pc'[t] \in abort_pcs
         /\ pc'[t] \in system_pcs => pc[t] \in system_pcs \ {"quit"} \/ pc'[t] = pc[t]
         /\ UNCHANGED <<prog, old_int, old_quit>>
         /\ pc'[t] = "raise2" => pc[t] = "raise2"
<1> USE DEF SignalsTypeOK, begins, at, goto, continues, only_disp, only_mask, dies,
            procvars, sysvars, jmpvars, ghosts, int_pcs, quit_pcs, abort_pcs, system_pcs
<1>1. CASE Program(t)
  BY <1>1 DEF Program, sets_disposition, sys_thread_sigmask, __sigsetjmp, siglongjmp,
              abort, sys_exit, accepts
<1>2. CASE System(t)
  BY <1>2 DEF System, system_block, sys_fork, sys_waitpid, restore_mask, child_int, child_quit,
              child_mask, sys_execve, exec_fails, shell_exits, child_stolen, child_becomes
<1>3. CASE Abort(t) \/ __mlibc_restorer(t)
  BY <1>3 DEF Abort, abort_raise,
              abort_raise_fails, abort_panics, abort_fill, abort_raise2, trap, raise, __mlibc_restorer
<1> QED BY <1>1, <1>2, <1>3 DEF Step

\* While no calls overlap, the dispositions that differ from the program's are those that
\* a thread in system or abort will see to.
LEMMA DispStep ==
  ASSUME SignalsTypeOK, ~overlap', DispOK, \A u \in Threads : SavedOK(u),
         NEW t \in Threads, Step(t)
  PROVE  DispOK'
<1>1. \A u \in Threads \ {t} : pc'[u] = pc[u]
  BY OthersKeep DEF Keeps
<1>2. CASE sets_disposition(t)
  <2>1. PICK s \in Sigs, h \in {"dfl", "ign", "own"} : program_sigaction(t, s, h)
    BY <1>2 DEF sets_disposition
  <2>2. in_system \cup in_abort = {}
    BY <1>2, StepFrame, Zenon
  <2>3. disp["INT"] = prog["INT"] /\ disp["QUIT"] = prog["QUIT"] /\ disp["ABRT"] = prog["ABRT"]
    BY <2>2 DEF DispOK, in_system, in_abort, system_pcs
  <2>4. disp' = sys_sigaction(disp, s, [handler |-> h, restorer |-> FALSE])
        /\ prog' = sys_sigaction(prog, s, [handler |-> h, restorer |-> FALSE])
    BY <2>1 DEF program_sigaction, sys_sigaction
  <2>5. disp = prog
    BY <2>3 DEF SignalsTypeOK, Sigs
  <2> QED BY <2>4, <2>5 DEF DispOK
<1>3. CASE system_int(t)
  <2>1. pc'[t] = "quit" /\ pc[t] = "run" /\ prog' = prog
    BY <1>3 DEF system_int, begins, goto, SignalsTypeOK
  <2>2. ign \in Installed /\ disp \in [Sigs -> Installed] /\ "INT" \in Sigs
    BY InstalledActions DEF SignalsTypeOK, Sigs
  <2>3. disp' = sys_sigaction(disp, "INT", ign)
    BY <1>3 DEF system_int
  <2>4. disp' = [disp EXCEPT !["INT"] = ign]
    BY <2>2, <2>3, SigactionRestores
  <2> QED BY <1>1, <2>1, <2>4 DEF DispOK, SignalsTypeOK, in_abort
<1>4. CASE system_quit(t)
  <2>1. pc'[t] = "block" /\ pc[t] = "quit" /\ prog' = prog
    BY <1>4 DEF system_quit, at, goto, ghosts, SignalsTypeOK
  <2>2. ign \in Installed /\ disp \in [Sigs -> Installed] /\ "QUIT" \in Sigs
    BY InstalledActions DEF SignalsTypeOK, Sigs
  <2>3. disp' = sys_sigaction(disp, "QUIT", ign)
    BY <1>4 DEF system_quit
  <2>4. disp' = [disp EXCEPT !["QUIT"] = ign]
    BY <2>2, <2>3, SigactionRestores
  <2> QED BY <1>1, <2>1, <2>4 DEF DispOK, SignalsTypeOK, in_abort
<1>5. CASE restore_int(t)
  <2>1. pc'[t] = "quit2" /\ pc[t] = "int2" /\ prog' = prog
    BY <1>5 DEF restore_int, at, goto, ghosts, SignalsTypeOK
  <2>2. old_int[t] = prog["INT"]
    BY <2>1 DEF SavedOK, system_pcs
  <2>3. prog["INT"] \in Installed /\ disp \in [Sigs -> Installed] /\ "INT" \in Sigs
    BY DEF SignalsTypeOK, Sigs
  <2>4. disp' = sys_sigaction(disp, "INT", prog["INT"])
    BY <1>5, <2>2 DEF restore_int
  <2>5. disp'["INT"] = prog["INT"] /\ \A s \in Sigs : disp'[s] = disp[s] \/ disp'[s] = prog[s]
    BY <2>3, <2>4, SigactionRestores
  <2> QED BY <1>1, <2>1, <2>5 DEF DispOK, in_abort, Sigs
<1>6. CASE restore_quit(t)
  <2>1. pc'[t] = "mask2" /\ pc[t] = "quit2" /\ prog' = prog
    BY <1>6 DEF restore_quit, at, goto, ghosts, SignalsTypeOK
  <2>2. old_quit[t] = prog["QUIT"]
    BY <2>1 DEF SavedOK, system_pcs
  <2>3. prog["QUIT"] \in Installed /\ disp \in [Sigs -> Installed] /\ "QUIT" \in Sigs
    BY DEF SignalsTypeOK, Sigs
  <2>4. disp' = sys_sigaction(disp, "QUIT", prog["QUIT"])
    BY <1>6, <2>2 DEF restore_quit
  <2>5. disp'["QUIT"] = prog["QUIT"] /\ \A s \in Sigs : disp'[s] = disp[s] \/ disp'[s] = prog[s]
    BY <2>3, <2>4, SigactionRestores
  <2> QED BY <1>1, <2>1, <2>5 DEF DispOK, in_abort, Sigs
<1>7. CASE abort_default(t)
  <2>1. pc'[t] = "raise2" /\ pc[t] = "default" /\ prog' = prog
    BY <1>7 DEF abort_default, at, goto, ghosts, SignalsTypeOK
  <2>2. dfl \in Installed /\ disp \in [Sigs -> Installed] /\ "ABRT" \in Sigs
    BY InstalledActions DEF SignalsTypeOK, Sigs
  <2>3. disp' = sys_sigaction(disp, "ABRT", dfl)
    BY <1>7 DEF abort_default
  <2>4. disp' = [disp EXCEPT !["ABRT"] = dfl]
    BY <2>2, <2>3, SigactionRestores
  <2> QED BY <1>1, <2>1, <2>4 DEF DispOK, SignalsTypeOK, in_abort
<1>8. CASE /\ ~ sets_disposition(t) /\ ~ system_int(t) /\ ~ system_quit(t)
           /\ ~ restore_int(t) /\ ~ restore_quit(t) /\ ~ abort_default(t)
  BY <1>1, <1>8, DispFrame DEF DispOK, in_abort, int_pcs, quit_pcs, abort_pcs
<1> QED BY <1>2, <1>3, <1>4, <1>5, <1>6, <1>7, <1>8

\* While no calls overlap, the thread in system, one at most, has saved what the program
\* asked for.
LEMMA SavedStep ==
  ASSUME SignalsTypeOK, ~overlap', DispOK, \A u \in Threads : SavedOK(u),
         NEW t \in Threads, Step(t)
  PROVE  \A u \in Threads : SavedOK(u)'
<1>1. \A u \in Threads \ {t} : pc'[u] = pc[u] /\ old_int'[u] = old_int[u] /\ old_quit'[u] = old_quit[u]
  BY OthersKeep DEF Keeps
<1>2. CASE sets_disposition(t)
  <2>1. in_system = {}
    BY <1>2, StepFrame, Zenon
  <2>2. pc'[t] = "run"
    BY <1>2 DEF sets_disposition, program_sigaction, begins, goto, SignalsTypeOK
  <2> QED BY <1>1, <2>1, <2>2 DEF SavedOK, in_system, system_pcs
<1>3. CASE system_int(t)
  <2>1. in_system = {}
    BY <1>3, StepFrame
  <2>2. pc'[t] = "quit" /\ prog' = prog /\ old_int'[t] = disp["INT"]
    BY <1>3 DEF system_int, begins, goto, SignalsTypeOK
  <2>3. disp["INT"] = prog["INT"]
    BY <2>1 DEF DispOK, in_system, system_pcs
  <2> QED BY <1>1, <2>1, <2>2, <2>3 DEF SavedOK, in_system
<1>4. CASE system_quit(t)
  <2>1. pc[t] = "quit" /\ pc'[t] = "block" /\ prog' = prog
        /\ old_int'[t] = old_int[t] /\ old_quit'[t] = disp["QUIT"]
    BY <1>4 DEF system_quit, at, goto, ghosts, SignalsTypeOK
  <2>2. \A u \in Threads \ {t} : pc[u] \notin system_pcs
    BY <2>1 DEF SavedOK, system_pcs
  <2>3. disp["QUIT"] = prog["QUIT"]
    BY <2>1, <2>2 DEF DispOK, system_pcs
  <2>4. old_int[t] = prog["INT"]
    BY <2>1 DEF SavedOK, system_pcs
  <2> QED BY <1>1, <2>1, <2>2, <2>3, <2>4 DEF SavedOK
<1>5. CASE restore_int(t) \/ restore_quit(t) \/ abort_default(t)
  <2>1. /\ (pc[t] \in system_pcs /\ pc[t] # "quit") \/ pc'[t] \notin system_pcs
        /\ UNCHANGED <<prog, old_int, old_quit>>
    BY <1>5 DEF restore_int, restore_quit, abort_default, at, goto, ghosts, sysvars, SignalsTypeOK,
                system_pcs
  <2> QED BY <1>1, <2>1 DEF SavedOK
<1>6. CASE /\ ~ sets_disposition(t) /\ ~ system_int(t) /\ ~ system_quit(t)
           /\ ~ restore_int(t) /\ ~ restore_quit(t) /\ ~ abort_default(t)
  <2>1. /\ pc'[t] \in system_pcs => pc[t] \in system_pcs /\ (pc'[t] # "quit" => pc[t] # "quit")
        /\ UNCHANGED <<prog, old_int, old_quit>>
    BY <1>6, DispFrame DEF system_pcs
  <2> QED BY <1>1, <2>1 DEF SavedOK
<1> QED BY <1>2, <1>3, <1>4, <1>5, <1>6

\* While no calls overlap, no thread gets to the trap behind abort's second raise.
LEMMA AbortStep ==
  ASSUME SignalsTypeOK, ~overlap', \A u \in Threads : AbortOK(u), dead # "ILL",
         NEW t \in Threads, Step(t)
  PROVE  (\A u \in Threads : AbortOK(u)') /\ dead' # "ILL"
<1>1. \A u \in Threads \ {t} : pc'[u] = pc[u]
  BY OthersKeep DEF Keeps
<1>2. dead = "no" /\ \A u \in Threads : pc[u] # "trap"
  BY StepFrame DEF AbortOK
<1>3. \A u \in Threads : pc[u] = "raise2" => disp'["ABRT"] = dfl
  <2>1. CASE sets_disposition(t)
    BY <2>1, StepFrame DEF in_abort
  <2>2. CASE abort_default(t)
    BY <2>2, SigactionRestores, InstalledActions DEF abort_default, SignalsTypeOK, Sigs
  <2>3. CASE ~ sets_disposition(t) /\ ~ abort_default(t)
    <3>1. disp'["ABRT"] = disp["ABRT"]
      BY <2>3, DispFrame DEF system_int, system_quit, restore_int, restore_quit, sys_sigaction, SignalsTypeOK, Sigs
    <3> QED BY <3>1 DEF AbortOK
  <2> QED BY <2>1, <2>2, <2>3
<1>4. dead' # "ILL"
  BY <1>2 DEF Step, Program, System, Abort, begins, at, goto, only_disp, only_mask, dies, procvars,
         program_sigaction, sys_thread_sigmask, accepts, Sigs, 
         __mlibc_restorer, __sigsetjmp, siglongjmp, system_int, system_quit, system_block, sys_fork,
         sys_waitpid, restore_int, restore_quit, restore_mask, child_becomes, child_int, child_quit,
         child_mask, sys_execve, exec_fails, shell_exits, child_stolen, abort, raise, abort_raise,
         abort_raise_fails, abort_panics,
         abort_fill, abort_default, abort_raise2, trap, sys_exit
<1>5. CASE abort_default(t)
  <2>1. pc'[t] = "raise2"
    BY <1>5 DEF abort_default, at, goto, SignalsTypeOK
  <2>2. disp'["ABRT"] = dfl
    BY <1>5, SigactionRestores, InstalledActions DEF abort_default, SignalsTypeOK, Sigs
  <2> QED BY <1>1, <1>2, <1>4, <2>1, <2>2 DEF AbortOK
<1>6. CASE abort_raise2(t)
  <2>1. pc[t] = "raise2" /\ pc'[t] = "trap" /\ disp' = disp
    BY <1>6 DEF abort_raise2, raise, at, goto, SignalsTypeOK, dies, procvars
  <2>2. disp["ABRT"].handler = "dfl"
    BY <2>1 DEF AbortOK, dfl
  <2>3. dead' = "ABRT"
    BY <1>6, <2>2 DEF abort_raise2, raise, dies
  <2> QED BY <1>1, <1>2, <1>3, <1>4, <2>1, <2>3 DEF AbortOK
<1>7. CASE abort_panics(t)
  <2>1. pc'[t] = "trap" /\ dead' = "panic"
    BY <1>7 DEF abort_panics, at, goto, dies, SignalsTypeOK
  <2> QED BY <1>1, <1>2, <1>3, <1>4, <2>1 DEF AbortOK
<1>8. CASE ~ abort_default(t) /\ ~ abort_raise2(t) /\ ~ abort_panics(t)
  <2>1. pc'[t] \notin {"raise2", "trap"} \/ pc'[t] = pc[t]
    BY <1>2, <1>8 DEF Step, Program, System, Abort, begins, at, goto, 
         program_sigaction, sys_thread_sigmask, accepts, SignalsTypeOK,
         __mlibc_restorer, __sigsetjmp, siglongjmp, system_int, system_quit, system_block, sys_fork,
         sys_waitpid, restore_int, restore_quit, restore_mask, child_becomes, child_int, child_quit,
         child_mask, sys_execve, exec_fails, shell_exits, child_stolen, abort, raise, abort_raise,
         abort_raise_fails,
         abort_fill, trap, sys_exit
  <2> QED BY <1>1, <1>2, <1>3, <1>4, <2>1 DEF AbortOK
<1> QED BY <1>5, <1>6, <1>7, <1>8

-----------------------------------------------------------------------------
(* The inductive invariant *)

\* What the first state is like.
LEMMA SignalsInit == Init => SignalsInv
<1> SUFFICES ASSUME Init PROVE SignalsInv
  OBVIOUS
<1>1. SignalsTypeOK
  <2>1. disp \in [Sigs -> Installed] /\ prog \in [Sigs -> Installed]
    <3>1. [handler |-> "own", restorer |-> TRUE] \in Installed BY DEF Installed
    <3> QED BY <3>1, InstalledActions DEF Init
  <2>2. no_child \in Children
    BY InstalledActions DEF no_child, Children, ChildPCs, Masks
  <2>3. {} \in Masks /\ "run" \in PCs /\ [savesigs |-> FALSE, sigset |-> {}] \in Buffers
        /\ [sigset |-> {}, restorer |-> TRUE] \in Contexts
    BY DEF Masks, PCs, Buffers, Contexts
  <2>4. mask \in [Threads -> Masks] /\ wants \in [Threads -> Masks] /\ old_mask \in [Threads -> Masks]
        /\ pc \in [Threads -> PCs] /\ status \in [Threads -> Int]
    BY <2>3 DEF Init
  <2>5. /\ old_int \in [Threads -> Installed] /\ old_quit \in [Threads -> Installed]
        /\ child \in [Threads -> Children]
    BY <2>2, InstalledActions DEF Init
  <2>6. /\ buffer \in [Threads -> Buffers] /\ mark \in [Threads -> Buffers]
        /\ context \in [Threads -> Contexts]
    BY <2>3, Zenon DEF Init
  <2>7. dead \in {"no", "INT", "QUIT", "ABRT", "ILL", "exit", "panic"} /\ overlap \in BOOLEAN
    BY DEF Init
  <2> QED BY <2>1, <2>4, <2>5, <2>6, <2>7 DEF SignalsTypeOK
<1>2. ASSUME NEW t \in Threads PROVE MaskOK(t) /\ ChildOK(t)
  BY DEF Init, MaskOK, ChildOK, no_child
<1>3. SharedOK
  BY DEF Init, SharedOK, DispOK, SavedOK, AbortOK, system_pcs
<1> QED BY <1>1, <1>2, <1>3 DEF SignalsInv

\* The invariant is inductive.
LEMMA SignalsNext == SignalsInv /\ [Next]_vars => SignalsInv'
<1> SUFFICES ASSUME SignalsInv, [Next]_vars PROVE SignalsInv'
  OBVIOUS
<1>1. CASE Next
  <2>1. PICK t \in Threads : Step(t)
    BY <1>1 DEF Next, Step
  <2>2. SignalsTypeOK' /\ \A u \in Threads : MaskOK(u)' /\ ChildOK(u)'
    BY <2>1, TypeStep, MaskStep, ChildStep DEF SignalsInv
  <2>3. ASSUME ~overlap'
        PROVE  DispOK' /\ (\A u \in Threads : SavedOK(u)' /\ AbortOK(u)') /\ dead' # "ILL"
    <3>1. ~overlap
      BY <2>1, <2>3, StepFrame DEF SignalsInv
    <3>2. SignalsTypeOK /\ DispOK /\ (\A u \in Threads : SavedOK(u) /\ AbortOK(u)) /\ dead # "ILL"
      BY <3>1 DEF SignalsInv, SharedOK
    <3> QED BY <2>1, <2>3, <3>2, DispStep, SavedStep, AbortStep
  <2>4. SharedOK'
    BY <2>3 DEF SharedOK
  <2> QED BY <2>2, <2>4 DEF SignalsInv
<1>2. CASE UNCHANGED vars
  BY <1>2 DEF vars, procvars, sysvars, jmpvars, ghosts, SignalsInv, SignalsTypeOK, SharedOK, DispOK,
              SavedOK, AbortOK, MaskOK, ChildOK, in_abort
<1> QED BY <1>1, <1>2

\* The invariant holds in every reachable state.
LEMMA SignalsInvariant == Spec => []SignalsInv
BY SignalsInit, SignalsNext, PTL DEF Spec

-----------------------------------------------------------------------------
(* Theorems *)

\* Types; in particular every disposition that is installed, and every handler that runs,
\* has a restorer (sys_sigaction), and nothing crashes for the lack of one.
THEOREM SignalsTypeCorrect == Spec => []SignalsTypeOK
BY SignalsInvariant, PTL DEF SignalsInv

\* Whatever the threads call, in any order, a thread that is back from system, a handler or
\* siglongjmp has the mask that it asked for.
THEOREM MasksComeBack == Spec => []MaskRestored
<1>1. SignalsInv => MaskRestored
  BY DEF SignalsInv, SignalsTypeOK, MaskOK, MaskRestored
<1> QED BY <1>1, SignalsInvariant, PTL

\* system leaves the dispositions as the program set them, unless calls of it overlapped or
\* the program changed a disposition meanwhile.
THEOREM DispositionsComeBack == Spec => []DispositionsRestored
<1>1. SignalsInv => DispositionsRestored
  <2> SUFFICES ASSUME SignalsInv, ~overlap, in_system \cup in_abort = {} PROVE disp = prog
    BY DEF DispositionsRestored
  <2>1. \A t \in Threads : pc[t] \notin system_pcs
    BY DEF in_system
  <2>2. disp["INT"] = prog["INT"] /\ disp["QUIT"] = prog["QUIT"] /\ disp["ABRT"] = prog["ABRT"]
    BY <2>1 DEF SignalsInv, SharedOK, DispOK, system_pcs
  <2> QED BY <2>2 DEF SignalsInv, SignalsTypeOK, Sigs
<1> QED BY <1>1, SignalsInvariant, PTL

\* The shell that system starts has the mask that the calling thread had, and ignores SIGINT
\* and SIGQUIT exactly if the program did.
THEOREM ShellsStartAsProgram == Spec => []ShellStartsAsProgram
<1>1. SignalsInv => ShellStartsAsProgram
  <2> SUFFICES ASSUME SignalsInv, NEW t \in Threads, child[t].pc = "shell"
               PROVE  /\ child[t].mask = wants[t]
                      /\ ~overlap => \A s \in {"INT", "QUIT"} :
                           child[t].disp[s].handler = "ign" <=> prog[s].handler = "ign"
    BY DEF ShellStartsAsProgram
  <2>1. pc[t] = "wait" /\ child[t].mask = old_mask[t]
    BY DEF SignalsInv, ChildOK
  <2>2. child[t].mask = wants[t]
    BY <2>1 DEF SignalsInv, MaskOK
  <2>3. ~overlap => old_int[t] = prog["INT"] /\ old_quit[t] = prog["QUIT"]
    BY <2>1 DEF SignalsInv, SharedOK, SavedOK, system_pcs
  <2>4. /\ child[t].disp["INT"].handler = "ign" <=> old_int[t].handler = "ign"
        /\ child[t].disp["QUIT"].handler = "ign" <=> old_quit[t].handler = "ign"
    BY DEF SignalsInv, ChildOK
  <2> QED BY <2>2, <2>3, <2>4
<1> QED BY <1>1, SignalsInvariant, PTL

\* The safety part of AbortEnds: abort reaches the trap behind its second raise only if
\* another thread changed the disposition meanwhile, or calls of system overlapped.
THEOREM AbortEndsBySignal == Spec => [](dead = "ILL" => overlap)
<1>1. SignalsInv => (dead = "ILL" => overlap)
  BY DEF SignalsInv, SharedOK
<1> QED BY <1>1, SignalsInvariant, PTL


=============================================================================
