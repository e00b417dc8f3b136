----------------------- MODULE InitInterpreterProofs -----------------------
(***************************************************************************)
(* init's start gate, for any number of processes, terminals, slots and    *)
(* for every configuration: types, no program before the last directive,   *)
(* no program at all after a bad one, no child killed by its start signal, *)
(* the implementation of StartGate, and what a program finds when it runs. *)
(*                                                                         *)
(* Everything rests on IInv: where init is decides which children can have *)
(* been recorded and signalled (InitInv, ChildrenInv), and a child that is *)
(* past its gate has consumed its only signal (SignalInv).  DoneInv,       *)
(* SnapshotInv and PreparedInv add what the lines above have done, what a  *)
(* child has copied of it, and how far its terminal is prepared.           *)
(***************************************************************************)
EXTENDS InitInterpreter, TLAPS

\* An integer argument evaluates to a value of g_values.
LEMMA EvalInt == ASSUME NEW v PROVE eval_int(v) \subseteq {TTY_TEXT, TTY_GFX, OPT_CLEAR}
  <1>1. ASSUME NEW n, NEW e \in table_lookup(g_values, n, "int")
        PROVE  e.type = "int" /\ e.value \in {TTY_TEXT, TTY_GFX, OPT_CLEAR}
    BY DEF table_lookup, g_values
  <1>2. ASSUME NEW e, e.type = "int" PROVE eval_entry(e) = {e.value}
    BY <1>2 DEF eval_entry
  <1>3. eval_literal(v, "int") = {}
    BY DEF eval_literal
  <1> QED BY <1>1, <1>2, <1>3 DEF eval_int, eval

\* g_values has no strings: a string argument is itself or an error.
LEMMA EvalString == ASSUME NEW v \in Seq(STRING) PROVE eval_string(v) \subseteq Seq(STRING)
  <1>1. ASSUME NEW n PROVE table_lookup(g_values, n, "string") = {}
    BY DEF table_lookup, g_values
  <1>2. eval_literal(v, "string") \subseteq Seq(STRING)
    BY DEF eval_literal
  <1> QED BY <1>1, <1>2 DEF eval_string, eval

\* table_lookup returns the first match only, so a directive has at most one
\* callback.
LEMMA OneCallback ==
  ASSUME NEW v, NEW f \in callback(v), NEW g \in callback(v)
  PROVE  f = g
  <1>1. ASSUME NEW n, NEW e \in table_lookup(g_directives, n, "function"),
               NEW h \in table_lookup(g_directives, n, "function")
        PROVE  e = h
    BY DEF table_lookup, g_directives
  <1> QED BY <1>1 DEF callback

\* What cb_tty's write to g_children does to the recorded children.
LEMMA Recorded ==
  ASSUME NEW s \in Seq(Pids), NEW p \in Pids
  PROVE  /\ Len(s) \in Nat
         /\ Len(Append(s, p)) = Len(s) + 1
         /\ Append(s, p)[Len(s) + 1] = p
         /\ \A j \in 1..Len(s) : Append(s, p)[j] = s[j]
  OBVIOUS

-----------------------------------------------------------------------------
(* The inductive invariant. *)

\* init has called kill for p.
signalled(p) == \E j \in 1..(k - 1) : g_children[j] = p

\* Where init is when a child can have been forked, recorded or notified.
InitInv ==
  /\ g_tty_lock[InitPid] = 1
  /\ pc \in {"directive", "record", "notify", "overrun"} => disposition[InitPid] = "handler"
  /\ pc = "record" => i <= Len(directives) /\ pid \in Pids
  /\ k > 1 => notified
  /\ r # "none" => pc = "exited"

\* The recorded children are distinct processes that were forked; the one
\* about to be recorded is new.
ChildrenInv ==
  /\ \A j \in 1..Len(g_children) : cpc[g_children[j]] # "none"
  /\ \A j, l \in 1..Len(g_children) : g_children[j] = g_children[l] => j = l
  /\ pc = "record" => /\ cpc[pid] # "none"
                      /\ \A j \in 1..Len(g_children) : g_children[j] # pid

\* A child's signal is sent once, is consumed by the handler, and only then is
\* the child past its gate.
SignalInv ==
  \A p \in Pids :
    /\ cpc[p] \in {"open", "session", "ctty", "mode", "wait", "clear", "exec"}
         => disposition[p] = "handler"
    /\ started(p) => g_tty_lock[p] = 0
    /\ g_tty_lock[p] = 0 => signalled(p) /\ p \notin pending
    /\ p \in pending => signalled(p)
    /\ cpc[p] # "killed"

IInv == TypeOK /\ InitInv /\ ChildrenInv /\ SignalInv

-----------------------------------------------------------------------------

\* Type correctness is preserved.  cb_tty_record needs InitInv: the pid it
\* records is a child's, and i is still on a directive.
LEMMA TypeStep == TypeOK /\ InitInv /\ [Next]_vars => TypeOK'
  <1> SUFFICES ASSUME TypeOK, InitInv, [Next]_vars PROVE TypeOK'
    OBVIOUS
  <1> USE InitAssumption DEF Procs
  <1>0. directives \in Seq(Seq(Seq(STRING)))
    BY DEF TypeOK
  <1>1. CASE load_config
    BY <1>1 DEF load_config, TypeOK, CPCs, procvars, childvars, ttyvars
  <1>2. CASE install_handler
    BY <1>2 DEF install_handler, TypeOK, CPCs, procvars, childvars, ttyvars
  <1>3. CASE cb_env
    <2>1. PICK name \in eval_string(directives[i][2]), value \in eval_string(directives[i][3]) :
             env' = [env EXCEPT ![InitPid] = setenv(@, name, value)]
      BY <1>3 DEF cb_env
    <2>2. directives[i] \in Seq(Seq(STRING)) /\ Len(directives[i]) = 3
      BY <1>0, <1>3 DEF cb_env, env_valid, interpreting, TypeOK
    <2>3. directives[i][2] \in Seq(STRING) /\ directives[i][3] \in Seq(STRING)
      BY <2>2
    <2>4. name \in Seq(STRING) /\ value \in Seq(STRING)
      BY <2>3, EvalString
    <2> DEFINE B == Seq(STRING) \X Seq(STRING)
    <2>5. <<name, value>> \in B
      BY <2>4
    <2>6. env \in [Procs -> SUBSET B] /\ InitPid \in Procs
      BY DEF TypeOK
    <2> HIDE DEF B
    <2>7. setenv(env[InitPid], name, value) \in SUBSET B
      BY <2>5, <2>6 DEF setenv
    <2>8. env' \in [Procs -> SUBSET B]
      BY <2>1, <2>6, <2>7
    <2>9. i' \in 1..(Len(directives) + 1)
      BY <1>0, <1>3 DEF cb_env, interpreting, TypeOK
    <2> QED BY <1>3, <2>8, <2>9 DEF cb_env, TypeOK, CPCs, childvars, ttyvars, B
  <1>4. CASE cb_enable
    <2>1. eval_int(directives[i][2]) \subseteq {TTY_TEXT, TTY_GFX, OPT_CLEAR}
      BY EvalInt
    <2> DEFINE O == {TTY_TEXT, TTY_GFX, OPT_CLEAR}
    <2>2. g_active_options \in [Procs -> SUBSET O]
      BY DEF TypeOK
    <2>3. g_active_options' =
            [g_active_options EXCEPT ![InitPid] = @ \cup eval_int(directives[i][2])]
      BY <1>4 DEF cb_enable
    <2>4. eval_int(directives[i][2]) \subseteq O
      BY <2>1
    <2> HIDE DEF O
    <2>5. g_active_options' \in [Procs -> SUBSET O]
      BY <2>2, <2>3, <2>4
    <2>6. i' \in 1..(Len(directives) + 1)
      BY <1>0, <1>4 DEF cb_enable, interpreting, TypeOK
    <2> QED BY <1>4, <2>5, <2>6 DEF cb_enable, TypeOK, CPCs, childvars, ttyvars, O
  <1>5. CASE cb_tty_fork
    <2>1. PICK p \in Pids :
            /\ cpc[p] = "none"
            /\ cpc' = [cpc EXCEPT ![p] = "open"]
            /\ d' = [d EXCEPT ![p] = i]
            /\ pid' = p
            /\ g_active_options' = [g_active_options EXCEPT ![p] = g_active_options[InitPid]]
            /\ g_tty_lock' = [g_tty_lock EXCEPT ![p] = g_tty_lock[InitPid]]
            /\ env' = [env EXCEPT ![p] = env[InitPid]]
            /\ disposition' = [disposition EXCEPT ![p] = disposition[InitPid]]
      BY <1>5 DEF cb_tty_fork
    <2>2. UNCHANGED <<directives, i, r, g_children, k, pending, ttyvars>>
          /\ pc' = "record" /\ i <= Len(directives)
      BY <1>5 DEF cb_tty_fork, interpreting, ttyvars
    <2>3. /\ cpc' \in [Pids -> CPCs]
          /\ d' \in [Pids -> 0..Len(directives)]
          /\ \A q \in Pids : cpc'[q] # "none" => d'[q] # 0
      BY <2>1, <2>2 DEF TypeOK, CPCs
    <2>4. /\ g_active_options' \in [Procs -> SUBSET {TTY_TEXT, TTY_GFX, OPT_CLEAR}]
          /\ g_tty_lock' \in [Procs -> {0, 1}]
          /\ env' \in [Procs -> SUBSET (Seq(STRING) \X Seq(STRING))]
          /\ disposition' \in [Procs -> {"default", "handler"}]
      BY <2>1 DEF TypeOK
    <2> QED BY <2>1, <2>2, <2>3, <2>4 DEF TypeOK, ttyvars
  <1>6. CASE cb_tty_record
    <2>1. UNCHANGED <<directives, r, pid, k, g_active_options, g_tty_lock, env,
                      disposition, cpc, d, pending, leader, owner, ttymode, refused, cleared>>
      BY <1>6 DEF cb_tty_record, procvars, childvars, ttyvars
    <2>2. CASE Len(g_children) < ChildSlots
      <3>1. g_children' = Append(g_children, pid) /\ i' = i + 1 /\ pc' = "directive"
            /\ pid \in Pids /\ i <= Len(directives)
        BY <1>6, <2>2 DEF cb_tty_record, InitInv
      <3>2. g_children' \in Seq(Pids) /\ Len(g_children') = Len(g_children) + 1
        BY <3>1 DEF TypeOK
      <3>3. i' \in 1..(Len(directives) + 1) /\ k \in 1..(Len(g_children') + 1)
            /\ Len(g_children') <= ChildSlots
        BY <1>0, <2>2, <3>1, <3>2 DEF TypeOK
      <3> QED BY <2>1, <3>1, <3>2, <3>3 DEF TypeOK
    <2>3. CASE ~(Len(g_children) < ChildSlots)
      BY <1>6, <2>1, <2>3 DEF cb_tty_record, TypeOK
    <2> QED BY <2>2, <2>3
  <1>7. CASE directive_error
    BY <1>7 DEF directive_error, TypeOK, CPCs, procvars, childvars, ttyvars
  <1>8. CASE directives_done
    BY <1>8 DEF directives_done, TypeOK, CPCs, procvars, childvars, ttyvars
  <1>9. CASE notify_child
    BY <1>9 DEF notify_child, TypeOK, CPCs, procvars, childvars, ttyvars
  <1>10. CASE init_returns
    BY <1>10 DEF init_returns, TypeOK, CPCs, procvars, childvars, ttyvars
  <1>11. ASSUME NEW p \in Pids, child_step(p) PROVE TypeOK'
    <2>1. CASE child_open(p)
      BY <2>1 DEF child_open, TypeOK, CPCs, initvars, procvars, ttyvars
    <2>2. CASE child_setsid(p)
      BY <2>2 DEF child_setsid, TypeOK, CPCs, initvars, procvars
    <2>7. CASE child_ctty(p)
      BY <2>7 DEF child_ctty, TypeOK, CPCs, initvars, procvars
    <2>3. CASE child_mode(p)
      BY <2>3 DEF child_mode, TypeOK, CPCs, initvars, procvars
    <2>4. CASE wait_start_signal(p)
      BY <2>4 DEF wait_start_signal, TypeOK, CPCs, initvars, procvars, ttyvars
    <2>5. CASE child_clear(p)
      BY <2>5 DEF child_clear, TypeOK, CPCs, initvars, procvars
    <2>6. CASE child_exec(p)
      <3>1. disposition' \in [Procs -> {"default", "handler"}]
        BY <2>6 DEF child_exec, TypeOK
      <3>2. cpc' \in [Pids -> CPCs] /\ \A q \in Pids : cpc'[q] # "none" => d[q] # 0
        BY <2>6 DEF child_exec, TypeOK, CPCs
      <3> QED BY <2>6, <3>1, <3>2 DEF child_exec, TypeOK, initvars, ttyvars
    <2> QED BY <1>11, <2>1, <2>2, <2>3, <2>4, <2>5, <2>6, <2>7 DEF child_step
  <1>12. ASSUME NEW p \in Pids, deliver(p) PROVE TypeOK'
    <2>1. g_tty_lock' \in [Procs -> {0, 1}]
      BY <1>12 DEF deliver, TypeOK
    <2>2. cpc' \in [Pids -> CPCs] /\ \A q \in Pids : cpc'[q] # "none" => d[q] # 0
      BY <1>12 DEF deliver, TypeOK, CPCs, alive
    <2> QED BY <1>12, <2>1, <2>2 DEF deliver, TypeOK, initvars, ttyvars
  <1>13. CASE UNCHANGED vars
    BY <1>13 DEF vars, TypeOK, CPCs, initvars, procvars, childvars, ttyvars
  <1> QED BY <1>1, <1>2, <1>3, <1>4, <1>5, <1>6, <1>7, <1>8, <1>9, <1>10, <1>11,
             <1>12, <1>13 DEF Next, init_step

-----------------------------------------------------------------------------

\* init forks with the handler installed and signals only after the last
\* directive.
LEMMA InitInvStep == TypeOK /\ InitInv /\ ChildrenInv /\ SignalInv /\ [Next]_vars => InitInv'
  <1> SUFFICES ASSUME TypeOK, InitInv, ChildrenInv, SignalInv, [Next]_vars PROVE InitInv'
    OBVIOUS
  <1> USE InitAssumption DEF Procs
  <1>1. CASE load_config
    BY <1>1 DEF load_config, TypeOK, InitInv, notified, procvars
  <1>2. CASE install_handler
    BY <1>2 DEF install_handler, TypeOK, InitInv, notified
  <1>3. CASE cb_env
    BY <1>3 DEF cb_env, interpreting, TypeOK, InitInv, notified
  <1>4. CASE cb_enable
    BY <1>4 DEF cb_enable, interpreting, TypeOK, InitInv, notified
  <1>5. CASE cb_tty_fork
    BY <1>5 DEF cb_tty_fork, interpreting, TypeOK, InitInv, notified
  <1>6. CASE cb_tty_record
    BY <1>6 DEF cb_tty_record, TypeOK, InitInv, notified, procvars
  <1>7. CASE directive_error
    BY <1>7 DEF directive_error, interpreting, TypeOK, InitInv, notified, procvars
  <1>8. CASE directives_done
    BY <1>8 DEF directives_done, TypeOK, InitInv, notified, procvars
  <1>9. CASE notify_child
    BY <1>9 DEF notify_child, TypeOK, InitInv, notified, procvars
  <1>10. CASE init_returns
    BY <1>10 DEF init_returns, TypeOK, InitInv, notified, procvars
  <1>11. ASSUME NEW p \in Pids, child_step(p) PROVE InitInv'
    <2>1. UNCHANGED initvars /\ UNCHANGED g_tty_lock /\ disposition'[InitPid] = disposition[InitPid]
      BY <1>11 DEF child_step, child_open, child_setsid, child_ctty, child_mode, wait_start_signal,
                   child_clear, child_exec, procvars, TypeOK
    <2> QED BY <2>1 DEF InitInv, notified, initvars
  <1>12. ASSUME NEW p \in Pids, deliver(p) PROVE InitInv'
    BY <1>12 DEF deliver, InitInv, notified, initvars, TypeOK
  <1>13. CASE UNCHANGED vars
    BY <1>13 DEF vars, InitInv, notified, initvars, procvars
  <1> QED BY <1>1, <1>2, <1>3, <1>4, <1>5, <1>6, <1>7, <1>8, <1>9, <1>10, <1>11,
             <1>12, <1>13 DEF Next, init_step

\* fork returns a pid that no child has, so no child is recorded twice.
LEMMA ChildrenInvStep == TypeOK /\ InitInv /\ ChildrenInv /\ [Next]_vars => ChildrenInv'
  <1> SUFFICES ASSUME TypeOK, InitInv, ChildrenInv, [Next]_vars PROVE ChildrenInv'
    OBVIOUS
  <1> USE InitAssumption DEF Procs
  \* Every step but two leaves the children as they are and forgets no fork.
  <1>a. ASSUME UNCHANGED g_children, pc' # "record" \/ (pc = "record" /\ pid' = pid),
               \A p \in Pids : cpc[p] # "none" => cpc'[p] # "none"
        PROVE  ChildrenInv'
    <2>1. \A j \in 1..Len(g_children) : g_children[j] \in Pids
      BY DEF TypeOK
    <2>2. pc = "record" => pid \in Pids
      BY DEF InitInv
    <2> QED BY <1>a, <2>1, <2>2 DEF ChildrenInv
  <1>1. CASE load_config
    BY <1>1, <1>a DEF load_config, childvars
  <1>2. CASE install_handler
    BY <1>2, <1>a DEF install_handler, childvars
  <1>3. CASE cb_env
    BY <1>3, <1>a DEF cb_env, interpreting, childvars
  <1>4. CASE cb_enable
    BY <1>4, <1>a DEF cb_enable, interpreting, childvars
  <1>5. CASE cb_tty_fork
    <2>1. PICK p \in Pids : cpc[p] = "none" /\ cpc' = [cpc EXCEPT ![p] = "open"] /\ pid' = p
      BY <1>5 DEF cb_tty_fork
    <2>2. \A j \in 1..Len(g_children) : g_children[j] \in Pids /\ g_children[j] # p
      BY <2>1 DEF ChildrenInv, TypeOK
    <2>3. g_children' = g_children /\ pc' = "record"
      BY <1>5 DEF cb_tty_fork
    <2> QED BY <2>1, <2>2, <2>3 DEF ChildrenInv, TypeOK
  <1>6. CASE cb_tty_record
    <2>1. UNCHANGED cpc /\ pc = "record" /\ pc' # "record" /\ pid \in Pids
      BY <1>6 DEF cb_tty_record, childvars, InitInv
    <2>2. CASE Len(g_children) < ChildSlots
      <3>1. /\ g_children' = Append(g_children, pid)
            /\ Len(g_children') = Len(g_children) + 1
            /\ g_children'[Len(g_children) + 1] = pid
            /\ \A j \in 1..Len(g_children) : g_children'[j] = g_children[j]
            /\ Len(g_children) \in Nat
        <4>1. g_children' = Append(g_children, pid)
          BY <1>6, <2>2 DEF cb_tty_record
        <4>2. g_children \in Seq(Pids)
          BY DEF TypeOK
        <4> QED BY <2>1, <4>1, <4>2, Recorded
      <3> QED BY <2>1, <3>1 DEF ChildrenInv
    <2>3. CASE ~(Len(g_children) < ChildSlots)
      BY <1>6, <1>a, <2>1, <2>3 DEF cb_tty_record
    <2> QED BY <2>2, <2>3
  <1>7. CASE directive_error
    BY <1>7, <1>a DEF directive_error, childvars
  <1>8. CASE directives_done
    BY <1>8, <1>a DEF directives_done, childvars
  <1>9. CASE notify_child
    BY <1>9, <1>a DEF notify_child, childvars
  <1>10. CASE init_returns
    BY <1>10, <1>a DEF init_returns, childvars
  <1>11. ASSUME NEW p \in Pids, child_step(p) PROVE ChildrenInv'
    <2>1. \E c \in CPCs \ {"none"} : cpc' = [cpc EXCEPT ![p] = c]
      BY <1>11 DEF child_step, child_open, child_setsid, child_ctty, child_mode, wait_start_signal,
                   child_clear, child_exec, CPCs
    <2>2. UNCHANGED <<g_children, pc, pid>>
      BY <1>11 DEF child_step, child_open, child_setsid, child_ctty, child_mode, wait_start_signal,
                   child_clear, child_exec, initvars
    <2> QED BY <1>a, <2>1, <2>2 DEF TypeOK
  <1>12. ASSUME NEW p \in Pids, deliver(p) PROVE ChildrenInv'
    BY <1>12, <1>a DEF deliver, initvars, TypeOK
  <1>13. CASE UNCHANGED vars
    BY <1>13, <1>a DEF vars, initvars, childvars
  <1> QED BY <1>1, <1>2, <1>3, <1>4, <1>5, <1>6, <1>7, <1>8, <1>9, <1>10, <1>11,
             <1>12, <1>13 DEF Next, init_step

\* The heart of the argument: a pending signal finds its child still at the
\* gate, with the handler installed.
LEMMA SignalInvStep == IInv /\ [Next]_vars => SignalInv'
  <1> SUFFICES ASSUME TypeOK, InitInv, ChildrenInv, SignalInv, [Next]_vars PROVE SignalInv'
    BY DEF IInv
  <1> USE InitAssumption DEF Procs
  \* A step of init that only changes its own part of the state.
  <1>a. ASSUME UNCHANGED <<k, cpc, pending, g_tty_lock>>,
               \A p \in Pids : disposition'[p] = disposition[p],
               \A j \in 1..(k - 1) : g_children'[j] = g_children[j]
        PROVE  SignalInv'
    <2>1. \A p \in Pids : signalled(p)' <=> signalled(p)
      BY <1>a DEF signalled
    <2>2. \A p \in Pids : started(p)' <=> started(p)
      BY <1>a DEF started
    <2> QED BY <1>a, <2>1, <2>2 DEF SignalInv
  <1>1. CASE load_config
    BY <1>1, <1>a DEF load_config, procvars, childvars
  <1>2. CASE install_handler
    BY <1>2, <1>a DEF install_handler, childvars, TypeOK
  <1>3. CASE cb_env
    BY <1>3, <1>a DEF cb_env, childvars
  <1>4. CASE cb_enable
    BY <1>4, <1>a DEF cb_enable, childvars
  <1>5. CASE cb_tty_fork
    <2>1. PICK p \in Pids :
            /\ cpc[p] = "none"
            /\ cpc' = [cpc EXCEPT ![p] = "open"]
            /\ g_tty_lock' = [g_tty_lock EXCEPT ![p] = g_tty_lock[InitPid]]
            /\ disposition' = [disposition EXCEPT ![p] = disposition[InitPid]]
      BY <1>5 DEF cb_tty_fork
    <2>2. UNCHANGED <<k, pending, g_children>> /\ pc = "directive"
      BY <1>5 DEF cb_tty_fork, interpreting
    <2>3. g_tty_lock'[p] = 1 /\ disposition'[p] = "handler" /\ cpc'[p] = "open"
      BY <2>1, <2>2 DEF InitInv, TypeOK
    <2>4. \A q \in Pids \ {p} : g_tty_lock'[q] = g_tty_lock[q]
                             /\ disposition'[q] = disposition[q] /\ cpc'[q] = cpc[q]
      BY <2>1 DEF TypeOK
    <2> QED BY <2>2, <2>3, <2>4 DEF SignalInv, signalled, started
  <1>6. CASE cb_tty_record
    <2>1. UNCHANGED <<k, cpc, pending, g_tty_lock, disposition>>
      BY <1>6 DEF cb_tty_record, procvars, childvars
    <2>2. \A j \in 1..(k - 1) : g_children'[j] = g_children[j]
      <3>1. pid \in Pids
        BY <1>6 DEF cb_tty_record, InitInv
      <3>2. \A j \in 1..(k - 1) : j \in 1..Len(g_children)
        BY DEF TypeOK
      <3>3. CASE Len(g_children) < ChildSlots
        <4>1. g_children' = Append(g_children, pid)
          BY <1>6, <3>3 DEF cb_tty_record
        <4>2. g_children \in Seq(Pids)
          BY DEF TypeOK
        <4> QED BY <3>1, <3>2, <4>1, <4>2, Recorded
      <3>4. CASE ~(Len(g_children) < ChildSlots)
        BY <1>6, <3>4 DEF cb_tty_record
      <3> QED BY <3>3, <3>4
    <2> QED BY <1>a, <2>1, <2>2
  <1>7. CASE directive_error
    BY <1>7, <1>a DEF directive_error, procvars, childvars
  <1>8. CASE directives_done
    BY <1>8, <1>a DEF directives_done, procvars, childvars
  <1>9. CASE notify_child
    <2> DEFINE c == g_children[k]
    <2>1. k \in 1..Len(g_children) /\ k' = k + 1 /\ c \in Pids
      BY <1>9 DEF notify_child, TypeOK
    <2>2. UNCHANGED <<g_children, g_tty_lock, disposition, cpc>> /\ pending' \subseteq pending \cup {c}
      BY <1>9 DEF notify_child, procvars, childvars
    <2>3. ~signalled(c)
      BY <2>1 DEF signalled, ChildrenInv, TypeOK
    <2>4. g_tty_lock[c] # 0
      BY <2>1, <2>3 DEF SignalInv
    <2>5. \A p \in Pids : signalled(p) => signalled(p)'
      <3>1. 1..(k - 1) \subseteq 1..(k' - 1)
        BY <2>1 DEF TypeOK
      <3> QED BY <2>2, <3>1 DEF signalled
    <2>6. \A p \in Pids : p = c => signalled(p)'
      BY <2>1, <2>2 DEF signalled
    <2>7. \A p \in Pids : started(p)' <=> started(p)
      BY <2>2 DEF started
    <2> HIDE DEF c
    <2> QED BY <2>1, <2>2, <2>4, <2>5, <2>6, <2>7 DEF SignalInv
  <1>10. CASE init_returns
    BY <1>10, <1>a DEF init_returns, procvars, childvars
  <1>11. ASSUME NEW p \in Pids, child_step(p) PROVE SignalInv'
    <2>1. UNCHANGED <<k, g_children, pending, g_tty_lock>>
      BY <1>11 DEF child_step, child_open, child_setsid, child_ctty, child_mode, wait_start_signal,
                   child_clear, child_exec, initvars, procvars
    <2>2. \A q \in Pids \ {p} : cpc'[q] = cpc[q] /\ disposition'[q] = disposition[q]
      BY <1>11 DEF child_step, child_open, child_setsid, child_ctty, child_mode, wait_start_signal,
                   child_clear, child_exec, procvars, TypeOK
    <2>3. /\ cpc'[p] \in {"open", "session", "ctty", "mode", "wait", "clear", "exec"}
                => disposition'[p] = "handler"
          /\ started(p)' => g_tty_lock[p] = 0
          /\ cpc'[p] # "killed"
      BY <1>11 DEF child_step, child_open, child_setsid, child_ctty, child_mode, wait_start_signal,
                   child_clear, child_exec, procvars, TypeOK, SignalInv, started
    <2> QED BY <2>1, <2>2, <2>3 DEF SignalInv, signalled, started
  <1>12. ASSUME NEW p \in Pids, deliver(p) PROVE SignalInv'
    <2>1. p \in pending /\ pending' = pending \ {p} /\ UNCHANGED <<k, g_children, disposition>>
      BY <1>12 DEF deliver, initvars
    <2>2. g_tty_lock[p] # 0 /\ signalled(p)
      BY <2>1 DEF SignalInv
    <2>3. alive(p) => disposition[p] = "handler"
      BY <2>2 DEF SignalInv, started, alive, TypeOK, CPCs
    <2>4. UNCHANGED cpc
      BY <1>12, <2>3 DEF deliver
    <2>5. \A q \in Pids \ {p} : g_tty_lock'[q] = g_tty_lock[q]
      BY <1>12 DEF deliver, TypeOK
    <2>6. started(p) => g_tty_lock'[p] = 0
      BY <2>2 DEF SignalInv
    <2> QED BY <2>1, <2>2, <2>4, <2>5, <2>6 DEF SignalInv, signalled, started
  <1>13. CASE UNCHANGED vars
    BY <1>13, <1>a DEF vars, initvars, procvars, childvars
  <1> QED BY <1>1, <1>2, <1>3, <1>4, <1>5, <1>6, <1>7, <1>8, <1>9, <1>10, <1>11,
             <1>12, <1>13 DEF Next, init_step

\* Before the first step there is no child and no signal.
LEMMA IInvInit == Init => IInv
  <1> SUFFICES ASSUME Init PROVE IInv
    OBVIOUS
  <1> USE InitAssumption DEF Procs, Init
  <1>1. directives \in Seq(Seq(Seq(STRING))) /\ Len(directives) \in Nat
    OBVIOUS
  <1>2. TypeOK
    BY <1>1 DEF TypeOK, CPCs
  <1>3. InitInv /\ ChildrenInv /\ SignalInv
    BY DEF InitInv, ChildrenInv, SignalInv, signalled, started, notified
  <1> QED BY <1>2, <1>3 DEF IInv

\* The four parts together are inductive.
LEMMA IInvStep == IInv /\ [Next]_vars => IInv'
  BY TypeStep, InitInvStep, ChildrenInvStep, SignalInvStep DEF IInv

\* IInv holds in every state that init and its children reach.
LEMMA Inductive == Spec => []IInv
  BY IInvInit, IInvStep, PTL DEF Spec

\* Every variable of init keeps its type; g_children is within its bound, the
\* write past it being the state "overrun".
THEOREM TypeCorrect == Spec => []TypeOK
  <1>1. IInv => TypeOK
    BY DEF IInv
  <1> QED BY <1>1, Inductive, PTL

\* No child gets past wait_start_signal before interpret_config is through
\* with the directives: a child past it has an open lock, so its signal was
\* sent, and init sends signals only then.
THEOREM StartGateHolds == Spec => []NoEarlyStart
  <1>1. IInv => NoEarlyStart
    BY DEF IInv, NoEarlyStart, InitInv, SignalInv, signalled, TypeOK
  <1> QED BY <1>1, Inductive, PTL

\* No child is ended by the SIGUSR1 of interpret_config: the signal finds
\* handle_sigusr1 installed, whatever the child has reached.
THEOREM SignalsAreSafe == Spec => []NoChildKilled
  <1>1. IInv => NoChildKilled
    BY DEF IInv, NoChildKilled, SignalInv
  <1> QED BY <1>1, Inductive, PTL

-----------------------------------------------------------------------------
(* init implements the safety part of StartGate. *)

\* The abstract state after a step that leaves init's and the child's phase.
LEMMA GateStutter ==
  ASSUME gate' = gate, \A p \in Pids : cpc'[p] = cpc[p]
  PROVE  UNCHANGED <<gate, prog>>
  BY DEF prog, started

\* A step in which one child moves, seen through the mapping.
LEMMA GateMove ==
  ASSUME TypeOK, NEW p \in Pids, NEW c \in CPCs, cpc' = [cpc EXCEPT ![p] = c]
  PROVE  prog' = [prog EXCEPT ![p] = IF c = "none" THEN "absent"
                                     ELSE IF c \in {"open", "session", "ctty", "mode", "wait"} THEN "waiting"
                                     ELSE IF c \in {"clear", "exec", "running"} THEN "started"
                                     ELSE IF c = "dead" THEN "ended" ELSE "killed"]
  <1>1. /\ cpc'[p] = c
        /\ \A q \in Pids \ {p} : cpc'[q] = cpc[q]
    BY DEF TypeOK
  <1> QED BY <1>1 DEF prog, started

\* Every step of init or of a child is a step of StartGate or none.
LEMMA GateStep == IInv /\ IInv' /\ [Next]_vars => [Gate!Next]_(Gate!gatevars)
  <1> SUFFICES ASSUME IInv, IInv', [Next]_vars
               PROVE  Gate!Next \/ UNCHANGED <<gate, prog>>
    BY DEF Gate!gatevars
  <1> USE DEF IInv
  <1>1. CASE load_config
    <2>1. gate = "closed" /\ gate' \in {"closed", "abandoned"} /\ UNCHANGED cpc
      BY <1>1 DEF load_config, gate, notified, InitInv, childvars, TypeOK
    <2>2. UNCHANGED prog
      BY <2>1 DEF prog, started
    <2> QED BY <2>1, <2>2 DEF Gate!Next, Gate!Open
  <1>2. CASE install_handler
    <2>1. gate = "closed" /\ gate' \in {"closed", "abandoned"} /\ UNCHANGED cpc
      BY <1>2 DEF install_handler, gate, notified, InitInv, childvars, TypeOK
    <2>2. UNCHANGED prog
      BY <2>1 DEF prog, started
    <2> QED BY <2>1, <2>2 DEF Gate!Next, Gate!Open
  <1>3. CASE cb_env
    BY <1>3, GateStutter DEF cb_env, gate, notified, childvars
  <1>4. CASE cb_enable
    BY <1>4, GateStutter DEF cb_enable, gate, notified, childvars
  <1>5. CASE cb_tty_fork
    <2>1. PICK p \in Pids : cpc[p] = "none" /\ cpc' = [cpc EXCEPT ![p] = "open"]
      BY <1>5 DEF cb_tty_fork
    <2>2. gate = "closed" /\ gate' = "closed"
      BY <1>5 DEF cb_tty_fork, interpreting, gate, notified
    <2>3. prog' = [prog EXCEPT ![p] = "waiting"] /\ prog[p] = "absent"
      BY <2>1, GateMove DEF CPCs, prog
    <2> QED BY <2>2, <2>3 DEF Gate!Next, Gate!Create
  <1>6. CASE cb_tty_record
    <2>1. gate = "closed" /\ gate' \in {"closed", "abandoned"} /\ UNCHANGED cpc
      BY <1>6 DEF cb_tty_record, gate, notified, childvars
    <2>2. UNCHANGED prog
      BY <2>1 DEF prog, started
    <2> QED BY <2>1, <2>2 DEF Gate!Next, Gate!Open
  <1>7. CASE directive_error
    <2>1. gate = "closed" /\ gate' = "abandoned" /\ UNCHANGED cpc
      BY <1>7 DEF directive_error, interpreting, gate, notified, childvars
    <2>2. UNCHANGED prog
      BY <2>1 DEF prog, started
    <2> QED BY <2>1, <2>2 DEF Gate!Next, Gate!Open
  <1>8. CASE directives_done
    <2>1. gate = "closed" /\ gate' = "open" /\ UNCHANGED cpc
      BY <1>8 DEF directives_done, gate, notified, childvars
    <2>2. UNCHANGED prog
      BY <2>1 DEF prog, started
    <2> QED BY <2>1, <2>2 DEF Gate!Next, Gate!Open
  <1>9. CASE notify_child
    BY <1>9, GateStutter DEF notify_child, gate, notified, childvars
  <1>10. CASE init_returns
    BY <1>10, GateStutter DEF init_returns, gate, notified, childvars
  <1>11. ASSUME NEW p \in Pids, child_step(p)
         PROVE  Gate!Next \/ UNCHANGED <<gate, prog>>
    <2>0. UNCHANGED gate
      BY <1>11 DEF child_step, child_open, child_setsid, child_ctty, child_mode, wait_start_signal,
                   child_clear, child_exec, initvars, gate, notified
    <2>1. CASE wait_start_signal(p)
      <3>1. cpc[p] = "wait" /\ cpc' = [cpc EXCEPT ![p] = "clear"] /\ g_tty_lock[p] = 0
        BY <2>1 DEF wait_start_signal
      <3>2. k > 1
        BY <3>1 DEF SignalInv, signalled, TypeOK
      <3>3. gate = "open"
        BY <3>2 DEF InitInv, gate
      <3>4. prog' = [prog EXCEPT ![p] = "started"] /\ prog[p] = "waiting"
        BY <3>1, GateMove DEF CPCs, prog
      <3> QED BY <2>0, <3>3, <3>4 DEF Gate!Next, Gate!Start
    <2>2. CASE cpc' = [cpc EXCEPT ![p] = "dead"] /\ (child_open(p) \/ child_exec(p))
      <3>1. prog' = [prog EXCEPT ![p] = "ended"]
        BY <2>2, GateMove DEF CPCs
      <3>2. prog[p] \in {"waiting", "started"}
        BY <2>2 DEF child_open, child_exec, prog, started
      <3> QED BY <2>0, <3>1, <3>2 DEF Gate!Next, Gate!End
    <2>3. CASE \E c \in {"session", "ctty", "mode", "wait"} :
                 cpc[p] \in {"open", "session", "ctty", "mode"} /\ cpc' = [cpc EXCEPT ![p] = c]
      <3>1. PICK c \in {"session", "ctty", "mode", "wait"} : cpc' = [cpc EXCEPT ![p] = c]
        BY <2>3
      <3>2. prog[p] = "waiting"
        BY <2>3 DEF prog
      <3>3. prog' = [prog EXCEPT ![p] = "waiting"]
        BY <3>1, GateMove DEF CPCs
      <3> QED BY <2>0, <3>2, <3>3 DEF prog
    <2>4. CASE \E c \in {"exec", "running"} :
                 cpc[p] \in {"clear", "exec"} /\ cpc' = [cpc EXCEPT ![p] = c]
      <3>1. PICK c \in {"exec", "running"} : cpc' = [cpc EXCEPT ![p] = c]
        BY <2>4
      <3>2. prog[p] = "started"
        BY <2>4 DEF prog, started
      <3>3. prog' = [prog EXCEPT ![p] = "started"]
        BY <3>1, GateMove DEF CPCs
      <3> QED BY <2>0, <3>2, <3>3 DEF prog
    <2> QED BY <1>11, <2>1, <2>2, <2>3, <2>4
         DEF child_step, child_open, child_setsid, child_ctty, child_mode, child_clear, child_exec
  <1>12. ASSUME NEW p \in Pids, deliver(p)
         PROVE  UNCHANGED <<gate, prog>>
    <2>1. UNCHANGED gate
      BY <1>12 DEF deliver, initvars, gate, notified
    <2>2. UNCHANGED cpc
      <3>1. cpc' = cpc \/ cpc' = [cpc EXCEPT ![p] = "killed"]
        BY <1>12 DEF deliver
      <3>2. cpc'[p] # "killed"
        BY DEF SignalInv
      <3> QED BY <3>1, <3>2 DEF TypeOK
    <2> QED BY <2>1, <2>2, GateStutter
  <1>13. CASE UNCHANGED vars
    BY <1>13, GateStutter DEF vars, initvars, childvars, gate, notified
  <1> QED BY <1>1, <1>2, <1>3, <1>4, <1>5, <1>6, <1>7, <1>8, <1>9, <1>10, <1>11,
             <1>12, <1>13 DEF Next, init_step

\* interpret_config and the children of cb_tty implement StartGate: the gate
\* opens at most once and after the last fork, no program starts before, and
\* none ends but by its own failure to open or execute.
THEOREM ImplementsGate == Spec => Gate!Safety
  <1>1. Init => Gate!Init
    BY DEF Init, Gate!Init, gate, prog, notified
  <1> QED BY <1>1, Inductive, GateStep, PTL DEF Spec, Gate!Safety

-----------------------------------------------------------------------------
(* A bad line starts nothing. *)

valid(n) == env_valid(n) \/ enable_valid(n) \/ tty_valid(n)
forked(n) == \E q \in Pids : cpc[q] # "none" /\ d[q] = n

\* The directives behind init were valid, and their children are forked.
DoneInv ==
  /\ \A n \in 1..(i - 1) : valid(n) /\ (tty_valid(n) => forked(n))
  /\ pc = "record" => \A n \in {i} : tty_valid(n) /\ forked(n)
  /\ notified => i > Len(directives)

\* The lines above the current one were acceptable and have their processes.
LEMMA DoneInvStep == IInv /\ DoneInv /\ [Next]_vars => DoneInv'
  <1> SUFFICES ASSUME TypeOK, InitInv, DoneInv, [Next]_vars PROVE DoneInv'
    BY DEF IInv
  <1>a. /\ directives' = directives
        /\ \A n : (valid(n)' <=> valid(n)) /\ (tty_valid(n)' <=> tty_valid(n))
    <2>1. directives' = directives
      BY DEF Next, init_step, load_config, install_handler, cb_env, cb_enable, cb_tty_fork,
             cb_tty_record, directive_error, directives_done, notify_child, init_returns,
             child_step, child_open, child_setsid, child_ctty, child_mode, wait_start_signal,
             child_clear, child_exec, deliver, initvars, vars
    <2>2. \A n : /\ env_valid(n)' <=> env_valid(n)
                 /\ enable_valid(n)' <=> enable_valid(n)
                 /\ tty_valid(n)' <=> tty_valid(n)
      BY <2>1 DEF env_valid, enable_valid, tty_valid, tty_path, tty_mode
    <2> QED BY <2>1, <2>2 DEF valid
  <1>b. ASSUME \A q \in Pids : cpc[q] # "none" => cpc'[q] # "none" /\ d'[q] = d[q]
        PROVE  \A n : forked(n) => forked(n)'
    BY <1>b DEF forked
  \* The steps that neither advance i nor record a child.
  <1>c. ASSUME UNCHANGED <<directives, i>>, pc' # "record" \/ pc = "record",
               \A q \in Pids : cpc[q] # "none" => cpc'[q] # "none" /\ d'[q] = d[q],
               notified' => notified \/ i > Len(directives)
        PROVE  DoneInv'
    <2>1. \A n : forked(n) => forked(n)'
      BY <1>b, <1>c
    <2>3. \A n \in 1..(i' - 1) : valid(n)' /\ (tty_valid(n)' => forked(n)')
      BY <1>a, <1>c, <2>1 DEF DoneInv
    <2>4. pc' = "record" => \A n \in {i'} : tty_valid(n)' /\ forked(n)'
      BY <1>a, <1>c, <2>1 DEF DoneInv
    <2>5. notified' => i' > Len(directives')
      BY <1>c DEF DoneInv
    <2> QED BY <2>3, <2>4, <2>5 DEF DoneInv
  \* The steps that advance i behind a valid directive.
  <1>d. ASSUME UNCHANGED <<directives, cpc, d>>, i' = i + 1, pc' = "directive",
               valid(i), tty_valid(i) => forked(i)
        PROVE  DoneInv'
    <2>1. \A n \in 1..(i' - 1) : n \in 1..(i - 1) \/ n = i
      BY <1>d DEF TypeOK
    <2>2. \A n : forked(n)' <=> forked(n)
      BY <1>d DEF forked
    <2>3. ~notified'
      BY <1>d DEF notified
    <2>4. \A n \in 1..(i' - 1) : valid(n) /\ (tty_valid(n) => forked(n))
      BY <1>d, <2>1 DEF DoneInv
    <2>5. \A n \in 1..(i' - 1) : valid(n)' /\ (tty_valid(n)' => forked(n)')
      BY <1>a, <1>d, <2>2, <2>4
    <2>6. pc' # "record"
      BY <1>d
    <2> QED BY <2>3, <2>5, <2>6 DEF DoneInv
  <1>1. CASE load_config
    BY <1>1, <1>c DEF load_config, childvars, notified, InitInv
  <1>2. CASE install_handler
    BY <1>2, <1>c DEF install_handler, childvars, notified, InitInv
  <1>3. CASE cb_env
    <2>1. env_valid(i) /\ ~tty_valid(i)
      BY <1>3, OneCallback DEF cb_env, env_valid, tty_valid
    <2> QED BY <1>3, <1>d, <2>1 DEF cb_env, interpreting, childvars, valid
  <1>4. CASE cb_enable
    <2>1. enable_valid(i) /\ ~tty_valid(i)
      BY <1>4, OneCallback DEF cb_enable, enable_valid, tty_valid
    <2> QED BY <1>4, <1>d, <2>1 DEF cb_enable, interpreting, childvars, valid
  <1>5. CASE cb_tty_fork
    <2>1. PICK p \in Pids :
            cpc[p] = "none" /\ cpc' = [cpc EXCEPT ![p] = "open"] /\ d' = [d EXCEPT ![p] = i]
      BY <1>5 DEF cb_tty_fork
    <2>2. UNCHANGED <<directives, i>> /\ pc' = "record" /\ tty_valid(i)
      BY <1>5 DEF cb_tty_fork
    <2>3. \A q \in Pids : cpc[q] # "none" => cpc'[q] # "none" /\ d'[q] = d[q]
      BY <2>1 DEF TypeOK
    <2>4. cpc'[p] = "open" /\ d'[p] = i
      BY <2>1 DEF TypeOK
    <2>5. \A n \in {i'} : forked(n)'
      BY <2>2, <2>4 DEF forked
    <2>6. ~notified'
      BY <2>2 DEF notified
    <2>7. \A n : forked(n) => forked(n)'
      BY <1>b, <2>3
    <2>8. \A n \in 1..(i' - 1) : valid(n)' /\ (tty_valid(n)' => forked(n)')
      BY <1>a, <2>2, <2>7 DEF DoneInv
    <2>9. \A n \in {i'} : tty_valid(n)'
      BY <1>a, <2>2
    <2> QED BY <2>5, <2>6, <2>8, <2>9 DEF DoneInv
  <1>6. CASE cb_tty_record
    <2>1. tty_valid(i) /\ forked(i) /\ UNCHANGED <<directives, cpc, d>> /\ pc = "record"
      BY <1>6 DEF cb_tty_record, DoneInv, childvars
    <2>2. CASE Len(g_children) < ChildSlots
      BY <1>6, <1>d, <2>1, <2>2 DEF cb_tty_record, valid
    <2>3. CASE ~(Len(g_children) < ChildSlots)
      BY <1>6, <1>c, <2>1, <2>3 DEF cb_tty_record, notified
    <2> QED BY <2>2, <2>3
  <1>7. CASE directive_error
    BY <1>7, <1>c DEF directive_error, childvars, notified
  <1>8. CASE directives_done
    BY <1>8, <1>c DEF directives_done, childvars
  <1>9. CASE notify_child
    BY <1>9, <1>c DEF notify_child, childvars, notified
  <1>10. CASE init_returns
    BY <1>10, <1>c DEF init_returns, childvars, notified
  <1>11. ASSUME NEW p \in Pids, child_step(p) PROVE DoneInv'
    <2>1. \E c \in CPCs \ {"none"} : cpc' = [cpc EXCEPT ![p] = c]
      BY <1>11 DEF child_step, child_open, child_setsid, child_ctty, child_mode, wait_start_signal,
                   child_clear, child_exec, CPCs
    <2>2. UNCHANGED <<directives, i, pc, r, d>>
      BY <1>11 DEF child_step, child_open, child_setsid, child_ctty, child_mode, wait_start_signal,
                   child_clear, child_exec, initvars
    <2> QED BY <1>c, <2>1, <2>2 DEF TypeOK, notified
  <1>12. ASSUME NEW p \in Pids, deliver(p) PROVE DoneInv'
    <2>1. cpc' = cpc \/ cpc' = [cpc EXCEPT ![p] = "killed"]
      BY <1>12 DEF deliver
    <2>2. UNCHANGED <<directives, i, pc, r, d>>
      BY <1>12 DEF deliver, initvars
    <2> QED BY <1>c, <2>1, <2>2 DEF TypeOK, notified
  <1>13. CASE UNCHANGED vars
    BY <1>13, <1>c DEF vars, initvars, childvars, notified
  <1> QED BY <1>1, <1>2, <1>3, <1>4, <1>5, <1>6, <1>7, <1>8, <1>9, <1>10, <1>11,
             <1>12, <1>13 DEF Next, init_step

\* One bad line of the configuration, wherever it stands, and no program of any
\* tty directive starts; when one starts, every tty directive has its process.
THEOREM BadLineStartsNothing == Spec => []AllOrNothing
  <1>1. Init => DoneInv
    BY DEF Init, DoneInv, notified
  <1>2. IInv => NoEarlyStart
    BY DEF IInv, NoEarlyStart, InitInv, SignalInv, signalled, TypeOK
  <1>3. IInv /\ DoneInv => AllOrNothing
    <2> SUFFICES ASSUME IInv, DoneInv, \E p \in Pids : started(p),
                        NEW n \in 1..Len(directives)
                 PROVE  valid(n) /\ (tty_valid(n) => forked(n))
      BY DEF AllOrNothing, valid, forked
    <2>1. i > Len(directives)
      BY <1>2 DEF NoEarlyStart, DoneInv
    <2>2. n \in 1..(i - 1)
      BY <2>1, InitAssumption DEF IInv, TypeOK
    <2> QED BY <2>2 DEF DoneInv
  <1> QED BY <1>1, <1>3, DoneInvStep, Inductive, PTL DEF Spec

-----------------------------------------------------------------------------
(* What a child sees and how its terminal is prepared. *)

\* The options and the variables of the lines above: init's own follow the
\* directives, a child's are those of its line.
SeesAbove(p, n) == g_active_options[p] = OptionsAbove(n) /\ env[p] = EnvAbove(n)

SnapshotInv ==
  /\ \A n \in {i} : SeesAbove(InitPid, n)
  /\ \A p \in Pids : cpc[p] # "none" => \A n \in {d[p]} : SeesAbove(p, n)

\* The line of a child asks for graphics.
wants_gfx(p) == TTY_GFX \in tty_mode(d[p])

\* The line of a child asks for graphics, and its terminal has not refused it.
gets_gfx(p) == wants_gfx(p) /\ p \notin refused

\* Where a child is before it has set its terminal's mode.
ahead == {"none", "open", "session", "ctty", "mode"}

\* A terminal is owned by a child that is past TIOCSCTTY on it, and by some
\* child as soon as one is past it; a child past child_mode has its mode.
TtyInv(p, t) ==
  /\ owner[t] = p => cpc[p] \notin {"none", "open", "session", "ctty"} /\ on_tty(p, t)
  /\ cpc[p] \in {"mode", "wait", "clear", "exec", "running"} /\ on_tty(p, t) => owner[t] # InitPid
  /\ cpc[p] \in {"wait", "clear", "exec", "running"} /\ on_tty(p, t) /\ gets_gfx(p)
       => ttymode[t] = "graphics"

\* Only a child whose line asks for it switches a terminal to graphics.
switched(t) == \E q \in Pids : cpc[q] \notin ahead /\ on_tty(q, t) /\ gets_gfx(q)

\* A child leads its session when it asks for the terminal, sets the mode once, and
\* clears its screen once, on its way to execv.
StageInv(p) ==
  /\ cpc[p] = "ctty" => p \in leader
  /\ cpc[p] \in ahead => p \notin refused
  /\ cpc[p] \in ahead \cup {"wait", "clear"} => p \notin cleared
  /\ cpc[p] \in {"exec", "running"} => (p \in cleared <=> OPT_CLEAR \in g_active_options[p])

PreparedInv ==
  /\ \A p \in Pids : StageInv(p) /\ \A t \in Ttys : TtyInv(p, t)
  /\ \A t \in Ttys : ttymode[t] = "graphics" => switched(t)

\* A string argument evaluates to itself, if at all.
LEMMA EvalStringSelf == ASSUME NEW v PROVE eval_string(v) \subseteq {v}
  <1>1. ASSUME NEW n PROVE table_lookup(g_values, n, "string") = {}
    BY DEF table_lookup, g_values
  <1>2. eval_literal(v, "string") \subseteq {v}
    BY DEF eval_literal
  <1> QED BY <1>1, <1>2 DEF eval_string, eval

\* An integer argument has at most one value: table_lookup returns the first match.
LEMMA EvalIntOne == ASSUME NEW v, NEW x \in eval_int(v), NEW y \in eval_int(v) PROVE x = y
  <1>1. ASSUME NEW n, NEW e \in table_lookup(g_values, n, "int"), NEW h \in table_lookup(g_values, n, "int")
        PROVE  e = h /\ e.type = "int"
    BY DEF table_lookup, g_values
  <1>2. ASSUME NEW e, e.type = "int" PROVE eval_entry(e) = {e.value}
    BY <1>2 DEF eval_entry
  <1>3. eval_literal(v, "int") = {}
    BY DEF eval_literal
  <1> QED BY <1>1, <1>2, <1>3 DEF eval_int, eval

\* One more line: its option, if it enables one.
LEMMA OptionsNext ==
  ASSUME NEW n \in Nat, n >= 1
  PROVE  OptionsAbove(n + 1) = OptionsAbove(n) \cup (IF enable_valid(n) THEN eval_int(directives[n][2]) ELSE {})
  <1>1. 1..((n + 1) - 1) = (1..(n - 1)) \cup {n}
    OBVIOUS
  <1>2. ASSUME NEW l, NEW x
        PROVE  x \in OptionsAbove(l) <=> \E m \in 1..(l - 1) : enable_valid(m) /\ x \in eval_int(directives[m][2])
    BY DEF OptionsAbove
  <1>3. ASSUME NEW x
        PROVE  x \in OptionsAbove(n + 1) <=>
                 x \in OptionsAbove(n) \/ (enable_valid(n) /\ x \in eval_int(directives[n][2]))
    <2>1. x \in OptionsAbove(n + 1) <=>
            \E m \in 1..((n + 1) - 1) : enable_valid(m) /\ x \in eval_int(directives[m][2])
      BY <1>2
    <2> QED BY <1>1, <1>2, <2>1
  <1> QED BY <1>3

\* Line m sets variable b[1] to b[2], and no line below it up to n sets it again.
sets(m, b, n) ==
  /\ env_valid(m) /\ b \in eval_string(directives[m][2]) \X eval_string(directives[m][3])
  /\ \A o \in (m + 1)..(n - 1) :
       env_valid(o) => eval_string(directives[o][2]) # eval_string(directives[m][2])

LEMMA EnvAboveIs ==
  ASSUME NEW n, NEW b
  PROVE  b \in EnvAbove(n) <=> \E m \in 1..(n - 1) : sets(m, b, n)
  BY DEF EnvAbove, sets

\* One more line: its variable, if it sets one, instead of an older value.
LEMMA EnvNext ==
  ASSUME NEW n \in Nat, n >= 1
  PROVE  /\ ~env_valid(n) => EnvAbove(n + 1) = EnvAbove(n)
         /\ env_valid(n) => \A name \in eval_string(directives[n][2]), value \in eval_string(directives[n][3]) :
                              EnvAbove(n + 1) = setenv(EnvAbove(n), name, value)
  <1>1. 1..((n + 1) - 1) = (1..(n - 1)) \cup {n}
    OBVIOUS
  <1>2. \A m \in 1..(n - 1) : (m + 1)..((n + 1) - 1) = ((m + 1)..(n - 1)) \cup {n}
    OBVIOUS
  <1>3. (n + 1)..((n + 1) - 1) = {}
    OBVIOUS
  <1>4. ASSUME NEW m \in 1..(n - 1), NEW b
        PROVE  sets(m, b, n + 1) <=>
                 /\ sets(m, b, n)
                 /\ env_valid(n) => eval_string(directives[n][2]) # eval_string(directives[m][2])
    BY <1>2 DEF sets
  <1>5. ASSUME NEW b
        PROVE  sets(n, b, n + 1) <=>
                 env_valid(n) /\ b \in eval_string(directives[n][2]) \X eval_string(directives[n][3])
    BY <1>3 DEF sets
  <1>6. ASSUME NEW b
        PROVE  b \in EnvAbove(n + 1) <=> (\E m \in 1..(n - 1) : sets(m, b, n + 1)) \/ sets(n, b, n + 1)
    <2>1. b \in EnvAbove(n + 1) <=> \E m \in 1..((n + 1) - 1) : sets(m, b, n + 1)
      BY EnvAboveIs
    <2> QED BY <1>1, <2>1
  <1>7. ASSUME ~env_valid(n), NEW b
        PROVE  b \in EnvAbove(n + 1) <=> b \in EnvAbove(n)
    BY <1>4, <1>5, <1>6, <1>7, EnvAboveIs
  <1>8. ASSUME env_valid(n), NEW name \in eval_string(directives[n][2]), NEW value \in eval_string(directives[n][3]), NEW b
        PROVE  b \in EnvAbove(n + 1) <=> b \in setenv(EnvAbove(n), name, value)
    <2>1. eval_string(directives[n][2]) = {name} /\ eval_string(directives[n][3]) = {value}
      BY <1>8, EvalStringSelf
    <2>2. sets(n, b, n + 1) <=> b = <<name, value>>
      BY <1>5, <1>8, <2>1
    <2>3. ASSUME NEW m \in 1..(n - 1)
          PROVE  sets(m, b, n + 1) <=> sets(m, b, n) /\ b[1] # name
      <3>1. sets(m, b, n) => b[1] \in eval_string(directives[m][2])
        BY DEF sets
      <3>2. sets(m, b, n) => eval_string(directives[m][2]) = {b[1]}
        BY <3>1, EvalStringSelf
      <3> QED BY <1>4, <1>8, <2>1, <3>2
    <2>4. b \in EnvAbove(n + 1) <=> (b \in EnvAbove(n) /\ b[1] # name) \/ b = <<name, value>>
      BY <1>6, <2>2, <2>3, EnvAboveIs
    <2> QED BY <2>4 DEF setenv
  <1>9. ASSUME ~env_valid(n) PROVE EnvAbove(n + 1) = EnvAbove(n)
    BY <1>7, <1>9
  <1>10. ASSUME env_valid(n), NEW name \in eval_string(directives[n][2]), NEW value \in eval_string(directives[n][3])
         PROVE  EnvAbove(n + 1) = setenv(EnvAbove(n), name, value)
    BY <1>8, <1>10
  <1> QED BY <1>9, <1>10

\* No step changes the configuration, and so what the lines above a line say.
LEMMA LinesStay ==
  ASSUME [Next]_vars
  PROVE  /\ directives' = directives
         /\ \A n : OptionsAbove(n)' = OptionsAbove(n) /\ EnvAbove(n)' = EnvAbove(n)
  <1>1. directives' = directives
    BY DEF Next, init_step, load_config, install_handler, cb_env, cb_enable, cb_tty_fork,
           cb_tty_record, directive_error, directives_done, notify_child, init_returns,
           child_step, child_open, child_setsid, child_ctty, child_mode, wait_start_signal,
           child_clear, child_exec, deliver, initvars, vars
  <1>2. \A n : (env_valid(n)' <=> env_valid(n)) /\ (enable_valid(n)' <=> enable_valid(n))
    BY <1>1 DEF env_valid, enable_valid
  <1>3. ASSUME NEW n PROVE OptionsAbove(n)' = OptionsAbove(n)
    BY <1>1, <1>2 DEF OptionsAbove
  <1>4. ASSUME NEW n PROVE EnvAbove(n)' = EnvAbove(n)
    <2>1. ASSUME NEW b PROVE b \in EnvAbove(n)' <=> b \in EnvAbove(n)
      <3>1. \A m : sets(m, b, n)' <=> sets(m, b, n)
        BY <1>1, <1>2 DEF sets
      <3>2. b \in EnvAbove(n)' <=> \E m \in 1..(n - 1) : sets(m, b, n)'
        BY <1>1, <1>2 DEF EnvAbove, sets
      <3> QED BY <3>1, <3>2, EnvAboveIs
    <2> QED BY <2>1
  <1> QED BY <1>1, <1>3, <1>4

\* init's options and environment follow its directives; fork copies them, and
\* nothing changes a child's copy.
LEMMA SnapshotStep == IInv /\ DoneInv /\ SnapshotInv /\ [Next]_vars => SnapshotInv'
  <1> SUFFICES ASSUME TypeOK, DoneInv, SnapshotInv, [Next]_vars PROVE SnapshotInv'
    BY DEF IInv
  <1> USE InitAssumption DEF Procs
  <1>a. i \in Nat /\ i >= 1
    BY DEF TypeOK
  <1>b. g_active_options[InitPid] = OptionsAbove(i) /\ env[InitPid] = EnvAbove(i)
    BY DEF SnapshotInv, SeesAbove
  \* The steps that leave init's line, and every copy, as they are.
  <1>c. ASSUME UNCHANGED <<i, g_active_options, env, d>>,
               \A q \in Pids : cpc'[q] # "none" => cpc[q] # "none"
        PROVE  SnapshotInv'
    <2>1. ASSUME NEW q, NEW n, SeesAbove(q, n) PROVE SeesAbove(q, n)'
      BY <1>c, <2>1, LinesStay DEF SeesAbove
    <2> QED BY <1>c, <2>1 DEF SnapshotInv
  \* The steps that go on to the next line and change no child's copy.
  <1>d. ASSUME UNCHANGED <<cpc, d>>, i' = i + 1,
               \A q \in Pids : g_active_options'[q] = g_active_options[q] /\ env'[q] = env[q],
               g_active_options'[InitPid] = OptionsAbove(i + 1), env'[InitPid] = EnvAbove(i + 1)
        PROVE  SnapshotInv'
    <2>1. ASSUME NEW q \in Pids, NEW n, SeesAbove(q, n) PROVE SeesAbove(q, n)'
      BY <1>d, <2>1, LinesStay DEF SeesAbove
    <2>2. \A n \in {i'} : SeesAbove(InitPid, n)'
      BY <1>d, LinesStay DEF SeesAbove
    <2> QED BY <1>d, <2>1, <2>2 DEF SnapshotInv
  <1>3. CASE cb_env
    <2>1. PICK name \in eval_string(directives[i][2]), value \in eval_string(directives[i][3]) :
             env' = [env EXCEPT ![InitPid] = setenv(@, name, value)]
      BY <1>3 DEF cb_env
    <2>2. env_valid(i) /\ ~enable_valid(i)
      BY <1>3, OneCallback DEF cb_env, env_valid, enable_valid
    <2>3. EnvAbove(i + 1) = setenv(EnvAbove(i), name, value)
      BY <1>a, <2>2, EnvNext
    <2>4. OptionsAbove(i + 1) = OptionsAbove(i)
      BY <1>a, <2>2, OptionsNext
    <2>5. env'[InitPid] = setenv(env[InitPid], name, value) /\ \A q \in Pids : env'[q] = env[q]
      BY <2>1 DEF TypeOK
    <2>6. UNCHANGED <<cpc, d, g_active_options>> /\ i' = i + 1
      BY <1>3 DEF cb_env, childvars
    <2> QED BY <1>b, <1>d, <2>3, <2>4, <2>5, <2>6
  <1>4. CASE cb_enable
    <2>1. enable_valid(i) /\ ~env_valid(i)
      BY <1>4, OneCallback DEF cb_enable, env_valid, enable_valid
    <2>2. EnvAbove(i + 1) = EnvAbove(i)
      BY <1>a, <2>1, EnvNext
    <2>3. OptionsAbove(i + 1) = OptionsAbove(i) \cup eval_int(directives[i][2])
      BY <1>a, <2>1, OptionsNext
    <2>4. /\ g_active_options'[InitPid] = g_active_options[InitPid] \cup eval_int(directives[i][2])
          /\ \A q \in Pids : g_active_options'[q] = g_active_options[q]
      BY <1>4 DEF cb_enable, TypeOK
    <2>5. UNCHANGED <<cpc, d, env>> /\ i' = i + 1
      BY <1>4 DEF cb_enable, childvars
    <2> QED BY <1>b, <1>d, <2>2, <2>3, <2>4, <2>5
  <1>5. CASE cb_tty_fork
    <2>1. PICK p \in Pids :
            /\ cpc[p] = "none"
            /\ cpc' = [cpc EXCEPT ![p] = "open"]
            /\ d' = [d EXCEPT ![p] = i]
            /\ g_active_options' = [g_active_options EXCEPT ![p] = g_active_options[InitPid]]
            /\ env' = [env EXCEPT ![p] = env[InitPid]]
      BY <1>5 DEF cb_tty_fork
    <2>2. i' = i
      BY <1>5 DEF cb_tty_fork
    <2>3. /\ \A q \in Pids \ {p} : cpc'[q] = cpc[q] /\ d'[q] = d[q]
          /\ \A q \in Procs \ {p} : g_active_options'[q] = g_active_options[q] /\ env'[q] = env[q]
          /\ d'[p] = i /\ g_active_options'[p] = OptionsAbove(i) /\ env'[p] = EnvAbove(i)
      BY <1>b, <2>1 DEF TypeOK
    <2>4. ASSUME NEW q \in Procs \ {p}, NEW n, SeesAbove(q, n) PROVE SeesAbove(q, n)'
      BY <2>3, <2>4, LinesStay DEF SeesAbove
    <2>5. \A n \in {d'[p]} : SeesAbove(p, n)'
      BY <2>3, LinesStay DEF SeesAbove
    <2>6. \A n \in {i'} : SeesAbove(InitPid, n)'
      BY <2>2, <2>4 DEF SnapshotInv
    <2>7. ASSUME NEW q \in Pids \ {p}, cpc'[q] # "none" PROVE \A n \in {d'[q]} : SeesAbove(q, n)'
      BY <2>3, <2>4, <2>7 DEF SnapshotInv
    <2> QED BY <2>5, <2>6, <2>7 DEF SnapshotInv
  <1>6. CASE cb_tty_record
    <2>1. UNCHANGED <<g_active_options, env, cpc, d>>
      BY <1>6 DEF cb_tty_record, procvars, childvars
    <2>2. CASE i' = i
      BY <1>c, <2>1, <2>2
    <2>3. CASE i' = i + 1
      <3>1. tty_valid(i)
        BY <1>6 DEF cb_tty_record, DoneInv
      <3>2. ~enable_valid(i) /\ ~env_valid(i)
        BY <3>1, OneCallback DEF tty_valid, env_valid, enable_valid
      <3>3. OptionsAbove(i + 1) = OptionsAbove(i) /\ EnvAbove(i + 1) = EnvAbove(i)
        BY <1>a, <3>2, OptionsNext, EnvNext
      <3> QED BY <1>b, <1>d, <2>1, <2>3, <3>3
    <2> QED BY <1>6, <2>2, <2>3 DEF cb_tty_record
  <1>7. CASE load_config \/ install_handler \/ directive_error \/ directives_done \/ notify_child \/ init_returns
    BY <1>7, <1>c DEF load_config, install_handler, directive_error, directives_done, notify_child,
                      init_returns, procvars, childvars
  <1>8. ASSUME NEW p \in Pids, child_step(p) \/ deliver(p) PROVE SnapshotInv'
    <2>1. UNCHANGED <<i, g_active_options, env, d>>
      BY <1>8 DEF child_step, child_open, child_setsid, child_ctty, child_mode, wait_start_signal,
                  child_clear, child_exec, deliver, initvars, procvars
    <2>2. \/ cpc[p] # "none" /\ \E c : cpc' = [cpc EXCEPT ![p] = c]
          \/ cpc' = cpc
      BY <1>8 DEF child_step, child_open, child_setsid, child_ctty, child_mode, wait_start_signal,
                  child_clear, child_exec, deliver, alive
    <2> QED BY <1>c, <2>1, <2>2 DEF TypeOK
  <1>9. CASE UNCHANGED vars
    BY <1>9, <1>c DEF vars, initvars, procvars, childvars
  <1> QED BY <1>3, <1>4, <1>5, <1>6, <1>7, <1>8, <1>9 DEF Next, init_step

\* A child's steps on its terminal, in the order of cb_tty's code.
LEMMA PreparedStep == IInv /\ IInv' /\ PreparedInv /\ [Next]_vars => PreparedInv'
  <1> SUFFICES ASSUME TypeOK, SignalInv', PreparedInv, [Next]_vars PROVE PreparedInv'
    BY DEF IInv
  <1> USE InitAssumption DEF Procs, ahead
  <1>a. directives' = directives
    BY LinesStay
  <1>b. ASSUME NEW q, d'[q] = d[q]
        PROVE  (wants_gfx(q)' <=> wants_gfx(q)) /\ \A t : on_tty(q, t)' <=> on_tty(q, t)
    BY <1>a, <1>b DEF wants_gfx, tty_mode, on_tty, tty_path
  <1>c. ASSUME d' = d
        PROVE  \A q : (wants_gfx(q)' <=> wants_gfx(q)) /\ \A t : on_tty(q, t)' <=> on_tty(q, t)
    BY <1>b, <1>c
  \* The steps that move no child.
  <1>d. ASSUME UNCHANGED <<cpc, d, leader, owner, ttymode, refused, cleared>>,
               \A q \in Pids : g_active_options'[q] = g_active_options[q]
        PROVE  PreparedInv'
    <2>1. \A q \in Pids : StageInv(q)'
      BY <1>d DEF PreparedInv, StageInv
    <2>2. \A q \in Pids, t \in Ttys : TtyInv(q, t)'
      BY <1>c, <1>d DEF PreparedInv, TtyInv, gets_gfx
    <2>3. \A t \in Ttys : ttymode'[t] = "graphics" => switched(t)'
      BY <1>c, <1>d DEF PreparedInv, switched, gets_gfx
    <2> QED BY <2>1, <2>2, <2>3 DEF PreparedInv
  \* The steps of a child that touch no terminal.
  <1>e. ASSUME NEW p \in Pids, NEW c, cpc' = [cpc EXCEPT ![p] = c],
               <<cpc[p], c>> \in {<<"open", "session">>, <<"open", "dead">>, <<"wait", "clear">>,
                                  <<"exec", "running">>, <<"exec", "dead">>},
               UNCHANGED <<d, leader, owner, ttymode, refused, cleared, g_active_options>>
        PROVE  PreparedInv'
    <2>1. cpc'[p] = c /\ \A q \in Pids \ {p} : cpc'[q] = cpc[q]
      BY <1>e DEF TypeOK
    <2>2. \/ cpc[p] = "open" /\ c \in {"session", "dead"}
          \/ cpc[p] = "wait" /\ c = "clear"
          \/ cpc[p] = "exec" /\ c \in {"running", "dead"}
      BY <1>e
    <2>3. ASSUME NEW q \in Pids PROVE StageInv(q)'
      BY <1>e, <2>1, <2>2 DEF PreparedInv, StageInv
    <2>4. ASSUME NEW q \in Pids, NEW t \in Ttys PROVE TtyInv(q, t)'
      <3>1. TtyInv(q, t) /\ (wants_gfx(q)' <=> wants_gfx(q)) /\ (on_tty(q, t)' <=> on_tty(q, t))
        BY <1>c, <1>e DEF PreparedInv
      <3>2. CASE q # p
        BY <1>e, <2>1, <3>1, <3>2 DEF TtyInv, gets_gfx
      <3>3. CASE q = p
        BY <1>e, <2>1, <2>2, <3>1, <3>3 DEF TtyInv, gets_gfx
      <3> QED BY <3>2, <3>3
    <2>5. ASSUME NEW t \in Ttys, ttymode'[t] = "graphics" PROVE switched(t)'
      <3>1. switched(t)
        BY <1>e, <2>5 DEF PreparedInv
      <3>2. PICK q \in Pids : /\ cpc[q] \notin ahead
                              /\ on_tty(q, t) /\ gets_gfx(q)
        BY <3>1 DEF switched, gets_gfx
      <3>3. cpc'[q] \notin ahead
        BY <2>1, <2>2, <3>2
      <3> QED BY <1>c, <1>e, <3>2, <3>3 DEF switched, gets_gfx
    <2> QED BY <2>3, <2>4, <2>5 DEF PreparedInv
  <1>1. CASE \/ load_config \/ install_handler \/ cb_env \/ cb_enable \/ cb_tty_record
             \/ directive_error \/ directives_done \/ notify_child \/ init_returns
    <2>1. UNCHANGED <<cpc, d, leader, owner, ttymode, refused, cleared>>
      BY <1>1 DEF load_config, install_handler, cb_env, cb_enable, cb_tty_record, directive_error,
                  directives_done, notify_child, init_returns, childvars, ttyvars
    <2>2. \A q \in Pids : g_active_options'[q] = g_active_options[q]
      BY <1>1 DEF load_config, install_handler, cb_env, cb_enable, cb_tty_record, directive_error,
                  directives_done, notify_child, init_returns, procvars, TypeOK
    <2> QED BY <1>d, <2>1, <2>2
  <1>2. CASE cb_tty_fork
    <2>1. PICK p \in Pids :
            /\ cpc[p] = "none" /\ cpc' = [cpc EXCEPT ![p] = "open"] /\ d' = [d EXCEPT ![p] = i]
            /\ g_active_options' = [g_active_options EXCEPT ![p] = g_active_options[InitPid]]
      BY <1>2 DEF cb_tty_fork
    <2>2. UNCHANGED <<leader, owner, ttymode, refused, cleared>>
      BY <1>2 DEF cb_tty_fork, ttyvars
    <2>3. /\ cpc'[p] = "open"
          /\ \A q \in Pids \ {p} : /\ cpc'[q] = cpc[q] /\ d'[q] = d[q]
                                   /\ g_active_options'[q] = g_active_options[q]
      BY <2>1 DEF TypeOK
    <2>4. ASSUME NEW q \in Pids PROVE StageInv(q)'
      BY <2>1, <2>2, <2>3 DEF PreparedInv, StageInv
    <2>5. ASSUME NEW q \in Pids, NEW t \in Ttys PROVE TtyInv(q, t)'
      <3>1. TtyInv(q, t)
        BY DEF PreparedInv
      <3>2. CASE q # p
        BY <1>b, <2>2, <2>3, <3>1, <3>2 DEF TtyInv, gets_gfx
      <3>3. CASE q = p
        BY <2>1, <2>2, <2>3, <3>1, <3>3 DEF TtyInv, gets_gfx
      <3> QED BY <3>2, <3>3
    <2>6. ASSUME NEW t \in Ttys, ttymode'[t] = "graphics" PROVE switched(t)'
      <3>1. PICK q \in Pids : /\ cpc[q] \notin ahead
                              /\ on_tty(q, t) /\ gets_gfx(q)
        BY <2>2, <2>6 DEF PreparedInv, switched
      <3>2. q # p
        BY <2>1, <3>1
      <3> QED BY <1>b, <2>2, <2>3, <3>1, <3>2 DEF switched, gets_gfx
    <2> QED BY <2>4, <2>5, <2>6 DEF PreparedInv
  <1>3. ASSUME NEW p \in Pids, child_open(p) \/ wait_start_signal(p) \/ child_exec(p) PROVE PreparedInv'
    <2>1. UNCHANGED <<d, leader, owner, ttymode, refused, cleared, g_active_options>>
      BY <1>3 DEF child_open, wait_start_signal, child_exec, procvars, ttyvars
    <2>2. \E c : /\ cpc' = [cpc EXCEPT ![p] = c]
                 /\ <<cpc[p], c>> \in {<<"open", "session">>, <<"open", "dead">>, <<"wait", "clear">>,
                                       <<"exec", "running">>, <<"exec", "dead">>}
      BY <1>3 DEF child_open, wait_start_signal, child_exec
    <2> QED BY <1>e, <2>1, <2>2
  <1>9. ASSUME NEW p \in Pids, child_setsid(p) PROVE PreparedInv'
    <2>1. /\ cpc[p] = "session" /\ cpc' = [cpc EXCEPT ![p] = "ctty"] /\ leader' = leader \cup {p}
          /\ UNCHANGED <<d, owner, ttymode, refused, cleared, g_active_options>>
      BY <1>9 DEF child_setsid, procvars
    <2>2. cpc'[p] = "ctty" /\ \A q \in Pids \ {p} : cpc'[q] = cpc[q]
      BY <2>1 DEF TypeOK
    <2>3. ASSUME NEW q \in Pids PROVE StageInv(q)'
      BY <2>1, <2>2 DEF PreparedInv, StageInv
    <2>4. ASSUME NEW q \in Pids, NEW t \in Ttys PROVE TtyInv(q, t)'
      <3>1. TtyInv(q, t) /\ (wants_gfx(q)' <=> wants_gfx(q)) /\ (on_tty(q, t)' <=> on_tty(q, t))
        BY <1>c, <2>1 DEF PreparedInv
      <3>2. CASE q # p
        BY <2>1, <2>2, <3>1, <3>2 DEF TtyInv, gets_gfx
      <3>3. CASE q = p
        BY <2>1, <2>2, <3>1, <3>3 DEF TtyInv, gets_gfx
      <3> QED BY <3>2, <3>3
    <2>5. ASSUME NEW t \in Ttys, ttymode'[t] = "graphics" PROVE switched(t)'
      <3>1. PICK q \in Pids : cpc[q] \notin ahead /\ on_tty(q, t) /\ gets_gfx(q)
        BY <2>1, <2>5 DEF PreparedInv, switched
      <3>2. q # p
        BY <2>1, <3>1
      <3> QED BY <1>c, <2>1, <2>2, <3>1, <3>2 DEF switched, gets_gfx
    <2> QED BY <2>3, <2>4, <2>5 DEF PreparedInv
  <1>4. ASSUME NEW p \in Pids, child_ctty(p) PROVE PreparedInv'
    <2>1. /\ cpc[p] = "ctty" /\ cpc' = [cpc EXCEPT ![p] = "mode"]
          /\ owner' = [t \in Ttys |-> IF on_tty(p, t) /\ p \in leader /\ owner[t] = InitPid THEN p ELSE owner[t]]
          /\ UNCHANGED <<d, leader, ttymode, refused, cleared, g_active_options>>
      BY <1>4 DEF child_ctty, procvars
    <2>6. p \in leader
      BY <2>1 DEF PreparedInv, StageInv
    <2>2. cpc'[p] = "mode" /\ \A q \in Pids \ {p} : cpc'[q] = cpc[q]
      BY <2>1 DEF TypeOK
    <2>3. ASSUME NEW q \in Pids PROVE StageInv(q)'
      BY <2>1, <2>2 DEF PreparedInv, StageInv
    <2>4. ASSUME NEW q \in Pids, NEW t \in Ttys PROVE TtyInv(q, t)'
      <3>1. TtyInv(q, t) /\ (wants_gfx(q)' <=> wants_gfx(q)) /\ (on_tty(q, t)' <=> on_tty(q, t))
        BY <1>c, <2>1 DEF PreparedInv
      <3>2. owner'[t] = IF on_tty(p, t) /\ owner[t] = InitPid THEN p ELSE owner[t]
        BY <2>1, <2>6
      <3>3. CASE q # p
        BY <2>1, <2>2, <3>1, <3>2, <3>3 DEF TtyInv, gets_gfx
      <3>4. CASE q = p
        BY <2>1, <2>2, <3>1, <3>2, <3>4 DEF TtyInv, gets_gfx
      <3> QED BY <3>3, <3>4
    <2>5. ASSUME NEW t \in Ttys, ttymode'[t] = "graphics" PROVE switched(t)'
      <3>1. PICK q \in Pids : /\ cpc[q] \notin ahead
                              /\ on_tty(q, t) /\ gets_gfx(q)
        BY <2>1, <2>5 DEF PreparedInv, switched
      <3>2. q # p
        BY <2>1, <3>1
      <3> QED BY <1>c, <2>1, <2>2, <3>1, <3>2 DEF switched, gets_gfx
    <2> QED BY <2>3, <2>4, <2>5 DEF PreparedInv
  <1>5. ASSUME NEW p \in Pids, child_mode(p) PROVE PreparedInv'
    <2>1. /\ cpc[p] = "mode" /\ cpc' = [cpc EXCEPT ![p] = "wait"]
          /\ UNCHANGED <<d, leader, owner, cleared, g_active_options>>
      BY <1>5 DEF child_mode, procvars
    <2>2. cpc'[p] = "wait" /\ \A q \in Pids \ {p} : cpc'[q] = cpc[q]
      BY <2>1 DEF TypeOK
    <2>3. p \notin refused
      BY <2>1 DEF PreparedInv, StageInv
    <2>4. /\ \A q \in Pids \ {p} : q \in refused' <=> q \in refused
          /\ \A t \in Ttys : ttymode'[t] = IF on_tty(p, t) /\ gets_gfx(p)' THEN "graphics" ELSE ttymode[t]
      <3>1. CASE refused' = refused \cup {p} /\ UNCHANGED ttymode
        BY <3>1 DEF gets_gfx, TypeOK
      <3>2. CASE /\ refused' = refused
                 /\ ttymode' = [t \in Ttys |-> IF on_tty(p, t) /\ wants_gfx(p) THEN "graphics" ELSE ttymode[t]]
        BY <1>c, <2>1, <2>3, <3>2 DEF gets_gfx
      <3> QED BY <1>5, <3>1, <3>2 DEF child_mode, wants_gfx
    <2>5. ASSUME NEW q \in Pids PROVE StageInv(q)'
      BY <2>1, <2>2, <2>4 DEF PreparedInv, StageInv
    <2>6. ASSUME NEW q \in Pids \ {p} PROVE gets_gfx(q)' <=> gets_gfx(q)
      BY <1>c, <2>1, <2>4 DEF gets_gfx
    <2>7. ASSUME NEW q \in Pids, NEW t \in Ttys PROVE TtyInv(q, t)'
      <3>1. TtyInv(q, t) /\ (on_tty(q, t)' <=> on_tty(q, t))
        BY <1>c, <2>1 DEF PreparedInv
      <3>2. CASE q # p
        BY <2>1, <2>2, <2>4, <2>6, <3>1, <3>2 DEF TtyInv
      <3>3. CASE q = p
        BY <2>1, <2>2, <2>4, <3>1, <3>3 DEF TtyInv
      <3> QED BY <3>2, <3>3
    <2>8. ASSUME NEW t \in Ttys, ttymode'[t] = "graphics" PROVE switched(t)'
      <3>1. CASE on_tty(p, t) /\ gets_gfx(p)'
        BY <1>c, <2>1, <2>2, <3>1 DEF switched
      <3>2. CASE ttymode[t] = "graphics"
        <4>1. PICK q \in Pids : cpc[q] \notin ahead /\ on_tty(q, t) /\ gets_gfx(q)
          BY <3>2 DEF PreparedInv, switched
        <4>2. q # p
          BY <2>1, <4>1
        <4> QED BY <1>c, <2>1, <2>2, <2>6, <4>1, <4>2 DEF switched
      <3> QED BY <2>4, <2>8, <3>1, <3>2
    <2> QED BY <2>5, <2>7, <2>8 DEF PreparedInv
  <1>6. ASSUME NEW p \in Pids, child_clear(p) PROVE PreparedInv'
    <2>1. /\ cpc[p] = "clear" /\ cpc' = [cpc EXCEPT ![p] = "exec"]
          /\ cleared' = IF OPT_CLEAR \in g_active_options[p] THEN cleared \cup {p} ELSE cleared
          /\ UNCHANGED <<d, leader, owner, ttymode, refused, g_active_options>>
      BY <1>6 DEF child_clear, procvars
    <2>2. cpc'[p] = "exec" /\ \A q \in Pids \ {p} : cpc'[q] = cpc[q]
      BY <2>1 DEF TypeOK
    <2>3. ASSUME NEW q \in Pids PROVE StageInv(q)'
      <3>1. StageInv(q)
        BY DEF PreparedInv
      <3>2. CASE q # p
        BY <2>1, <2>2, <3>1, <3>2 DEF StageInv
      <3>3. CASE q = p
        BY <2>1, <2>2, <3>1, <3>3 DEF StageInv
      <3> QED BY <3>2, <3>3
    <2>4. ASSUME NEW q \in Pids, NEW t \in Ttys PROVE TtyInv(q, t)'
      <3>1. TtyInv(q, t) /\ (wants_gfx(q)' <=> wants_gfx(q)) /\ (on_tty(q, t)' <=> on_tty(q, t))
        BY <1>c, <2>1 DEF PreparedInv
      <3> QED BY <2>1, <2>2, <3>1 DEF TtyInv, gets_gfx
    <2>5. ASSUME NEW t \in Ttys, ttymode'[t] = "graphics" PROVE switched(t)'
      <3>1. PICK q \in Pids : /\ cpc[q] \notin ahead
                              /\ on_tty(q, t) /\ gets_gfx(q)
        BY <2>1, <2>5 DEF PreparedInv, switched
      <3>2. cpc'[q] \notin ahead
        BY <2>2, <3>1
      <3> QED BY <1>c, <2>1, <3>1, <3>2 DEF switched, gets_gfx
    <2> QED BY <2>3, <2>4, <2>5 DEF PreparedInv
  <1>7. ASSUME NEW p \in Pids, deliver(p) PROVE PreparedInv'
    <2>1. cpc' = cpc \/ cpc' = [cpc EXCEPT ![p] = "killed"]
      BY <1>7 DEF deliver
    <2>2. cpc'[p] # "killed"
      BY DEF SignalInv
    <2>3. cpc' = cpc
      BY <2>1, <2>2 DEF TypeOK
    <2> QED BY <1>7, <1>d, <2>3 DEF deliver, ttyvars
  <1>8. CASE UNCHANGED vars
    BY <1>8, <1>d DEF vars, childvars, procvars, ttyvars
  <1> QED BY <1>1, <1>2, <1>3, <1>4, <1>5, <1>6, <1>7, <1>8, <1>9 DEF Next, init_step, child_step

\* The inductive invariant of what children see and do.
LEMMA ChildrenPrepared == Spec => [](IInv /\ SnapshotInv /\ PreparedInv)
  <1>1. Init => DoneInv
    BY DEF Init, DoneInv, notified
  <1>2. ASSUME Init PROVE SnapshotInv
    <2>1. i = 1 /\ g_active_options[InitPid] = {} /\ env[InitPid] = {} /\ \A p \in Pids : cpc[p] = "none"
      BY <1>2 DEF Init, Procs
    <2>2. OptionsAbove(1) = {}
      BY DEF OptionsAbove
    <2>3. EnvAbove(1) = {}
      <3>1. ASSUME NEW b PROVE b \notin EnvAbove(1)
        BY EnvAboveIs
      <3> QED BY <3>1
    <2> QED BY <2>1, <2>2, <2>3 DEF SnapshotInv, SeesAbove
  <1>3. Init => PreparedInv
    BY InitAssumption DEF Init, PreparedInv, StageInv, TtyInv, ahead
  <1> QED BY <1>1, <1>2, <1>3, DoneInvStep, SnapshotStep, PreparedStep, Inductive, PTL DEF Spec

\* fork gives each program the options and the variables of the lines above its own,
\* the last assignment winning, whatever the lines below do while it waits.
THEOREM SnapshotsAreExact == Spec => []SnapshotExact
  <1>1. SnapshotInv => SnapshotExact
    BY DEF SnapshotInv, SnapshotExact, SeesAbove
  <1> QED BY <1>1, ChildrenPrepared, PTL

\* A program on a terminal of its own runs with that terminal under its control, in the
\* mode of its line unless it refused it, and cleared when a line above enables it.
THEOREM ProgramsRunPrepared == Spec => []RunsPrepared
  <1>1. ASSUME IInv, SnapshotInv, PreparedInv, NEW p \in Pids, NEW t \in Ttys,
               cpc[p] = "running", on_tty(p, t), sole_user(p)
        PROVE  /\ owner[t] = p
               /\ ttymode[t] = "graphics" <=> tty_mode(d[p]) = {TTY_GFX} /\ p \notin refused
               /\ p \in cleared <=> OPT_CLEAR \in OptionsAbove(d[p])
    <2>1. ASSUME NEW q \in Pids, on_tty(q, t), cpc[q] # "none" PROVE q = p
      <3>1. tty_path(d[q]) = {t} /\ tty_path(d[p]) = {t}
        BY <1>1, <2>1, EvalStringSelf DEF on_tty, tty_path
      <3> QED BY <1>1, <2>1, <3>1 DEF sole_user
    <2>2. owner[t] = p
      <3>1. owner[t] \in Pids /\ owner[t] # InitPid
        BY <1>1 DEF PreparedInv, TtyInv, IInv, TypeOK, Procs
      <3>2. \A q \in Pids : owner[t] = q => cpc[q] # "none" /\ on_tty(q, t)
        BY <1>1 DEF PreparedInv, TtyInv
      <3> QED BY <2>1, <3>1, <3>2
    <2>3. wants_gfx(p) <=> tty_mode(d[p]) = {TTY_GFX}
      BY EvalIntOne DEF wants_gfx, tty_mode
    <2>4. ttymode[t] = "graphics" <=> gets_gfx(p)
      <3>1. gets_gfx(p) => ttymode[t] = "graphics"
        BY <1>1 DEF PreparedInv, TtyInv
      <3>2. ASSUME ttymode[t] = "graphics" PROVE gets_gfx(p)
        BY <1>1, <2>1, <3>2 DEF PreparedInv, switched, ahead
      <3> QED BY <3>1, <3>2
    <2>5. p \in cleared <=> OPT_CLEAR \in g_active_options[p]
      BY <1>1 DEF PreparedInv, StageInv
    <2>6. g_active_options[p] = OptionsAbove(d[p])
      BY <1>1 DEF SnapshotInv, SeesAbove
    <2> QED BY <2>2, <2>3, <2>4, <2>5, <2>6 DEF gets_gfx
  <1>2. IInv /\ SnapshotInv /\ PreparedInv => RunsPrepared
    BY <1>1 DEF RunsPrepared
  <1> QED BY <1>2, ChildrenPrepared, PTL

=============================================================================
