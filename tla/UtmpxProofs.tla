----------------------------- MODULE UtmpxProofs -----------------------------
(***************************************************************************)
(* The login records and the descriptors around them, for any number of    *)
(* descriptors, files and calls.                                           *)
(*                                                                         *)
(* OwnerOK: whose descriptor utmpx_file is, and which others the library   *)
(* has open.  AcceptOK and FlagOK: nobody but sys_accept touches a         *)
(* descriptor that it has not returned, so that each has the flags that it *)
(* was asked for.  RecordsOK: the file is a sequence of whole records, and *)
(* the offset is between two of them.                                      *)
(***************************************************************************)
EXTENDS Utmpx, TLAPS

Entries == [desc : Nat, owner : {"app", "utmpx"}, via : {"start", "open", "pipe", "accept"},
            asked : SUBSET Flags, cloexec : BOOLEAN]

Records == {"own", "other"} \X Nat
Halves  == Records \X {1, 2}

DescTypeOK ==
  /\ fd \in [Fds -> Entries \cup {closed}]
  /\ opens \in Nat /\ nonblock \subseteq Nat /\ unset \subseteq Nat
  /\ acc \in [fd : Fds, desc : Nat, todo : SUBSET Flags]

CallTypeOK ==
  /\ utmpx_file \in Fds \cup {-1}
  /\ upc \in {"idle", "read", "seek", "write", "name"}
  /\ path \in Paths /\ pos \in Nat /\ calls \in Nat
  /\ content \in [Paths -> Seq(Halves)] /\ added \in [Paths -> Seq(Records)]
  /\ ended \in {"never", "now", "before"} /\ disturbed \in BOOLEAN

UtmpxTypeOK == DescTypeOK /\ CallTypeOK

\* The numbers of open files are used up to opens.
NumbersOK ==
  /\ \A f \in Fds : fd[f] # closed => fd[f].desc <= opens
  /\ \A n \in nonblock \cup unset \cup {acc.desc} : n <= opens

\* Whose descriptors the library's number, and the ones that it has open, are.
OwnerOK ==
  /\ ended # "now" /\ upc # "name" /\ utmpx_file # -1 => fd[utmpx_file].owner = "utmpx"
  /\ \A f \in Fds : fd[f].owner = "utmpx" => f = 0 \/ (f = utmpx_file /\ upc # "name")
  /\ upc \in {"read", "seek", "write"} => utmpx_file # -1
  /\ upc # "name" /\ utmpx_file # -1 /\ ~foreign => pos <= Len(content[path])

\* The descriptor that sys_accept is still setting up is the only one of its open file.
AcceptOK ==
  acc.todo # {} =>
    /\ fd[acc.fd] # closed
    /\ fd[acc.fd].owner = "app" /\ fd[acc.fd].via = "accept" /\ fd[acc.fd].desc = acc.desc
    /\ acc.todo \subseteq fd[acc.fd].asked
    /\ \A g \in Fds \ {acc.fd} : fd[g] # closed => fd[g].desc # acc.desc

\* The flags that sys_accept has yet to set for an open file.
left(n) == IF n = acc.desc THEN acc.todo ELSE {}

HasExactly(f, flags) ==
  /\ fd[f].cloexec <=> "cloexec" \in flags
  /\ fd[f].desc \in nonblock <=> "nonblock" \in flags

FlagOK(f) ==
  fd[f] # closed /\ fd[f].owner = "app" =>
    /\ fd[f].via \in {"start", "open"} => HasExactly(f, fd[f].asked)
    /\ fd[f].via = "pipe" => fd[f].desc \notin nonblock
    /\ fd[f].via = "accept" =>
         /\ fd[f].cloexec => "cloexec" \in fd[f].asked
         /\ fd[f].desc \in nonblock => "nonblock" \in fd[f].asked
         /\ fd[f].desc \notin unset => HasExactly(f, fd[f].asked \ left(fd[f].desc))

\* The files hold whole records, and the offset is between two of them.
RecordsOK ==
  /\ \A p \in Paths : content[p] = flat(added[p])
  /\ returned = <<>> \/ \E p \in Paths : \E n \in DOMAIN added[p] : returned = halves(added[p][n])
  /\ pos % 2 = 0
  /\ upc = "write" => pos = Len(content[path])

UtmpxInv ==
  /\ UtmpxTypeOK /\ NumbersOK /\ OwnerOK
  /\ ended = "never" => AcceptOK /\ \A f \in Fds : FlagOK(f)
  /\ ended = "never" /\ ~disturbed => RecordsOK

-----------------------------------------------------------------------------
(* The steps of the descriptors *)

\* dup, dup2 and F_SETFD: a descriptor of the program, onto one of its own or a free one.
Dups(f, g, flags) ==
  /\ f \in settled /\ g \in settled \cup (Fds \ open_fds)
  /\ fd' = [fd EXCEPT ![g] = duplicate(f, flags)]
  /\ UNCHANGED <<nonblock, opens, acc, unset>>

\* What the program's calls come to.
ProgramStep ==
  \/ \E f \in Fds, flags \in SUBSET Flags : opened(f, "app", "open", flags, flags) /\ UNCHANGED acc
  \/ \E flags \in SUBSET Flags : sys_pipe(flags) \/ accept(flags)
  \/ \E f, g \in Fds, flags \in SUBSET {"cloexec"} : Dups(f, g, flags)
  \/ \E f \in Fds : sys_close(f)
  \/ accept_nonblock \/ accept_cloexec

\* Descriptors are natural numbers; a closed one belongs to nobody.
LEMMA FdFacts ==
  /\ Fds \subseteq Nat /\ 0 \in Fds /\ -1 \notin Fds
  /\ closed.owner = "none" /\ closed \notin Entries
BY DescriptorsAssumption DEF Fds, closed, Entries

\* The calls of Descriptors are those of ProgramStep.
LEMMA ProgramSteps ==
  ASSUME DescTypeOK, DescriptorsNext
  PROVE  ProgramStep
<1>1. ASSUME NEW flags \in SUBSET Flags, sys_open(flags) \/ sys_socket(flags) PROVE ProgramStep
  BY <1>1 DEF sys_open, sys_openat, sys_socket, ProgramStep
<1>2. CASE sys_open_dir
  BY <1>2 DEF sys_open_dir, sys_open, sys_openat, ProgramStep
<1>3. ASSUME NEW f \in Fds, sys_dup(f) PROVE ProgramStep
  <2>1. PICK g \in lowest : fd' = [fd EXCEPT ![g] = duplicate(f, {})]
    BY <1>3 DEF sys_dup
  <2>2. g \in Fds /\ Dups(f, g, {})
    BY <1>3, <2>1 DEF sys_dup, Dups, lowest
  <2> QED BY <2>2 DEF ProgramStep
<1>4. ASSUME NEW f \in Fds, NEW flags \in SUBSET {"cloexec"}, sys_fcntl(f, flags) PROVE ProgramStep
  <2>1. Dups(f, f, flags)
    BY <1>4 DEF sys_fcntl, Dups
  <2> QED BY <2>1 DEF ProgramStep
<1>5. ASSUME NEW f \in Fds, NEW g \in Fds, NEW flags \in SUBSET {"cloexec"}, sys_dup2(f, flags, g)
      PROVE  ProgramStep
  <2>1. Dups(f, g, flags)
    BY <1>5 DEF sys_dup2, Dups
  <2> QED BY <2>1 DEF ProgramStep
<1>6. CASE \E flags \in SUBSET Flags : sys_pipe(flags) \/ accept(flags)
  BY <1>6 DEF ProgramStep
<1>7. CASE (\E f \in Fds : sys_close(f)) \/ accept_nonblock \/ accept_cloexec
  BY <1>7 DEF ProgramStep
<1> QED BY <1>1, <1>2, <1>3, <1>4, <1>5, <1>6, <1>7 DEF DescriptorsNext, Calls

\* A new open file takes a free descriptor and a number that was not used.
LEMMA Opening ==
  ASSUME DescTypeOK, NEW f \in Fds, NEW owner \in {"app", "utmpx"},
         NEW via \in {"start", "open", "pipe", "accept"},
         NEW asked \in SUBSET Flags, NEW flags \in SUBSET Flags, opened(f, owner, via, asked, flags)
  PROVE  /\ fd[f] = closed /\ opens' = opens + 1 /\ unset' = unset
         /\ fd'[f] \in Entries /\ fd'[f] = entry(opens + 1, owner, via, asked, flags)
         /\ fd' \in [Fds -> Entries \cup {closed}]
         /\ nonblock' = nonblock \cup (IF "nonblock" \in flags THEN {opens + 1} ELSE {})
<1>1. fd[f] = closed
  BY DEF opened, lowest, open_fds
<1>2. entry(opens + 1, owner, via, asked, flags) \in Entries
  BY DEF DescTypeOK, entry, Entries
<1> QED BY <1>1, <1>2 DEF opened, DescTypeOK

\* The other descriptors stay as they are.
LEMMA OpeningKeeps ==
  ASSUME DescTypeOK, NEW f \in Fds, NEW owner, NEW via, NEW asked, NEW flags,
         opened(f, owner, via, asked, flags), NEW g \in Fds \ {f}
  PROVE  fd'[g] = fd[g]
BY DEF opened, DescTypeOK

\* A duplicate has the open file of the original; only the descriptor's own flag is new.
LEMMA Duplicating ==
  ASSUME DescTypeOK, NEW f, NEW g, NEW flags \in SUBSET {"cloexec"}, Dups(f, g, flags)
  PROVE  /\ f \in Fds /\ fd[f] \in Entries /\ fd[f].owner = "app"
         /\ g \in Fds /\ (fd[g] = closed \/ fd[g].owner = "app")
         /\ acc.todo # {} => fd[f].desc # acc.desc /\ (fd[g] = closed \/ fd[g].desc # acc.desc)
         /\ fd' \in [Fds -> Entries \cup {closed}] /\ fd'[g] \in Entries
         /\ fd'[g].desc = fd[f].desc /\ fd'[g].owner = "app" /\ fd'[g].via = fd[f].via
         /\ fd'[g].asked = (fd[f].asked \ {"cloexec"}) \cup flags
         /\ fd'[g].cloexec <=> "cloexec" \in flags
         /\ \A h \in Fds \ {g} : fd'[h] = fd[h]
         /\ UNCHANGED <<nonblock, opens, acc, unset>>
<1>1. /\ f \in Fds /\ fd[f] \in Entries /\ fd[f].owner = "app"
      /\ acc.todo # {} => fd[f].desc # acc.desc
  BY DEF Dups, settled, of_app, open_fds, DescTypeOK
<1>2. /\ g \in Fds /\ (fd[g] = closed \/ fd[g].owner = "app")
      /\ acc.todo # {} => fd[g] = closed \/ fd[g].desc # acc.desc
  BY DEF Dups, settled, of_app, open_fds, DescTypeOK
<1> DEFINE a == (fd[f].asked \ {"cloexec"}) \cup flags
           c == "cloexec" \in flags
           d == [desc |-> fd[f].desc, owner |-> fd[f].owner, via |-> fd[f].via, asked |-> a, cloexec |-> c]
<1>3. duplicate(f, flags) = d
  <2>1. \A x, y : [fd[f] EXCEPT !.asked = x, !.cloexec = y] =
          [desc |-> fd[f].desc, owner |-> fd[f].owner, via |-> fd[f].via, asked |-> x, cloexec |-> y]
    <3> TAKE x, y
    <3> DEFINE e == [fd[f] EXCEPT !.asked = x]
    <3>1. e = [desc |-> fd[f].desc, owner |-> fd[f].owner, via |-> fd[f].via, asked |-> x,
               cloexec |-> fd[f].cloexec]
      BY <1>1 DEF Entries
    <3>2. [e EXCEPT !.cloexec = y] =
            [desc |-> fd[f].desc, owner |-> fd[f].owner, via |-> fd[f].via, asked |-> x, cloexec |-> y]
      <4> HIDE DEF e
      <4> QED BY <3>1
    <3> QED BY <3>2
  <2> QED BY <2>1, Zenon DEF duplicate
<1>4. d \in Entries
  <2>1. a \in SUBSET Flags
    BY <1>1 DEF Entries, Flags
  <2>2. c \in BOOLEAN
    OBVIOUS
  <2> HIDE DEF a, c
  <2> QED BY <1>1, <2>1, <2>2 DEF Entries
<1>5. fd' = [fd EXCEPT ![g] = d]
  BY <1>3 DEF Dups
<1>6. d.desc = fd[f].desc /\ d.owner = fd[f].owner /\ d.via = fd[f].via /\ d.asked = a /\ d.cloexec = c
  OBVIOUS
<1> HIDE DEF d
<1>7. fd' \in [Fds -> Entries \cup {closed}] /\ fd'[g] = d /\ \A h \in Fds \ {g} : fd'[h] = fd[h]
  BY <1>2, <1>4, <1>5 DEF DescTypeOK
<1>8. UNCHANGED <<nonblock, opens, acc, unset>>
  BY DEF Dups
<1>9. d.cloexec <=> "cloexec" \in flags
  BY <1>6
<1> QED BY <1>1, <1>2, <1>4, <1>6, <1>7, <1>8, <1>9

\* A pipe takes two free descriptors and two numbers that were not used.
LEMMA Piping ==
  ASSUME DescTypeOK, NEW flags \in SUBSET Flags, sys_pipe(flags)
  PROVE  \E f, g \in Fds :
           /\ f # g /\ fd[f] = closed /\ fd[g] = closed
           /\ fd' \in [Fds -> Entries \cup {closed}] /\ fd'[f] \in Entries /\ fd'[g] \in Entries
           /\ fd'[f] = entry(opens + 1, "app", "pipe", flags, {})
           /\ fd'[g] = entry(opens + 2, "app", "pipe", flags, {})
           /\ \A h \in Fds \ {f, g} : fd'[h] = fd[h]
           /\ opens' = opens + 2 /\ UNCHANGED <<nonblock, acc, unset>>
<1>1. PICK f \in lowest : \E g \in Fds \ (open_fds \cup {f}) :
             fd' = [fd EXCEPT ![f] = entry(opens + 1, "app", "pipe", flags, {}),
                              ![g] = entry(opens + 2, "app", "pipe", flags, {})]
  BY DEF sys_pipe
<1>2. PICK g \in Fds \ (open_fds \cup {f}) :
             fd' = [fd EXCEPT ![f] = entry(opens + 1, "app", "pipe", flags, {}),
                              ![g] = entry(opens + 2, "app", "pipe", flags, {})]
  BY <1>1
<1>3. f \in Fds /\ g \in Fds /\ f # g /\ fd[f] = closed /\ fd[g] = closed
  BY DEF lowest, open_fds
<1>4. /\ entry(opens + 1, "app", "pipe", flags, {}) \in Entries
      /\ entry(opens + 2, "app", "pipe", flags, {}) \in Entries
  BY DEF DescTypeOK, entry, Entries
<1>5. /\ fd' \in [Fds -> Entries \cup {closed}]
      /\ fd'[f] = entry(opens + 1, "app", "pipe", flags, {})
      /\ fd'[g] = entry(opens + 2, "app", "pipe", flags, {})
      /\ \A h \in Fds \ {f, g} : fd'[h] = fd[h]
  BY <1>2, <1>3, <1>4 DEF DescTypeOK
<1> QED BY <1>3, <1>4, <1>5 DEF sys_pipe

\* Only a settled descriptor of the program is closed by it.
LEMMA Closing ==
  ASSUME DescTypeOK, NEW f \in Fds, sys_close(f)
  PROVE  /\ fd[f] \in Entries /\ fd[f].owner = "app" /\ (acc.todo # {} => fd[f].desc # acc.desc)
         /\ fd' \in [Fds -> Entries \cup {closed}] /\ fd'[f] = closed
         /\ \A g \in Fds \ {f} : fd'[g] = fd[g]
         /\ UNCHANGED <<nonblock, opens, acc, unset>>
BY DEF sys_close, settled, of_app, open_fds, DescTypeOK

\* sys_accept's fcntl sets one flag on the descriptor's number, or fails.
LEMMA Helping ==
  ASSUME DescTypeOK, NEW flag \in Flags, fcntl_helper(flag)
  PROVE  \/ /\ fd[acc.fd] \in Entries
            /\ fd' \in [Fds -> Entries \cup {closed}] /\ fd'[acc.fd] \in Entries
            /\ fd'[acc.fd].desc = fd[acc.fd].desc /\ fd'[acc.fd].owner = fd[acc.fd].owner
            /\ fd'[acc.fd].via = fd[acc.fd].via /\ fd'[acc.fd].asked = fd[acc.fd].asked
            /\ fd'[acc.fd].cloexec <=> fd[acc.fd].cloexec \/ flag = "cloexec"
            /\ \A g \in Fds \ {acc.fd} : fd'[g] = fd[g]
            /\ nonblock' = nonblock \cup (IF flag = "nonblock" THEN {fd[acc.fd].desc} ELSE {})
            /\ unset' = unset
         \/ unset' = unset \cup {acc.desc} /\ UNCHANGED <<fd, nonblock>>
<1>1. CASE unset' = unset \cup {acc.desc} /\ UNCHANGED <<fd, nonblock>>
  BY <1>1
<1>2. CASE /\ fd[acc.fd] # closed
           /\ fd' = [fd EXCEPT ![acc.fd].cloexec = @ \/ flag = "cloexec"]
           /\ nonblock' = IF flag = "nonblock" THEN nonblock \cup {fd[acc.fd].desc} ELSE nonblock
           /\ UNCHANGED unset
  <2>1. acc.fd \in Fds /\ fd[acc.fd] \in Entries
    BY <1>2 DEF DescTypeOK
  <2> DEFINE e == fd[acc.fd]
             c == e.cloexec \/ flag = "cloexec"
             d == [desc |-> e.desc, owner |-> e.owner, via |-> e.via, asked |-> e.asked, cloexec |-> c]
  <2>2. [e EXCEPT !.cloexec = c] = d
    <3>1. \A y : [e EXCEPT !.cloexec = y] =
            [desc |-> e.desc, owner |-> e.owner, via |-> e.via, asked |-> e.asked, cloexec |-> y]
      BY <2>1 DEF Entries
    <3> QED BY <3>1, Zenon
  <2>3. d \in Entries
    BY <2>1 DEF Entries
  <2>4. fd' = [fd EXCEPT ![acc.fd] = [e EXCEPT !.cloexec = c]]
    BY <1>2
  <2>5. fd' = [fd EXCEPT ![acc.fd] = d]
    BY <2>2, <2>4
  <2>6. /\ d.desc = e.desc /\ d.owner = e.owner /\ d.via = e.via /\ d.asked = e.asked
        /\ d.cloexec <=> e.cloexec \/ flag = "cloexec"
    OBVIOUS
  <2> HIDE DEF d
  <2>7. fd' \in [Fds -> Entries \cup {closed}] /\ fd'[acc.fd] = d /\ \A h \in Fds \ {acc.fd} : fd'[h] = fd[h]
    BY <2>1, <2>3, <2>5 DEF DescTypeOK
  <2>8. nonblock' = nonblock \cup (IF flag = "nonblock" THEN {fd[acc.fd].desc} ELSE {})
    BY <1>2
  <2> QED BY <1>2, <2>1, <2>3, <2>6, <2>7, <2>8
<1> QED BY <1>1, <1>2 DEF fcntl_helper

\* What an entry says.
LEMMA EntryFields ==
  ASSUME NEW m, NEW owner, NEW via, NEW asked, NEW flags
  PROVE  /\ entry(m, owner, via, asked, flags).desc = m
         /\ entry(m, owner, via, asked, flags).owner = owner
         /\ entry(m, owner, via, asked, flags).via = via
         /\ entry(m, owner, via, asked, flags).asked = asked
         /\ entry(m, owner, via, asked, flags).cloexec <=> "cloexec" \in flags
BY DEF entry

\* The program's calls keep the types and the numbers, and touch no descriptor of the library.
LEMMA ProgramKeeps ==
  ASSUME DescTypeOK, NumbersOK, ProgramStep
  PROVE  /\ DescTypeOK' /\ NumbersOK'
         /\ \A f \in Fds : fd'[f].owner = "utmpx" <=> fd[f].owner = "utmpx"
<1> DEFINE Kept == \A f \in Fds : fd'[f].owner = "utmpx" <=> fd[f].owner = "utmpx"
<1> USE FdFacts
<1>1. ASSUME NEW f \in Fds, NEW via \in {"open", "accept"}, NEW asked \in SUBSET Flags,
             NEW flags \in SUBSET Flags, opened(f, "app", via, asked, flags),
             acc' = acc \/ acc' = [fd |-> f, desc |-> opens', todo |-> asked]
      PROVE  DescTypeOK' /\ NumbersOK' /\ Kept
  <2>1. /\ fd[f] = closed /\ opens' = opens + 1 /\ unset' = unset
        /\ fd' \in [Fds -> Entries \cup {closed}]
        /\ fd'[f].desc = opens + 1 /\ fd'[f].owner = "app"
        /\ \A g \in Fds \ {f} : fd'[g] = fd[g]
        /\ nonblock' \subseteq nonblock \cup {opens + 1}
    <3> DEFINE e == entry(opens + 1, "app", via, asked, flags)
    <3>1. via \in {"start", "open", "pipe", "accept"} /\ "app" \in {"app", "utmpx"}
      OBVIOUS
    <3>2. /\ fd[f] = closed /\ opens' = opens + 1 /\ unset' = unset
          /\ fd'[f] = e /\ e \in Entries /\ fd' \in [Fds -> Entries \cup {closed}]
          /\ nonblock' \subseteq nonblock \cup {opens + 1}
      BY <1>1, <3>1, Opening
    <3>3. e.desc = opens + 1 /\ e.owner = "app"
      BY EntryFields
    <3> HIDE DEF e
    <3>4. \A g \in Fds \ {f} : fd'[g] = fd[g]
      BY <1>1, OpeningKeeps
    <3> QED BY <3>2, <3>3, <3>4
  <2>2. DescTypeOK'
    <3>1. acc' \in [fd : Fds, desc : Nat, todo : SUBSET Flags]
      BY <1>1, <2>1 DEF DescTypeOK
    <3>2. opens' \in Nat /\ nonblock' \subseteq Nat
      BY <2>1 DEF DescTypeOK
    <3> QED BY <2>1, <3>1, <3>2 DEF DescTypeOK
  <2>3. acc'.desc = acc.desc \/ acc'.desc = opens + 1
    BY <1>1, <2>1
  <2>4. NumbersOK'
    BY <2>1, <2>3 DEF NumbersOK, DescTypeOK, Entries
  <2>5. Kept
    BY <2>1
  <2> QED BY <2>2, <2>4, <2>5
<1>2. ASSUME NEW flags \in SUBSET Flags, sys_pipe(flags)
      PROVE  DescTypeOK' /\ NumbersOK' /\ Kept
  <2>1. PICK f, g \in Fds :
           /\ f # g /\ fd[f] = closed /\ fd[g] = closed
           /\ fd' \in [Fds -> Entries \cup {closed}]
           /\ fd'[f] = entry(opens + 1, "app", "pipe", flags, {})
           /\ fd'[g] = entry(opens + 2, "app", "pipe", flags, {})
           /\ \A h \in Fds \ {f, g} : fd'[h] = fd[h]
           /\ opens' = opens + 2 /\ UNCHANGED <<nonblock, acc, unset>>
    BY <1>2, Piping
  <2>2. /\ fd'[f].desc = opens + 1 /\ fd'[f].owner = "app"
        /\ fd'[g].desc = opens + 2 /\ fd'[g].owner = "app"
    BY <2>1, EntryFields
  <2>3. DescTypeOK'
    BY <2>1 DEF DescTypeOK
  <2>4. NumbersOK'
    BY <2>1, <2>2 DEF NumbersOK, DescTypeOK, Entries
  <2>5. Kept
    BY <2>1, <2>2
  <2> QED BY <2>3, <2>4, <2>5
<1>3. ASSUME NEW f \in Fds, NEW g \in Fds, NEW flags \in SUBSET {"cloexec"}, Dups(f, g, flags)
      PROVE  DescTypeOK' /\ NumbersOK' /\ Kept
  <2>1. /\ fd[f] \in Entries /\ (fd[g] = closed \/ fd[g].owner = "app")
        /\ fd' \in [Fds -> Entries \cup {closed}]
        /\ fd'[g].desc = fd[f].desc /\ fd'[g].owner = "app"
        /\ \A h \in Fds \ {g} : fd'[h] = fd[h]
        /\ UNCHANGED <<nonblock, opens, acc, unset>>
    BY <1>3, Duplicating
  <2> QED BY <2>1 DEF DescTypeOK, NumbersOK
<1>4. ASSUME NEW f \in Fds, sys_close(f)
      PROVE  DescTypeOK' /\ NumbersOK' /\ Kept
  BY <1>4, Closing DEF DescTypeOK, NumbersOK
<1>5. ASSUME NEW flag \in Flags, fcntl_helper(flag), NEW todo \in SUBSET Flags,
             acc' = [acc EXCEPT !.todo = todo], opens' = opens
      PROVE  DescTypeOK' /\ NumbersOK' /\ Kept
  <2>1. acc' \in [fd : Fds, desc : Nat, todo : SUBSET Flags] /\ acc'.desc = acc.desc /\ acc.fd \in Fds
    BY <1>5 DEF DescTypeOK
  <2>2. CASE unset' = unset \cup {acc.desc} /\ UNCHANGED <<fd, nonblock>>
    BY <1>5, <2>1, <2>2 DEF DescTypeOK, NumbersOK
  <2>3. CASE ~ (unset' = unset \cup {acc.desc} /\ UNCHANGED <<fd, nonblock>>)
    <3>1. /\ fd[acc.fd] \in Entries
          /\ fd' \in [Fds -> Entries \cup {closed}]
          /\ fd'[acc.fd].desc = fd[acc.fd].desc /\ fd'[acc.fd].owner = fd[acc.fd].owner
          /\ \A g \in Fds \ {acc.fd} : fd'[g] = fd[g]
          /\ nonblock' \subseteq nonblock \cup {fd[acc.fd].desc}
          /\ unset' = unset
      BY <1>5, <2>3, Helping
    <3>2. fd[acc.fd].desc \in Nat /\ fd[acc.fd].desc <= opens
      BY <2>1, <3>1 DEF NumbersOK, Entries
    <3>3. NumbersOK'
      BY <1>5, <2>1, <3>1, <3>2 DEF NumbersOK, DescTypeOK
    <3> QED BY <1>5, <2>1, <3>1, <3>2, <3>3 DEF DescTypeOK
  <2> QED BY <2>2, <2>3
<1>6. CASE \E f \in Fds, flags \in SUBSET Flags : opened(f, "app", "open", flags, flags) /\ UNCHANGED acc
  BY <1>1, <1>6
<1>7. CASE \E flags \in SUBSET Flags : accept(flags)
  <2>1. PICK flags \in SUBSET Flags : accept(flags)
    BY <1>7
  <2>2. PICK f \in Fds : /\ opened(f, "app", "accept", flags, {})
                         /\ acc' = [fd |-> f, desc |-> opens', todo |-> flags]
    BY <2>1 DEF accept
  <2> QED BY <1>1, <2>2
<1>8. CASE accept_nonblock
  <2>1. acc.todo \ {"nonblock"} \in SUBSET Flags
    BY DEF DescTypeOK
  <2> QED BY <1>5, <1>8, <2>1 DEF accept_nonblock, Flags
<1>9. CASE accept_cloexec
  BY <1>5, <1>9 DEF accept_cloexec, Flags
<1> QED BY <1>2, <1>3, <1>4, <1>6, <1>7, <1>8, <1>9 DEF ProgramStep

-----------------------------------------------------------------------------
(* Flags *)

\* A descriptor that is left alone keeps the flags that it has and has yet to get.
LEMMA FlagKeeps ==
  ASSUME NEW g \in Fds, FlagOK(g), fd'[g] = fd[g],
         fd[g] # closed => (fd[g].desc \in nonblock' <=> fd[g].desc \in nonblock),
         fd[g] # closed => left(fd[g].desc)' = left(fd[g].desc),
         unset \subseteq unset'
  PROVE  FlagOK(g)'
BY DEF FlagOK, HasExactly

\* A new open file of the program, by open or socket, has the flags that it was asked for.
LEMMA FlagsOpen ==
  ASSUME DescTypeOK, NumbersOK, AcceptOK, \A f \in Fds : FlagOK(f),
         NEW f \in Fds, NEW owner \in {"app", "utmpx"}, NEW flags \in SUBSET Flags,
         opened(f, owner, "open", flags, flags), acc' = acc
  PROVE  AcceptOK' /\ \A g \in Fds : FlagOK(g)'
<1> DEFINE e == entry(opens + 1, owner, "open", flags, flags)
<1>1. /\ fd[f] = closed /\ unset' = unset /\ fd'[f] = e
      /\ nonblock' = nonblock \cup (IF "nonblock" \in flags THEN {opens + 1} ELSE {})
  BY Opening
<1>2. /\ e.desc = opens + 1 /\ e.owner = owner /\ e.via = "open" /\ e.asked = flags
      /\ e.cloexec <=> "cloexec" \in flags
  BY EntryFields
<1> HIDE DEF e
<1>3. \A g \in Fds \ {f} : fd'[g] = fd[g]
  BY OpeningKeeps
<1>4. \A g \in Fds : fd[g] # closed => fd[g].desc \in Nat /\ fd[g].desc < opens + 1
  BY DEF NumbersOK, DescTypeOK, Entries
<1>5. acc.fd \in Fds /\ acc.desc \in Nat /\ acc.desc < opens + 1 /\ opens + 1 \notin nonblock
  BY DEF NumbersOK, DescTypeOK
<1>6. AcceptOK'
  BY <1>1, <1>2, <1>3, <1>5 DEF AcceptOK
<1>7. \A n : left(n)' = left(n)
  BY DEF left
<1>8. ASSUME NEW g \in Fds \ {f} PROVE FlagOK(g)'
  <2>1. fd[g] # closed => (fd[g].desc \in nonblock' <=> fd[g].desc \in nonblock)
    BY <1>1, <1>4
  <2> QED BY <1>1, <1>3, <1>7, <2>1, FlagKeeps
<1>9. FlagOK(f)'
  <2>1. opens + 1 \in nonblock' <=> "nonblock" \in flags
    BY <1>1, <1>5
  <2> QED BY <1>1, <1>2, <2>1 DEF FlagOK, HasExactly
<1> QED BY <1>6, <1>8, <1>9

\* accept's descriptor starts without flags, and has all of them to set.
LEMMA FlagsAccept ==
  ASSUME DescTypeOK, NumbersOK, \A f \in Fds : FlagOK(f),
         NEW flags \in SUBSET Flags, accept(flags)
  PROVE  AcceptOK' /\ \A g \in Fds : FlagOK(g)'
<1>1. PICK f \in Fds : /\ opened(f, "app", "accept", flags, {})
                       /\ acc' = [fd |-> f, desc |-> opens', todo |-> flags]
  BY DEF accept
<1> DEFINE e == entry(opens + 1, "app", "accept", flags, {})
<1>2. /\ fd[f] = closed /\ unset' = unset /\ fd'[f] = e /\ opens' = opens + 1
      /\ nonblock' = nonblock \cup (IF "nonblock" \in {} THEN {opens + 1} ELSE {})
  BY <1>1, Opening
<1>3. /\ e.desc = opens + 1 /\ e.owner = "app" /\ e.via = "accept" /\ e.asked = flags
      /\ ~ e.cloexec
  BY EntryFields
<1> HIDE DEF e
<1>4. \A g \in Fds \ {f} : fd'[g] = fd[g]
  BY <1>1, OpeningKeeps
<1>5. \A g \in Fds : fd[g] # closed => fd[g].desc \in Nat /\ fd[g].desc < opens + 1
  BY DEF NumbersOK, DescTypeOK, Entries
<1>6. nonblock' = nonblock /\ opens + 1 \notin nonblock /\ opens \in Nat
  BY <1>2 DEF NumbersOK, DescTypeOK
<1>7. acc'.fd = f /\ acc'.desc = opens + 1 /\ acc'.todo = flags /\ acc.todo = {}
  BY <1>1, <1>2 DEF accept
<1>8. f \in Fds /\ fd'[f] # closed
  BY <1>2, <1>3 DEF closed
<1>9. AcceptOK'
  BY <1>2, <1>3, <1>4, <1>5, <1>6, <1>7, <1>8 DEF AcceptOK
<1>10. ASSUME NEW g \in Fds \ {f} PROVE FlagOK(g)'
  <2>1. fd[g] # closed => left(fd[g].desc)' = left(fd[g].desc)
    BY <1>4, <1>5, <1>6, <1>7 DEF left
  <2> QED BY <1>2, <1>4, <1>6, <2>1, FlagKeeps
<1>11. FlagOK(f)'
  BY <1>2, <1>3, <1>6, <1>7 DEF FlagOK, HasExactly, left
<1> QED BY <1>9, <1>10, <1>11

\* A pipe's ends have no O_NONBLOCK.
LEMMA FlagsPipe ==
  ASSUME DescTypeOK, NumbersOK, AcceptOK, \A f \in Fds : FlagOK(f),
         NEW flags \in SUBSET Flags, sys_pipe(flags)
  PROVE  AcceptOK' /\ \A g \in Fds : FlagOK(g)'
<1>1. PICK f, g \in Fds :
         /\ f # g /\ fd[f] = closed /\ fd[g] = closed
         /\ fd'[f] = entry(opens + 1, "app", "pipe", flags, {})
         /\ fd'[g] = entry(opens + 2, "app", "pipe", flags, {})
         /\ \A h \in Fds \ {f, g} : fd'[h] = fd[h]
         /\ UNCHANGED <<nonblock, acc, unset>>
  BY Piping
<1>2. /\ fd'[f].desc = opens + 1 /\ fd'[f].via = "pipe"
      /\ fd'[g].desc = opens + 2 /\ fd'[g].via = "pipe"
  BY <1>1, EntryFields
<1>3. /\ acc.fd \in Fds /\ acc.desc \in Nat /\ acc.desc < opens + 1
      /\ opens + 1 \notin nonblock /\ opens + 2 \notin nonblock /\ opens \in Nat
  BY DEF NumbersOK, DescTypeOK
<1>4. AcceptOK'
  BY <1>1, <1>2, <1>3 DEF AcceptOK
<1>5. \A n : left(n)' = left(n)
  BY <1>1 DEF left
<1>6. ASSUME NEW h \in Fds \ {f, g} PROVE FlagOK(h)'
  BY <1>1, <1>5, FlagKeeps
<1>7. FlagOK(f)' /\ FlagOK(g)'
  BY <1>1, <1>2, <1>3 DEF FlagOK
<1> QED BY <1>4, <1>6, <1>7

\* A duplicate has the status flags of its open file and the descriptor flag of its call.
LEMMA FlagsDup ==
  ASSUME DescTypeOK, NumbersOK, AcceptOK, \A f \in Fds : FlagOK(f),
         NEW f \in Fds, NEW g \in Fds, NEW flags \in SUBSET {"cloexec"}, Dups(f, g, flags)
  PROVE  AcceptOK' /\ \A h \in Fds : FlagOK(h)'
<1>1. /\ fd[f] \in Entries /\ fd[f].owner = "app"
      /\ acc.todo # {} => fd[f].desc # acc.desc /\ (fd[g] = closed \/ fd[g].desc # acc.desc)
      /\ fd'[g].desc = fd[f].desc /\ fd'[g].owner = "app" /\ fd'[g].via = fd[f].via
      /\ fd'[g].asked = (fd[f].asked \ {"cloexec"}) \cup flags
      /\ fd'[g].cloexec <=> "cloexec" \in flags
      /\ UNCHANGED <<nonblock, opens, acc, unset>>
  BY Duplicating
<1>2. \A h \in Fds \ {g} : fd'[h] = fd[h]
  BY Duplicating
<1>3. fd[f] # closed /\ acc.fd \in Fds
  BY <1>1, FdFacts DEF DescTypeOK
<1>4. AcceptOK'
  BY <1>1, <1>2, <1>3 DEF AcceptOK
<1>5. \A n : left(n)' = left(n)
  BY <1>1 DEF left
<1>6. ASSUME NEW h \in Fds \ {g} PROVE FlagOK(h)'
  BY <1>1, <1>2, <1>5, FlagKeeps
<1>7. FlagOK(g)'
  <2>1. left(fd[f].desc) = {}
    BY <1>1 DEF left
  <2>2. "nonblock" \in fd'[g].asked <=> "nonblock" \in fd[f].asked
    BY <1>1
  <2>3. "cloexec" \in fd'[g].asked <=> fd'[g].cloexec
    BY <1>1
  <2>4. FlagOK(f)
    OBVIOUS
  <2>5. fd'[g].desc = acc'.desc => acc'.todo = {}
    BY <1>1
  <2> QED BY <1>1, <1>3, <2>1, <2>2, <2>3, <2>4, <2>5 DEF FlagOK, HasExactly, left
<1> QED BY <1>4, <1>6, <1>7

\* close takes one descriptor away.
LEMMA FlagsClose ==
  ASSUME DescTypeOK, NumbersOK, AcceptOK, \A f \in Fds : FlagOK(f),
         NEW f \in Fds, acc.todo # {} => f # acc.fd,
         fd'[f] = closed, \A g \in Fds \ {f} : fd'[g] = fd[g], UNCHANGED <<nonblock, acc, unset>>
  PROVE  AcceptOK' /\ \A g \in Fds : FlagOK(g)'
<1>1. acc.fd \in Fds
  BY DEF DescTypeOK
<1>2. AcceptOK'
  BY <1>1 DEF AcceptOK
<1>3. \A n : left(n)' = left(n)
  BY DEF left
<1>4. ASSUME NEW h \in Fds \ {f} PROVE FlagOK(h)'
  BY <1>3, FlagKeeps
<1>5. FlagOK(f)'
  BY DEF FlagOK
<1> QED BY <1>2, <1>4, <1>5

\* sys_accept sets a flag of its own descriptor, or the flag counts as not set.
LEMMA FlagsHelper ==
  ASSUME DescTypeOK, NumbersOK, AcceptOK, \A f \in Fds : FlagOK(f),
         NEW flag \in acc.todo, fcntl_helper(flag), acc' = [acc EXCEPT !.todo = @ \ {flag}]
  PROVE  AcceptOK' /\ \A g \in Fds : FlagOK(g)'
<1> DEFINE a == acc.fd
<1>1. /\ a \in Fds /\ acc.todo \subseteq Flags /\ flag \in Flags /\ acc.desc \in Nat
      /\ acc'.fd = a /\ acc'.desc = acc.desc /\ acc'.todo = acc.todo \ {flag}
  BY DEF DescTypeOK
<1>2. /\ fd[a] # closed /\ fd[a].owner = "app" /\ fd[a].via = "accept" /\ fd[a].desc = acc.desc
      /\ acc.todo \subseteq fd[a].asked
  BY DEF AcceptOK
<1>3. \A g \in Fds \ {a} : fd[g] # closed => fd[g].desc # acc.desc
  BY DEF AcceptOK
<1>4. \A n : n # acc.desc => left(n)' = left(n)
  BY <1>1 DEF left
<1>5. left(acc.desc) = acc.todo /\ left(acc.desc)' = acc.todo \ {flag}
  BY <1>1 DEF left
<1>6. CASE unset' = unset \cup {acc.desc} /\ UNCHANGED <<fd, nonblock>>
  <2>1. AcceptOK'
    BY <1>1, <1>2, <1>3, <1>6 DEF AcceptOK
  <2>2. ASSUME NEW g \in Fds \ {a} PROVE FlagOK(g)'
    BY <1>3, <1>4, <1>6, FlagKeeps
  <2>3. FlagOK(a)'
    <3>1. /\ fd[a].cloexec => "cloexec" \in fd[a].asked
          /\ fd[a].desc \in nonblock => "nonblock" \in fd[a].asked
      BY <1>1, <1>2 DEF FlagOK
    <3>2. fd'[a].desc \in unset' /\ fd'[a].via = "accept"
      BY <1>2, <1>6
    <3> QED BY <1>6, <3>1, <3>2 DEF FlagOK
  <2> QED BY <2>1, <2>2, <2>3
<1>7. CASE ~ (unset' = unset \cup {acc.desc} /\ UNCHANGED <<fd, nonblock>>)
  <2>1. /\ fd[a] \in Entries /\ fd'[a] \in Entries
        /\ fd'[a].desc = fd[a].desc /\ fd'[a].owner = fd[a].owner
        /\ fd'[a].via = fd[a].via /\ fd'[a].asked = fd[a].asked
        /\ fd'[a].cloexec <=> fd[a].cloexec \/ flag = "cloexec"
        /\ nonblock' = nonblock \cup (IF flag = "nonblock" THEN {fd[a].desc} ELSE {})
        /\ unset' = unset
    BY <1>1, <1>7, Helping
  <2>2. \A g \in Fds \ {a} : fd'[g] = fd[g]
    BY <1>1, <1>7, Helping
  <2>3. AcceptOK'
    BY <1>1, <1>2, <1>3, <2>1, <2>2, FdFacts DEF AcceptOK
  <2>4. ASSUME NEW g \in Fds \ {a} PROVE FlagOK(g)'
    <3>1. fd[g] # closed => (fd[g].desc \in nonblock' <=> fd[g].desc \in nonblock)
      BY <1>2, <1>3, <2>1
    <3> QED BY <1>3, <1>4, <2>1, <2>2, <3>1, FlagKeeps
  <2>5. FlagOK(a)'
    <3>1. /\ fd[a].cloexec => "cloexec" \in fd[a].asked
          /\ fd[a].desc \in nonblock => "nonblock" \in fd[a].asked
          /\ fd[a].desc \notin unset => HasExactly(a, fd[a].asked \ acc.todo)
      BY <1>1, <1>2, <1>5 DEF FlagOK
    <3>2. flag \in {"cloexec", "nonblock"} /\ flag \in fd[a].asked /\ flag \in acc.todo
      BY <1>1, <1>2 DEF Flags
    <3>3. fd'[a].desc \in nonblock' <=> fd[a].desc \in nonblock \/ flag = "nonblock"
      BY <2>1
    <3>4. fd[a].desc \notin unset => HasExactly(a, fd[a].asked \ (acc.todo \ {flag}))'
      BY <1>1, <1>2, <2>1, <3>1, <3>2, <3>3 DEF HasExactly
    <3> QED BY <1>2, <1>5, <2>1, <3>1, <3>2, <3>3, <3>4 DEF FlagOK
  <2> QED BY <2>3, <2>4, <2>5
<1> QED BY <1>6, <1>7

\* The program's calls leave each of its descriptors with the flags asked for.
LEMMA FlagsProgram ==
  ASSUME DescTypeOK, NumbersOK, AcceptOK, \A f \in Fds : FlagOK(f), ProgramStep
  PROVE  AcceptOK' /\ \A g \in Fds : FlagOK(g)'
<1>1. CASE \E f \in Fds, flags \in SUBSET Flags : opened(f, "app", "open", flags, flags) /\ UNCHANGED acc
  <2>1. "app" \in {"app", "utmpx"}
    OBVIOUS
  <2> QED BY <1>1, <2>1, FlagsOpen
<1>2. CASE \E flags \in SUBSET Flags : sys_pipe(flags) \/ accept(flags)
  BY <1>2, FlagsPipe, FlagsAccept
<1>3. CASE \E f, g \in Fds, flags \in SUBSET {"cloexec"} : Dups(f, g, flags)
  BY <1>3, FlagsDup
<1>4. ASSUME NEW f \in Fds, sys_close(f)
      PROVE  AcceptOK' /\ \A g \in Fds : FlagOK(g)'
  <2>1. /\ acc.todo # {} => fd[f].desc # acc.desc
        /\ fd'[f] = closed /\ UNCHANGED <<nonblock, acc, unset>>
    BY <1>4, Closing
  <2>2. \A g \in Fds \ {f} : fd'[g] = fd[g]
    BY <1>4, Closing
  <2>3. acc.todo # {} => f # acc.fd
    BY <2>1 DEF AcceptOK
  <2> QED BY <2>1, <2>2, <2>3, FlagsClose
<1>5. CASE accept_nonblock
  BY <1>5, FlagsHelper DEF accept_nonblock
<1>6. CASE accept_cloexec
  <2>1. acc.todo \ {"cloexec"} = {} /\ "cloexec" \in acc.todo
    BY <1>6 DEF accept_cloexec
  <2>2. acc' = [acc EXCEPT !.todo = @ \ {"cloexec"}]
    BY <1>6, <2>1 DEF accept_cloexec
  <2> QED BY <1>6, <2>1, <2>2, FlagsHelper DEF accept_cloexec
<1> QED BY <1>1, <1>2, <1>3, <1>4, <1>5, <1>6 DEF ProgramStep

-----------------------------------------------------------------------------
(* Records *)

\* The greater and the smaller of two numbers.
LEMMA MaxMinOfTwo ==
  ASSUME NEW m \in Int, NEW n \in Int
  PROVE  /\ Max({m, n}) = IF m >= n THEN m ELSE n
         /\ Min({m, n}) = IF m <= n THEN m ELSE n
<1>1. Max({m, n}) \in {m, n} /\ Max({m, n}) >= m /\ Max({m, n}) >= n
  <2>1. \E x \in {m, n} : \A y \in {m, n} : x >= y
    BY DEF Max
  <2> QED BY <2>1 DEF Max
<1>2. Min({m, n}) \in {m, n} /\ Min({m, n}) <= m /\ Min({m, n}) <= n
  <2>1. \E x \in {m, n} : \A y \in {m, n} : x <= y
    OBVIOUS
  <2> QED BY <2>1 DEF Min
<1> QED BY <1>1, <1>2

\* The elements of a concatenation.
LEMMA ConcatFacts ==
  ASSUME NEW S, NEW u \in Seq(S), NEW v \in Seq(S)
  PROVE  /\ u \o v \in Seq(S) /\ Len(u \o v) = Len(u) + Len(v)
         /\ \A n \in 1..(Len(u) + Len(v)) : (u \o v)[n] = IF n <= Len(u) THEN u[n] ELSE v[n - Len(u)]
OBVIOUS

\* A function on 1..2 is a pair.
LEMMA PairOf ==
  ASSUME NEW c, NEW a \in Nat, NEW g, g = [n \in 1..2 |-> c[a + n - 1]]
  PROVE  g = <<c[a], c[a + 1]>>
OBVIOUS

\* Two elements of a sequence, as a sequence.
LEMMA TakeTwo ==
  ASSUME NEW S, NEW c \in Seq(S), NEW a \in Nat, a >= 1, a + 1 <= Len(c)
  PROVE  SubSeq(c, a, a + 1) = <<c[a], c[a + 1]>>
<1>1. \A b \in a..Len(c) : SubSeq(c, a, b) = [n \in 1..(b - a + 1) |-> c[a + n - 1]]
  OBVIOUS
<1>2. a + 1 \in a..Len(c) /\ a + 1 - a + 1 = 2
  OBVIOUS
<1>3. SubSeq(c, a, a + 1) = [n \in 1..2 |-> c[a + n - 1]]
  BY <1>1, <1>2
<1> QED BY <1>3, PairOf

\* Beyond the end of a sequence there is nothing.
LEMMA TakeNone ==
  ASSUME NEW S, NEW c \in Seq(S), NEW a \in Nat, Len(c) <= a
  PROVE  Len(SubSeq(c, a + 1, Len(c))) = 0
OBVIOUS

\* A write that starts within the file leaves a file of halves.
LEMMA OverwriteType ==
  ASSUME NEW c \in Seq(Halves), NEW units \in Seq(Halves), pos \in Nat, pos <= Len(c)
  PROVE  overwrite(c, units) \in Seq(Halves)
<1> DEFINE m == Max({Len(c), pos + Len(units)})
<1>1. Len(c) \in Nat /\ Len(units) \in Nat
  OBVIOUS
<1>2. m \in Nat /\ m = IF Len(c) >= pos + Len(units) THEN Len(c) ELSE pos + Len(units)
  BY <1>1, MaxMinOfTwo
<1> HIDE DEF m
<1>3. ASSUME NEW n \in 1..m
      PROVE  (IF n \in (pos + 1)..(pos + Len(units)) THEN units[n - pos] ELSE c[n]) \in Halves
  <2>1. CASE n \in (pos + 1)..(pos + Len(units))
    <3>1. n - pos \in 1..Len(units)
      BY <1>1, <2>1
    <3>2. units[n - pos] \in Halves
      BY <3>1
    <3> QED BY <2>1, <3>2
  <2>2. CASE n \notin (pos + 1)..(pos + Len(units))
    <3>1. n \in 1..Len(c)
      BY <1>1, <1>2, <2>2
    <3> QED BY <2>2, <3>1
  <2> QED BY <2>1, <2>2
<1>4. [n \in 1..m |-> IF n \in (pos + 1)..(pos + Len(units)) THEN units[n - pos] ELSE c[n]] \in Seq(Halves)
  BY <1>2, <1>3
<1> QED BY <1>4 DEF overwrite, m

\* Each record is two halves.
LEMMA FlatLength ==
  ASSUME NEW S, NEW rs \in Seq(S)
  PROVE  Len(rs) \in Nat /\ DOMAIN flat(rs) = 1..(2 * Len(rs)) /\ Len(flat(rs)) = 2 * Len(rs)
<1>1. Len(rs) \in Nat
  OBVIOUS
<1>2. 2 * Len(rs) \in Nat
  BY <1>1
<1> QED BY <1>1, <1>2 DEF flat

\* Record k is at 2k - 1 and 2k.
LEMMA FlatAt ==
  ASSUME NEW S, NEW rs \in Seq(S), NEW k \in 1..Len(rs)
  PROVE  flat(rs)[2 * k - 1] = <<rs[k], 1>> /\ flat(rs)[2 * k] = <<rs[k], 2>>
<1>1. Len(rs) \in Nat /\ k \in Nat
  OBVIOUS
<1>2. 2 * k - 1 \in 1..(2 * Len(rs)) /\ 2 * k \in 1..(2 * Len(rs))
  BY <1>1
<1>3. ((2 * k - 1) + 1) \div 2 = k /\ (2 * k + 1) \div 2 = k
  BY <1>1
<1>4. (2 * k - 1) % 2 = 1 /\ (2 * k) % 2 = 0
  BY <1>1
<1>5. flat(rs)[2 * k - 1] = halves(rs[k])[1]
  BY <1>2, <1>3, <1>4 DEF flat
<1>6. flat(rs)[2 * k] = halves(rs[k])[2]
  BY <1>2, <1>3, <1>4 DEF flat
<1> QED BY <1>5, <1>6 DEF halves

\* Every half is one of those.
LEMMA HalfOf ==
  ASSUME NEW l \in Nat, NEW n \in 1..(2 * l)
  PROVE  \E k \in 1..l : n = 2 * k - 1 \/ n = 2 * k
<1> DEFINE q == n \div 2
<1>1. n \in Int
  OBVIOUS
<1>2. q \in Int /\ 2 * q <= n /\ n < 2 * q + 2
  BY <1>1
<1> HIDE DEF q
<1>3. CASE n = 2 * q
  <2>1. q \in 1..l
    BY <1>2, <1>3
  <2> QED BY <1>3, <2>1
<1>4. CASE n = 2 * q + 1
  <2>1. q + 1 \in 1..l /\ n = 2 * (q + 1) - 1
    BY <1>2, <1>4
  <2> QED BY <2>1
<1> QED BY <1>1, <1>2, <1>3, <1>4

\* The halves are halves of the sequence's records.
LEMMA FlatType ==
  ASSUME NEW S, NEW rs \in Seq(S)
  PROVE  flat(rs) \in Seq(S \X {1, 2})
<1> DEFINE l == Len(rs)
           a == flat(rs)
<1>1. l \in Nat /\ DOMAIN a = 1..(2 * l)
  BY FlatLength
<1>2. a = [n \in 1..(2 * l) |-> a[n]]
  BY <1>1 DEF flat
<1>3. \A k \in 1..l : a[2 * k - 1] = <<rs[k], 1>> /\ a[2 * k] = <<rs[k], 2>> /\ rs[k] \in S
  BY FlatAt
<1> HIDE DEF l, a
<1>4. ASSUME NEW n \in 1..(2 * l) PROVE a[n] \in S \X {1, 2}
  <2>1. PICK k \in 1..l : n = 2 * k - 1 \/ n = 2 * k
    BY <1>1, HalfOf
  <2>2. a[n] = <<rs[k], 1>> \/ a[n] = <<rs[k], 2>>
    BY <1>3, <2>1
  <2>3. <<rs[k], 1>> \in S \X {1, 2} /\ <<rs[k], 2>> \in S \X {1, 2}
    BY <1>3
  <2> QED BY <2>2, <2>3
<1>5. 2 * l \in Nat
  BY <1>1
<1>6. a \in Seq(S \X {1, 2})
  BY <1>2, <1>4, <1>5
<1> QED BY <1>6 DEF a

\* The halves of one more record come after those of the others.
LEMMA FlatAppend ==
  ASSUME NEW S, NEW rs \in Seq(S), NEW r \in S
  PROVE  flat(Append(rs, r)) = flat(rs) \o halves(r)
<1> DEFINE rr == Append(rs, r)
           l == Len(rs)
           a == flat(rr)
           b == flat(rs) \o halves(r)
<1>1. rr \in Seq(S) /\ l \in Nat /\ Len(rr) = l + 1 /\ rr[l + 1] = r /\ \A n \in 1..l : rr[n] = rs[n]
  OBVIOUS
<1>2. DOMAIN a = 1..(2 * (l + 1)) /\ DOMAIN flat(rs) = 1..(2 * l) /\ Len(flat(rs)) = 2 * l
  BY <1>1, FlatLength
<1>3. Len(halves(r)) = 2 /\ halves(r)[1] = <<r, 1>> /\ halves(r)[2] = <<r, 2>>
  BY DEF halves
<1>4. b = [n \in 1..(2 * l + 2) |-> IF n <= 2 * l THEN flat(rs)[n] ELSE halves(r)[n - 2 * l]]
  <2>1. flat(rs) \in Seq(S \X {1, 2})
    BY FlatType
  <2>2. halves(r) \in Seq(S \X {1, 2})
    BY DEF halves
  <2> DEFINE u == flat(rs)
             v == halves(r)
  <2> HIDE DEF rr, l, a, u, v
  <2>3. \A n \in 1..(Len(u) + Len(v)) : (u \o v)[n] = IF n <= Len(u) THEN u[n] ELSE v[n - Len(u)]
    BY <2>1, <2>2 DEF u, v
  <2>4. (u \o v) \in Seq(S \X {1, 2}) /\ Len(u \o v) = Len(u) + Len(v)
    BY <2>1, <2>2 DEF u, v
  <2>5. u \o v = [n \in 1..Len(u \o v) |-> (u \o v)[n]]
    <3> DEFINE w == u \o v
    <3>1. w \in Seq(S \X {1, 2})
      BY <2>4
    <3> HIDE DEF w
    <3>2. w = [n \in 1..Len(w) |-> w[n]]
      BY <3>1
    <3> QED BY <3>2 DEF w
  <2>6. Len(u) = 2 * l /\ Len(v) = 2
    BY <1>2, <1>3 DEF u, v
  <2>7. u \o v = [n \in 1..(2 * l + 2) |-> IF n <= 2 * l THEN u[n] ELSE v[n - 2 * l]]
    <3> DEFINE w == u \o v
    <3>1. w = [n \in 1..(2 * l + 2) |-> w[n]]
      BY <2>4, <2>5, <2>6
    <3>2. \A n \in 1..(2 * l + 2) : w[n] = IF n <= 2 * l THEN u[n] ELSE v[n - 2 * l]
      BY <2>3, <2>6
    <3> HIDE DEF w
    <3>3. w = [n \in 1..(2 * l + 2) |-> IF n <= 2 * l THEN u[n] ELSE v[n - 2 * l]]
      BY <3>1, <3>2
    <3> QED BY <3>3 DEF w
  <2> QED BY <2>7 DEF u, v
<1>5. \A k \in 1..(l + 1) : a[2 * k - 1] = <<rr[k], 1>> /\ a[2 * k] = <<rr[k], 2>>
  BY <1>1, FlatAt
<1>6. \A k \in 1..l : flat(rs)[2 * k - 1] = <<rs[k], 1>> /\ flat(rs)[2 * k] = <<rs[k], 2>>
  BY <1>1, FlatAt
<1>7. a = [n \in 1..(2 * (l + 1)) |-> a[n]]
  BY <1>2 DEF flat
<1> HIDE DEF rr, l, a, b
<1>8. ASSUME NEW n \in 1..(2 * (l + 1)) PROVE a[n] = b[n]
  <2>1. PICK k \in 1..(l + 1) : n = 2 * k - 1 \/ n = 2 * k
    <3> DEFINE m == l + 1
    <3>1. m \in Nat /\ n \in 1..(2 * m)
      BY <1>1
    <3> HIDE DEF m
    <3>2. \E k \in 1..m : n = 2 * k - 1 \/ n = 2 * k
      BY <3>1, HalfOf
    <3> QED BY <3>2 DEF m
  <2>2. CASE k = l + 1
    <3>1. (n = 2 * k - 1 => n - 2 * l = 1) /\ (n = 2 * k => n - 2 * l = 2) /\ ~ (n <= 2 * l) /\ n \in 1..(2 * l + 2)
      BY <1>1, <2>1, <2>2
    <3>2. b[n] = halves(r)[n - 2 * l]
      BY <1>4, <3>1
    <3> QED BY <1>1, <1>3, <1>5, <2>1, <2>2, <3>1, <3>2
  <2>3. CASE k # l + 1
    <3>1. k \in 1..l /\ n <= 2 * l /\ n \in 1..(2 * l + 2)
      BY <1>1, <2>1, <2>3
    <3>2. b[n] = flat(rs)[n]
      BY <1>4, <3>1
    <3> QED BY <1>1, <1>5, <1>6, <2>1, <3>1, <3>2
  <2> QED BY <2>2, <2>3
<1>9. 2 * l + 2 = 2 * (l + 1)
  BY <1>1
<1>10. b = [n \in 1..(2 * (l + 1)) |-> b[n]]
  BY <1>4, <1>9
<1>11. a = b
  BY <1>7, <1>8, <1>10
<1> QED BY <1>11 DEF a, b, rr

-----------------------------------------------------------------------------
(* The calls of the library *)

\* What they do to the descriptors.
LibraryStep ==
  \/ UNCHANGED dvars
  \/ \E f \in Fds : opened(f, "utmpx", "open", {}, {}) /\ UNCHANGED <<acc, steps>> /\ utmpx_file' = f
  \/ utmpx_file \in Fds /\ closes

\* Every call is one of those steps on descriptors.
LEMMA LibrarySteps ==
  ASSUME CallTypeOK, UtmpxNext
  PROVE  LibraryStep
<1> USE FdFacts
<1>1. ASSUME NEW p, opens_file(p) PROVE LibraryStep
  BY <1>1 DEF opens_file, no_descriptor, LibraryStep
<1>2. utmpx_file >= 0 => utmpx_file \in Fds
  BY DEF CallTypeOK
<1>3. CASE endutxent
  BY <1>2, <1>3 DEF endutxent, no_descriptor, LibraryStep
<1>4. CASE setutxent
  BY <1>1, <1>4 DEF setutxent, no_descriptor, LibraryStep
<1>5. CASE getutxent \/ pututxline
  BY <1>1, <1>5 DEF getutxent, pututxline, opens_first, no_descriptor, LibraryStep
<1>6. CASE getutxent_read \/ pututxline_seek \/ pututxline_write
  BY <1>6 DEF getutxent_read, pututxline_seek, pututxline_write, no_descriptor, LibraryStep
<1>7. ASSUME NEW p \in Paths, utmpxname(p) \/ other_adds(p) PROVE LibraryStep
  <2>1. utmpx_file > 0 => utmpx_file \in Fds
    BY DEF CallTypeOK
  <2> QED BY <1>7, <2>1 DEF utmpxname, other_adds, no_descriptor, LibraryStep
<1>8. CASE utmpxname_open
  BY <1>8 DEF utmpxname_open, no_descriptor, LibraryStep
<1> QED BY <1>3, <1>4, <1>5, <1>6, <1>7, <1>8 DEF UtmpxNext

\* A file that the library opens is its own, and no other descriptor changes.
LEMMA LibraryOpens ==
  ASSUME DescTypeOK, NEW f \in Fds, opened(f, "utmpx", "open", {}, {})
  PROVE  /\ fd[f] = closed /\ opens' = opens + 1 /\ unset' = unset /\ nonblock' = nonblock
         /\ fd' \in [Fds -> Entries \cup {closed}]
         /\ fd'[f].desc = opens + 1 /\ fd'[f].owner = "utmpx"
         /\ \A g \in Fds \ {f} : fd'[g] = fd[g]
<1> DEFINE e == entry(opens + 1, "utmpx", "open", {}, {})
<1>1. "utmpx" \in {"app", "utmpx"} /\ "open" \in {"start", "open", "pipe", "accept"} /\ {} \in SUBSET Flags
  OBVIOUS
<1>2. /\ fd[f] = closed /\ opens' = opens + 1 /\ unset' = unset
      /\ fd'[f] = e /\ fd' \in [Fds -> Entries \cup {closed}]
      /\ nonblock' = nonblock \cup (IF "nonblock" \in {} THEN {opens + 1} ELSE {})
  BY <1>1, Opening
<1>3. e.desc = opens + 1 /\ e.owner = "utmpx"
  BY EntryFields
<1> HIDE DEF e
<1>4. \A g \in Fds \ {f} : fd'[g] = fd[g]
  BY OpeningKeeps
<1> QED BY <1>2, <1>3, <1>4

\* A close by the library takes one descriptor away.
LEMMA LibraryCloses ==
  ASSUME DescTypeOK, utmpx_file \in Fds, closes
  PROVE  /\ fd'[utmpx_file] = closed /\ fd' \in [Fds -> Entries \cup {closed}]
         /\ \A g \in Fds \ {utmpx_file} : fd'[g] = fd[g]
         /\ UNCHANGED <<nonblock, opens, acc, unset>>
BY DEF closes, DescTypeOK

\* The library keeps the types and the numbers of open files.
LEMMA LibraryKeeps ==
  ASSUME DescTypeOK, NumbersOK, LibraryStep
  PROVE  DescTypeOK' /\ NumbersOK'
<1> USE FdFacts
<1>1. CASE UNCHANGED dvars
  BY <1>1 DEF dvars, DescTypeOK, NumbersOK
<1>2. ASSUME NEW f \in Fds, opened(f, "utmpx", "open", {}, {}), UNCHANGED acc PROVE DescTypeOK' /\ NumbersOK'
  <2>1. /\ opens' = opens + 1 /\ unset' = unset /\ nonblock' = nonblock
        /\ fd' \in [Fds -> Entries \cup {closed}] /\ fd'[f].desc = opens + 1
        /\ \A g \in Fds \ {f} : fd'[g] = fd[g]
    BY <1>2, LibraryOpens
  <2>2. DescTypeOK'
    BY <1>2, <2>1 DEF DescTypeOK
  <2>3. NumbersOK'
    BY <1>2, <2>1 DEF NumbersOK, DescTypeOK, Entries
  <2> QED BY <2>2, <2>3
<1>3. CASE utmpx_file \in Fds /\ closes
  BY <1>3, LibraryCloses DEF DescTypeOK, NumbersOK
<1> QED BY <1>1, <1>2, <1>3 DEF LibraryStep

\* No call of the library touches a descriptor of the program while it has its number.
LEMMA FlagsLibrary ==
  ASSUME UtmpxTypeOK, NumbersOK, OwnerOK, AcceptOK, \A f \in Fds : FlagOK(f),
         UtmpxNext, ended = "never", ended' = "never"
  PROVE  AcceptOK' /\ \A g \in Fds : FlagOK(g)'
<1> USE FdFacts DEF UtmpxTypeOK
<1>1. CASE UNCHANGED dvars
  <2>1. UNCHANGED <<fd, nonblock, opens, acc, unset>>
    BY <1>1 DEF dvars
  <2> QED BY <2>1 DEF AcceptOK, FlagOK, HasExactly, left
<1>2. ASSUME NEW f \in Fds, opened(f, "utmpx", "open", {}, {}), UNCHANGED acc
      PROVE  AcceptOK' /\ \A g \in Fds : FlagOK(g)'
  <2>1. "utmpx" \in {"app", "utmpx"} /\ {} \in SUBSET Flags
    OBVIOUS
  <2> QED BY <1>2, <2>1, FlagsOpen
<1>3. CASE utmpx_file \in Fds /\ closes /\ upc # "name"
  <2>1. fd[utmpx_file].owner = "utmpx"
    BY <1>3 DEF OwnerOK
  <2>2. acc.todo # {} => utmpx_file # acc.fd
    BY <2>1 DEF AcceptOK
  <2>3. /\ fd'[utmpx_file] = closed /\ UNCHANGED <<nonblock, acc, unset>>
        /\ \A g \in Fds \ {utmpx_file} : fd'[g] = fd[g]
    BY <1>3, LibraryCloses
  <2> QED BY <1>3, <2>2, <2>3, FlagsClose
<1>4. upc = "name" => UNCHANGED dvars \/ \E f \in Fds : opened(f, "utmpx", "open", {}, {}) /\ UNCHANGED acc
  <2> SUFFICES ASSUME upc = "name" PROVE UNCHANGED dvars \/ \E f \in Fds : opened(f, "utmpx", "open", {}, {}) /\ UNCHANGED acc
    OBVIOUS
  <2>1. CASE utmpxname_open
    BY <2>1 DEF utmpxname_open, no_descriptor
  <2>2. CASE \E p \in Paths : other_adds(p)
    BY <2>2 DEF other_adds, no_descriptor
  <2> QED BY <2>1, <2>2 DEF UtmpxNext, endutxent, setutxent, getutxent, pututxline, opens_first, call,
                            getutxent_read, pututxline_seek, pututxline_write, utmpxname
<1>5. LibraryStep
  BY LibrarySteps
<1> QED BY <1>1, <1>2, <1>3, <1>4, <1>5 DEF LibraryStep

\* opens_file is made of its two outcomes.
LEMMA FileOpens ==
  ASSUME UtmpxTypeOK, NEW p, opens_file(p)
  PROVE  \/ /\ utmpx_file' \in Fds /\ path' = p /\ pos' = 0
            /\ fd'[utmpx_file'].owner = "utmpx"
            /\ \A g \in Fds \ {utmpx_file'} : fd'[g] = fd[g]
         \/ utmpx_file' = -1 /\ UNCHANGED <<fd, path, pos>>
<1>1. ASSUME NEW f \in Fds, opened(f, "utmpx", "open", {}, {}), utmpx_file' = f, path' = p, pos' = 0
      PROVE  /\ utmpx_file' \in Fds /\ path' = p /\ pos' = 0
             /\ fd'[utmpx_file'].owner = "utmpx"
             /\ \A g \in Fds \ {utmpx_file'} : fd'[g] = fd[g]
  BY <1>1, LibraryOpens DEF UtmpxTypeOK
<1> QED BY <1>1 DEF opens_file, no_descriptor, dvars

\* The library's own variables keep their types.
LEMMA CallTypes ==
  ASSUME UtmpxTypeOK, OwnerOK, UtmpxNext
  PROVE  CallTypeOK'
<1> USE FdFacts, UtmpxAssumption
<1>1. CallTypeOK
  BY DEF UtmpxTypeOK
<1>2. ASSUME NEW p \in Paths, opens_file(p)
      PROVE  utmpx_file' \in Fds \cup {-1} /\ path' \in Paths /\ pos' \in Nat
  BY <1>1, <1>2, FileOpens DEF CallTypeOK
<1>3. ASSUME NEW next \in {"idle", "read", "seek", "name"}, call(next)
      PROVE  upc' \in {"idle", "read", "seek", "write", "name"} /\ calls' \in Nat
  BY <1>1, <1>3 DEF call, CallTypeOK
<1>4. CASE endutxent
  BY <1>1, <1>3, <1>4 DEF endutxent, no_record, CallTypeOK
<1>5. CASE setutxent
  <2>1. utmpx_file' \in Fds \cup {-1} /\ path' \in Paths /\ pos' \in Nat
    BY <1>1, <1>2, <1>5 DEF setutxent, seeks, CallTypeOK
  <2>2. upc' \in {"idle", "read", "seek", "write", "name"} /\ calls' \in Nat
    BY <1>3, <1>5 DEF setutxent
  <2> QED BY <1>1, <1>5, <2>1, <2>2 DEF setutxent, no_record, CallTypeOK
<1>6. ASSUME NEW next \in {"read", "seek"}, opens_first(next), no_record, UNCHANGED ended
      PROVE  CallTypeOK'
  <2>1. utmpx_file' \in Fds \cup {-1} /\ path' \in Paths /\ pos' \in Nat
    BY <1>1, <1>2, <1>6 DEF opens_first, CallTypeOK
  <2>2. upc' \in {"idle", "read", "seek", "write", "name"} /\ calls' \in Nat
    BY <1>1, <1>6 DEF opens_first, call, CallTypeOK
  <2> QED BY <1>1, <1>6, <2>1, <2>2 DEF no_record, CallTypeOK
<1>7. CASE getutxent_read
  <2>1. pos' \in Nat
    <3> DEFINE c == content[path]
               m == Min({pos + 2, Len(c)})
               got == SubSeq(c, pos + 1, m)
    <3>1. c \in Seq(Halves) /\ pos \in Nat
      BY <1>1 DEF CallTypeOK
    <3>2. Len(c) \in Int /\ pos + 2 \in Int /\ pos + 1 \in Nat /\ pos + 1 >= 1
      BY <3>1
    <3>3. m \in Int /\ m <= Len(c)
      <4>1. m = IF pos + 2 <= Len(c) THEN pos + 2 ELSE Len(c)
        <5> HIDE DEF c
        <5> QED BY <3>2, MaxMinOfTwo, Zenon
      <4> QED BY <3>2, <4>1
    <3> HIDE DEF c, m
    <3>4. got \in Seq(Halves)
      BY <3>1, <3>2, <3>3
    <3> USE DEF c, m
    <3>5. Len(got) \in Nat
      BY <3>4
    <3>6. pos' = pos + Len(got) \/ pos' = pos
      BY <1>7 DEF getutxent_read
    <3> HIDE DEF got
    <3> QED BY <3>1, <3>5, <3>6
  <2> QED BY <1>1, <1>7, <2>1 DEF getutxent_read, CallTypeOK
<1>8. CASE pututxline_seek
  <2>1. pos' \in Nat
    BY <1>1, <1>8 DEF pututxline_seek, seeks, CallTypeOK
  <2> QED BY <1>1, <1>8, <2>1 DEF pututxline_seek, no_record, CallTypeOK
<1>9. CASE pututxline_write
  <2> DEFINE r == <<"own", calls>>
  <2>1. r \in Records /\ <<r, 1>> \in Halves /\ <<r, 2>> \in Halves
    BY <1>1 DEF CallTypeOK, Records, Halves
  <2>2. halves(r) \in Seq(Halves) /\ <<<<r, 1>>>> \in Seq(Halves)
    BY <2>1 DEF halves
  <2>3. content[path] \in Seq(Halves) /\ added[path] \in Seq(Records) /\ path \in Paths /\ pos \in Nat
    BY <1>1 DEF CallTypeOK
  <2>4. ~foreign => pos <= Len(content[path])
    BY <1>9 DEF OwnerOK, pututxline_write
  <2>5. ~foreign => overwrite(content[path], halves(r)) \in Seq(Halves) /\ overwrite(content[path], <<<<r, 1>>>>) \in Seq(Halves)
    BY <2>2, <2>3, <2>4, OverwriteType
  <2>6. Append(added[path], r) \in Seq(Records)
    BY <2>1, <2>3
  <2>7. \/ /\ ~foreign /\ content' = [content EXCEPT ![path] = overwrite(content[path], halves(r))]
           /\ added' = [added EXCEPT ![path] = Append(added[path], r)] /\ pos' = pos + 2 /\ disturbed' = disturbed
        \/ /\ ~foreign /\ content' = [content EXCEPT ![path] = overwrite(content[path], <<<<r, 1>>>>)]
           /\ added' = added /\ pos' = pos + 1 /\ disturbed' = TRUE
        \/ UNCHANGED <<content, added, pos, disturbed>>
    BY <1>9 DEF pututxline_write
  <2> HIDE DEF r
  <2>8. content' \in [Paths -> Seq(Halves)] /\ added' \in [Paths -> Seq(Records)]
    BY <1>1, <2>3, <2>5, <2>6, <2>7 DEF CallTypeOK
  <2>9. pos' \in Nat
    BY <2>3, <2>7
  <2>10. disturbed' \in BOOLEAN
    BY <1>1, <2>7, Zenon DEF CallTypeOK
  <2> QED BY <1>1, <1>9, <2>8, <2>9, <2>10 DEF pututxline_write, CallTypeOK
<1>10. ASSUME NEW p \in Paths, utmpxname(p) PROVE CallTypeOK'
  <2>1. upc' \in {"idle", "read", "seek", "write", "name"} /\ calls' \in Nat
    BY <1>3, <1>10 DEF utmpxname
  <2> QED BY <1>1, <1>10, <2>1 DEF utmpxname, no_record, CallTypeOK
<1>11. ASSUME NEW p \in Paths, other_adds(p) PROVE CallTypeOK'
  <2> DEFINE r == <<"other", Len(added[p])>>
  <2>1. content[p] \in Seq(Halves) /\ added[p] \in Seq(Records)
    BY <1>1 DEF CallTypeOK
  <2>2. r \in Records /\ <<r, 1>> \in Halves /\ <<r, 2>> \in Halves
    BY <2>1 DEF Records, Halves
  <2>3. content[p] \o halves(r) \in Seq(Halves) /\ Append(added[p], r) \in Seq(Records)
    <3>1. halves(r) \in Seq(Halves)
      BY <2>2 DEF halves
    <3> QED BY <2>1, <2>2, <3>1
  <2>4. /\ content' = [content EXCEPT ![p] = content[p] \o halves(r)]
        /\ added' = [added EXCEPT ![p] = Append(added[p], r)]
    BY <1>11 DEF other_adds
  <2> HIDE DEF r
  <2>5. content' \in [Paths -> Seq(Halves)] /\ added' \in [Paths -> Seq(Records)]
    BY <1>1, <2>3, <2>4 DEF CallTypeOK
  <2>6. disturbed' \in BOOLEAN
    BY <1>11 DEF other_adds
  <2> QED BY <1>1, <1>11, <2>5, <2>6 DEF other_adds, CallTypeOK
<1>12. CASE utmpxname_open
  <2>1. pos' \in Nat
    BY <1>1, <1>12 DEF utmpxname_open, CallTypeOK
  <2>2. utmpx_file' \in Fds \cup {-1}
    BY <1>12 DEF utmpxname_open
  <2>3. ended' \in {"never", "now", "before"}
    BY <1>1, <1>12 DEF utmpxname_open, CallTypeOK
  <2> QED BY <1>1, <1>12, <2>1, <2>2, <2>3 DEF utmpxname_open, no_record, CallTypeOK
<1> QED BY <1>4, <1>5, <1>6, <1>7, <1>8, <1>9, <1>10, <1>11, <1>12 DEF UtmpxNext, getutxent, pututxline

\* What a read returns ends where the file does.
LEMMA ReadWithin ==
  ASSUME NEW c \in Seq(Halves), pos \in Nat, pos <= Len(c)
  PROVE  pos + Len(SubSeq(c, pos + 1, Min({pos + 2, Len(c)}))) <= Len(c)
<1> DEFINE m == Min({pos + 2, Len(c)})
<1>1. Len(c) \in Nat /\ Len(c) \in Int /\ pos + 2 \in Int
  <2>1. Len(c) \in Nat
    OBVIOUS
  <2>2. pos + 2 \in Int
    OBVIOUS
  <2> QED BY <2>1, <2>2
<1>2. m = IF pos + 2 <= Len(c) THEN pos + 2 ELSE Len(c)
  BY <1>1, MaxMinOfTwo, Zenon
<1>3. m \in Nat /\ m <= Len(c) /\ pos <= m
  BY <1>1, <1>2
<1> HIDE DEF m
<1>4. Len(SubSeq(c, pos + 1, m)) = m - pos
  BY <1>1, <1>3
<1> QED BY <1>1, <1>3, <1>4 DEF m

\* A write makes the file reach at least its own end.
LEMMA WriteWithin ==
  ASSUME NEW c \in Seq(Halves), NEW units \in Seq(Halves), pos \in Nat
  PROVE  pos + Len(units) <= Len(overwrite(c, units)) /\ Len(c) <= Len(overwrite(c, units))
<1> DEFINE m == Max({Len(c), pos + Len(units)})
<1>1. Len(c) \in Nat /\ Len(units) \in Nat
  OBVIOUS
<1>2. m = IF Len(c) >= pos + Len(units) THEN Len(c) ELSE pos + Len(units)
  BY <1>1, MaxMinOfTwo
<1>3. m \in Nat /\ Len(c) <= m /\ pos + Len(units) <= m
  BY <1>1, <1>2
<1> HIDE DEF m
<1>4. Len(overwrite(c, units)) = m
  BY <1>3 DEF overwrite, m
<1> QED BY <1>3, <1>4

\* Whose descriptors the library uses, step by step.
LEMMA OwnerKeeps ==
  ASSUME UtmpxTypeOK, OwnerOK, UtmpxNext
  PROVE  OwnerOK'
<1> DEFINE Own == ended # "now" /\ upc # "name" /\ utmpx_file # -1 => fd[utmpx_file].owner = "utmpx"
           One == \A f \in Fds : fd[f].owner = "utmpx" => f = 0 \/ (f = utmpx_file /\ upc # "name")
           Has == upc \in {"read", "seek", "write"} => utmpx_file # -1
           Pos == upc # "name" /\ utmpx_file # -1 /\ ~foreign => pos <= Len(content[path])
<1> USE FdFacts
<1>1. CallTypeOK /\ DescTypeOK
  BY DEF UtmpxTypeOK
<1>2. Own /\ One /\ Has /\ Pos
  BY DEF OwnerOK
<1>3. SUFFICES Own' /\ One' /\ Has' /\ Pos'
  BY DEF OwnerOK
<1>4. ASSUME NEW p, utmpx_file = -1, upc # "name", upc' # "name", opens_file(p), ended' = ended
      PROVE  Own' /\ One'
  <2>1. \A f \in Fds : fd[f].owner = "utmpx" => f = 0
    BY <1>2, <1>4
  <2>2. CASE /\ utmpx_file' \in Fds /\ fd'[utmpx_file'].owner = "utmpx"
             /\ \A g \in Fds \ {utmpx_file'} : fd'[g] = fd[g]
    BY <1>4, <2>1, <2>2
  <2>3. CASE utmpx_file' = -1 /\ fd' = fd
    BY <1>4, <2>1, <2>3
  <2> QED BY <1>4, <2>2, <2>3, FileOpens
<1>5. ASSUME UNCHANGED dvars, utmpx_file' = utmpx_file, ended' = ended, upc # "name", upc' # "name"
      PROVE  Own' /\ One'
  BY <1>2, <1>5 DEF dvars
<1>6. utmpx_file < 0 <=> utmpx_file = -1
  BY <1>1 DEF CallTypeOK
<1> DEFINE Within == \A p \in Paths : content[p] \in Seq(Halves) /\ Len(content[p]) \in Nat
<1>a. Within /\ path \in Paths /\ pos \in Nat
  BY <1>1 DEF CallTypeOK
<1>b. ASSUME NEW p \in Paths, opens_file(p), content' = content PROVE Pos'
  BY <1>a, <1>b, FileOpens
<1>c. ASSUME UNCHANGED <<utmpx_file, fd, path, pos, content>>, upc # "name" PROVE Pos'
  <2>1. foreign' <=> foreign
    BY <1>c DEF foreign
  <2> QED BY <1>2, <1>c, <2>1
<1> HIDE DEF Within
<1>7. CASE endutxent
  <2>1. upc = "idle" /\ upc' = "idle" /\ utmpx_file' = utmpx_file
    BY <1>7 DEF endutxent, call
  <2>2. CASE utmpx_file >= 0
    <3>1. utmpx_file \in Fds /\ closes /\ ended' = "now"
      BY <1>1, <1>7, <2>2 DEF endutxent, CallTypeOK
    <3>2. fd'[utmpx_file] = closed /\ \A g \in Fds \ {utmpx_file} : fd'[g] = fd[g]
      BY <1>1, <3>1, LibraryCloses
    <3>3. Pos'
      BY <2>1, <3>1, <3>2 DEF foreign
    <3> QED BY <1>2, <2>1, <3>1, <3>2, <3>3
  <2>3. CASE ~ (utmpx_file >= 0)
    <3>1. Own' /\ One' /\ Has'
      BY <1>2, <1>5, <1>7, <2>1, <2>3 DEF endutxent, no_descriptor
    <3>2. utmpx_file' = -1
      BY <1>1, <2>1, <2>3 DEF CallTypeOK
    <3> QED BY <3>1, <3>2
  <2> QED BY <2>2, <2>3
<1>8. CASE setutxent
  <2>1. upc = "idle" /\ upc' = "idle" /\ ended' = ended
    BY <1>8 DEF setutxent, call
  <2>2. Own' /\ One' /\ Has'
    BY <1>4, <1>5, <1>6, <1>8, <2>1 DEF setutxent, no_descriptor
  <2>3. content' = content
    BY <1>8 DEF setutxent, no_record
  <2>4. CASE utmpx_file < 0
    BY <1>8, <1>b, <2>2, <2>3, <2>4, UtmpxAssumption DEF setutxent
  <2>5. CASE ~ (utmpx_file < 0)
    <3>1. seeks(0) /\ UNCHANGED <<utmpx_file, fd, path>>
      BY <1>8, <2>5 DEF setutxent, no_descriptor, dvars
    <3>2. foreign' <=> foreign
      BY <3>1 DEF foreign
    <3>3. ~ foreign => pos' = pos \/ pos' = 0
      BY <3>1 DEF seeks
    <3>4. Pos'
      BY <1>2, <1>a, <2>1, <2>3, <3>1, <3>2, <3>3 DEF Within
    <3> QED BY <2>2, <3>4
  <2> QED BY <2>4, <2>5
<1>9. ASSUME NEW next \in {"read", "seek"}, opens_first(next), UNCHANGED ended, no_record
      PROVE  Own' /\ One' /\ Has' /\ Pos'
  <2>1. upc = "idle" /\ upc' \in {"idle", next}
    BY <1>9 DEF opens_first, call
  <2>2. Own' /\ One'
    BY <1>4, <1>5, <1>6, <1>9, <2>1 DEF opens_first, no_descriptor
  <2>3. Has'
    BY <1>1, <1>6, <1>9 DEF opens_first, call, CallTypeOK
  <2>4. content' = content
    BY <1>9 DEF no_record
  <2>5. CASE utmpx_file < 0
    BY <1>9, <1>b, <2>2, <2>3, <2>4, <2>5, UtmpxAssumption DEF opens_first
  <2>6. CASE ~ (utmpx_file < 0)
    <3>1. UNCHANGED <<utmpx_file, fd, path, pos>>
      BY <1>9, <2>6 DEF opens_first, no_descriptor, dvars
    <3> QED BY <1>c, <2>1, <2>2, <2>3, <2>4, <3>1
  <2> QED BY <2>5, <2>6
<1>10. CASE getutxent_read
  <2>1. upc = "read" /\ upc' = "idle" /\ UNCHANGED <<utmpx_file, fd, path, content, ended>>
    BY <1>10 DEF getutxent_read, no_descriptor, dvars
  <2>2. Own' /\ One' /\ Has'
    BY <1>2, <1>5, <1>10, <2>1 DEF getutxent_read, no_descriptor
  <2>3. foreign' <=> foreign
    BY <2>1 DEF foreign
  <2>4. CASE UNCHANGED pos
    BY <1>c, <2>1, <2>2, <2>4
  <2>5. CASE ~ foreign /\ pos' = pos + Len(SubSeq(content[path], pos + 1, Min({pos + 2, Len(content[path])})))
    <3>1. content[path] \in Seq(Halves)
      BY <1>a DEF Within
    <3>2. pos <= Len(content[path])
      BY <1>2, <2>1, <2>5
    <3>3. pos' <= Len(content[path])
      BY <1>a, <2>5, <3>1, <3>2, ReadWithin
    <3> QED BY <2>1, <2>2, <3>3
  <2> QED BY <1>10, <2>4, <2>5 DEF getutxent_read
<1>11. CASE pututxline_seek
  <2>1. /\ upc = "seek" /\ upc' = "write" /\ UNCHANGED <<utmpx_file, fd, ended, path, content>>
        /\ ~ foreign => pos' = pos \/ pos' = Len(content[path])
    BY <1>11 DEF pututxline_seek, seeks, no_descriptor, dvars
  <2>2. foreign' <=> foreign
    BY <2>1 DEF foreign
  <2>3. content[path] \in Seq(Halves)
    BY <1>1 DEF CallTypeOK
  <2> QED BY <1>2, <2>1, <2>2, <2>3
<1>12. CASE pututxline_write
  <2> DEFINE r == <<"own", calls>>
  <2>1. upc = "write" /\ upc' = "idle" /\ UNCHANGED <<utmpx_file, fd, path, ended>>
    BY <1>12 DEF pututxline_write, no_descriptor, dvars
  <2>2. Own' /\ One' /\ Has'
    BY <1>2, <1>5, <1>12, <2>1 DEF pututxline_write, no_descriptor
  <2>3. content[path] \in Seq(Halves) /\ content \in [Paths -> Seq(Halves)]
    BY <1>1 DEF CallTypeOK
  <2>4. r \in Records /\ <<r, 1>> \in Halves /\ <<r, 2>> \in Halves
    BY <1>1 DEF CallTypeOK, Records, Halves
  <2>5. CASE UNCHANGED <<content, pos>>
    BY <1>c, <2>1, <2>2, <2>5
  <2> HIDE DEF r
  <2>6. CASE content' = [content EXCEPT ![path] = overwrite(content[path], halves(r))] /\ pos' = pos + 2
    <3>1. halves(r) \in Seq(Halves) /\ Len(halves(r)) = 2
      BY <2>4 DEF halves
    <3>2. pos + 2 <= Len(overwrite(content[path], halves(r)))
      BY <1>a, <2>3, <3>1, WriteWithin
    <3> QED BY <1>a, <2>1, <2>2, <2>3, <2>6, <3>2
  <2>7. CASE content' = [content EXCEPT ![path] = overwrite(content[path], <<<<r, 1>>>>)] /\ pos' = pos + 1
    <3>1. <<<<r, 1>>>> \in Seq(Halves) /\ Len(<<<<r, 1>>>>) = 1
      BY <2>4
    <3>2. pos + 1 <= Len(overwrite(content[path], <<<<r, 1>>>>))
      BY <1>a, <2>3, <3>1, WriteWithin
    <3> QED BY <1>a, <2>1, <2>2, <2>3, <2>7, <3>2
  <2> QED BY <1>12, <2>5, <2>6, <2>7 DEF pututxline_write, r
<1>13. ASSUME NEW p \in Paths, utmpxname(p) PROVE Own' /\ One' /\ Has' /\ Pos'
  <2>1. upc = "idle" /\ upc' = "name" /\ utmpx_file' = utmpx_file
    BY <1>13 DEF utmpxname, call
  <2>2. CASE utmpx_file > 0
    <3>1. utmpx_file \in Fds /\ closes
      BY <1>1, <1>13, <2>2 DEF utmpxname, CallTypeOK
    <3>2. fd'[utmpx_file] = closed /\ \A g \in Fds \ {utmpx_file} : fd'[g] = fd[g]
      BY <1>1, <3>1, LibraryCloses
    <3> QED BY <1>2, <2>1, <3>1, <3>2
  <2>3. CASE ~ (utmpx_file > 0)
    <3>1. fd' = fd
      BY <1>13, <2>3 DEF utmpxname, no_descriptor, dvars
    <3>2. \A f \in Fds : f = utmpx_file => f = 0
      BY <1>1, <2>3 DEF CallTypeOK
    <3> QED BY <1>2, <2>1, <3>1, <3>2
  <2> QED BY <2>2, <2>3
<1>14. ASSUME NEW p \in Paths, other_adds(p) PROVE Own' /\ One' /\ Has' /\ Pos'
  <2>1. UNCHANGED <<utmpx_file, fd, ended, path, upc, pos>>
    BY <1>14 DEF other_adds, no_descriptor, dvars
  <2>2. foreign' <=> foreign
    BY <2>1 DEF foreign
  <2>3. Len(content[path]) <= Len(content'[path])
    <3> DEFINE r == <<"other", Len(added[p])>>
               h == halves(r)
    <3>1. content[p] \in Seq(Halves) /\ content \in [Paths -> Seq(Halves)] /\ path \in Paths /\ added[p] \in Seq(Records)
      BY <1>1 DEF CallTypeOK
    <3>2. h \in Seq(Halves)
      <4>1. r \in Records
        BY <3>1 DEF Records
      <4>2. <<r, 1>> \in Halves /\ <<r, 2>> \in Halves
        BY <4>1 DEF Halves
      <4> QED BY <4>2 DEF halves
    <3>3. content' = [content EXCEPT ![p] = content[p] \o h]
      BY <1>14 DEF other_adds
    <3> HIDE DEF h
    <3>4. Len(content[p] \o h) = Len(content[p]) + Len(h)
      BY <3>1, <3>2, ConcatFacts
    <3>5. content[path] \in Seq(Halves) /\ Len(h) \in Nat
      BY <3>1, <3>2
    <3> QED BY <3>1, <3>3, <3>4, <3>5
  <2>4. content[path] \in Seq(Halves) /\ content'[path] \in Seq(Halves) /\ pos \in Nat
    BY <1>1, CallTypes, <2>1 DEF CallTypeOK
  <2>5. Pos'
    BY <1>2, <2>1, <2>2, <2>3, <2>4
  <2> QED BY <1>2, <2>1, <2>5
<1>15. CASE utmpxname_open
  <2>1. upc = "name" /\ upc' = "idle" /\ \A f \in Fds : fd[f].owner = "utmpx" => f = 0
    BY <1>2, <1>15 DEF utmpxname_open
  <2>2. ASSUME NEW f \in Fds, opened(f, "utmpx", "open", {}, {}), utmpx_file' = f
        PROVE  Own' /\ One' /\ Has'
    <3>1. fd'[f].owner = "utmpx" /\ \A g \in Fds \ {f} : fd'[g] = fd[g]
      BY <1>1, <2>2, LibraryOpens
    <3> QED BY <2>1, <2>2, <3>1
  <2>3. CASE utmpx_file' = -1 /\ UNCHANGED fd
    BY <2>1, <2>3
  <2>4. Pos'
    <3>1. utmpx_file' # -1 => pos' = 0 \/ pos' = Len(content[path])
      BY <1>15 DEF utmpxname_open
    <3>2. path' = path /\ content' = content
      BY <1>15 DEF utmpxname_open, no_record
    <3> QED BY <1>a, <3>1, <3>2 DEF Within
  <2> QED BY <1>15, <2>2, <2>3, <2>4 DEF utmpxname_open, no_descriptor, dvars
<1> QED BY <1>7, <1>8, <1>9, <1>10, <1>11, <1>12, <1>13, <1>14, <1>15 DEF UtmpxNext, getutxent, pututxline

\* A record that is written at the end of the file comes after the others.
LEMMA WriteAtEnd ==
  ASSUME NEW c \in Seq(Halves), NEW r \in Records, pos = Len(c)
  PROVE  overwrite(c, halves(r)) = c \o halves(r)
<1> DEFINE h == halves(r)
           l == Len(c)
<1>1. h \in Seq(Halves)
  <2>1. <<r, 1>> \in Halves /\ <<r, 2>> \in Halves
    BY DEF Halves
  <2> QED BY <2>1 DEF halves
<1>2. Len(h) = 2 /\ l \in Nat
  BY DEF halves
<1>3. overwrite(c, h) = [n \in 1..Max({l, l + Len(h)}) |->
                           IF n \in (l + 1)..(l + Len(h)) THEN h[n - l] ELSE c[n]]
  BY DEF overwrite
<1> HIDE DEF h, l
<1>4. l + Len(h) = l + 2 /\ l \in Int /\ l + 2 \in Int
  BY <1>2
<1>5. Max({l, l + 2}) = l + 2
  <2>1. Max({l, l + 2}) = IF l >= l + 2 THEN l ELSE l + 2
    BY <1>4, MaxMinOfTwo, Zenon
  <2> QED BY <1>4, <2>1
<1>6. overwrite(c, h) = [n \in 1..(l + 2) |-> IF n \in (l + 1)..(l + 2) THEN h[n - l] ELSE c[n]]
  BY <1>3, <1>4, <1>5
<1> DEFINE w == c \o h
<1>7. w \in Seq(Halves) /\ Len(w) = l + 2
  <2>1. w \in Seq(Halves) /\ Len(w) = Len(c) + Len(h)
    BY <1>1, ConcatFacts
  <2> QED BY <1>2, <2>1 DEF l
<1>8. \A n \in 1..(l + 2) : w[n] = IF n \in (l + 1)..(l + 2) THEN h[n - l] ELSE c[n]
  <2>1. \A n \in 1..(Len(c) + Len(h)) : w[n] = IF n <= Len(c) THEN c[n] ELSE h[n - Len(c)]
    BY <1>1, ConcatFacts
  <2> HIDE DEF w
  <2> QED BY <1>2, <2>1 DEF l
<1> HIDE DEF w
<1>9. w = [n \in 1..(l + 2) |-> w[n]]
  BY <1>7
<1>10. w = overwrite(c, h)
  BY <1>6, <1>8, <1>9
<1> QED BY <1>10 DEF w, h

\* A read between two records takes a whole one, or nothing at the end.
LEMMA ReadWhole ==
  ASSUME NEW rs \in Seq(Records), NEW m \in Nat, m % 2 = 0,
         NEW got, got = SubSeq(flat(rs), m + 1, Min({m + 2, Len(flat(rs))}))
  PROVE  \/ Len(got) = 0
         \/ Len(got) = 2 /\ \E n \in DOMAIN rs : got = halves(rs[n])
<1> DEFINE c == flat(rs)
           l == Len(rs)
           k == m \div 2
<1>1. c \in Seq(Records \X {1, 2})
  BY FlatType
<1>2. Len(c) = 2 * l /\ l \in Nat
  BY FlatLength
<1>3. k \in Int /\ m = 2 * k
  OBVIOUS
<1>4. \A n \in 1..l : c[2 * n - 1] = <<rs[n], 1>> /\ c[2 * n] = <<rs[n], 2>>
  BY FlatAt
<1>5. Min({m + 2, Len(c)}) = IF m + 2 <= Len(c) THEN m + 2 ELSE Len(c)
  <2>1. Len(c) \in Int /\ m + 2 \in Int
    BY <1>1
  <2> HIDE DEF c
  <2> QED BY <2>1, MaxMinOfTwo, Zenon
<1>6. got = SubSeq(c, m + 1, Min({m + 2, Len(c)})) /\ DOMAIN rs = 1..l
  OBVIOUS
<1> HIDE DEF c, l, k
<1>7. CASE m + 2 <= Len(c)
  <2>1. got = SubSeq(c, m + 1, m + 2)
    BY <1>5, <1>6, <1>7
  <2>2. k + 1 \in 1..l /\ m + 1 = 2 * (k + 1) - 1 /\ m + 2 = 2 * (k + 1)
    BY <1>2, <1>3, <1>7
  <2>3. got = <<c[m + 1], c[m + 2]>>
    <3> DEFINE a == m + 1
    <3>1. a \in Nat /\ a >= 1 /\ a + 1 = m + 2
      OBVIOUS
    <3> HIDE DEF a
    <3>2. SubSeq(c, a, a + 1) = <<c[a], c[a + 1]>>
      BY <1>1, <1>7, <3>1, TakeTwo
    <3>3. got = <<c[a], c[a + 1]>>
      BY <2>1, <3>1, <3>2 DEF a
    <3> QED BY <3>1, <3>3 DEF a
  <2>4. c[m + 1] = <<rs[k + 1], 1>> /\ c[m + 2] = <<rs[k + 1], 2>>
    BY <1>4, <2>2
  <2>5. got = halves(rs[k + 1])
    BY <2>3, <2>4 DEF halves
  <2>6. Len(got) = 2
    <3>1. \A x, y : Len(<<x, y>>) = 2
      OBVIOUS
    <3> QED BY <2>3, <3>1, Zenon
  <2> QED BY <1>6, <2>2, <2>5, <2>6
<1>8. CASE ~ (m + 2 <= Len(c))
  <2>1. got = SubSeq(c, m + 1, Len(c))
    BY <1>5, <1>6, <1>8
  <2>2. Len(c) <= m
    BY <1>2, <1>3, <1>8
  <2>3. Len(got) = 0
    BY <1>1, <2>1, <2>2, TakeNone
  <2> QED BY <2>3
<1> QED BY <1>7, <1>8

\* While it is never ended nor disturbed, the library keeps its files in whole records.
LEMMA RecordsKeep ==
  ASSUME UtmpxTypeOK, OwnerOK, RecordsOK, UtmpxNext, ended = "never", ended' = "never", ~disturbed, ~disturbed'
  PROVE  RecordsOK'
<1> DEFINE Whole == \A p \in Paths : content[p] = flat(added[p])
           Seen  == returned = <<>> \/ \E p \in Paths : \E n \in DOMAIN added[p] : returned = halves(added[p][n])
           Even  == pos % 2 = 0
           End   == upc = "write" => pos = Len(content[path])
<1> USE FdFacts, UtmpxAssumption
<1>1. CallTypeOK
  BY DEF UtmpxTypeOK
<1>2. Whole /\ Seen /\ Even /\ End
  BY DEF RecordsOK
<1>3. SUFFICES Whole' /\ Seen' /\ Even' /\ End'
  BY DEF RecordsOK
<1>4. upc # "name" /\ upc \in {"read", "seek", "write"} => ~foreign
  BY DEF OwnerOK, foreign
<1>5. ASSUME no_record PROVE Whole' /\ Seen'
  BY <1>2, <1>5 DEF no_record
<1>6. ASSUME NEW p, opens_file(p) PROVE Even'
  <2>1. pos' = 0 \/ pos' = pos
    BY <1>6 DEF opens_file
  <2> QED BY <1>2, <2>1
<1>7. \A p \in Paths : Len(content[p]) \in Nat /\ Len(content[p]) % 2 = 0
  <2> TAKE p \in Paths
  <2>1. added[p] \in Seq(Records)
    BY <1>1 DEF CallTypeOK
  <2>2. Len(content[p]) = 2 * Len(added[p]) /\ Len(added[p]) \in Nat
    BY <1>2, <2>1, FlatLength
  <2>3. \A x \in Nat : 2 * x \in Nat /\ (2 * x) % 2 = 0
    OBVIOUS
  <2> QED BY <2>2, <2>3, Zenon
<1>8. ASSUME NEW p \in Paths, NEW r \in Records,
             content' = [content EXCEPT ![p] = content[p] \o halves(r)],
             added' = [added EXCEPT ![p] = Append(added[p], r)], returned' = returned
      PROVE  Whole' /\ Seen'
  <2>1. added[p] \in Seq(Records) /\ added \in [Paths -> Seq(Records)] /\ content \in [Paths -> Seq(Halves)]
    BY <1>1 DEF CallTypeOK
  <2>2. flat(Append(added[p], r)) = content[p] \o halves(r)
    BY <1>2, <2>1, FlatAppend
  <2>3. ASSUME NEW q \in Paths PROVE content'[q] = flat(added'[q])
    BY <1>2, <1>8, <2>1, <2>2
  <2>4. ASSUME NEW q \in Paths, NEW n \in DOMAIN added[q]
        PROVE  n \in DOMAIN added'[q] /\ added'[q][n] = added[q][n]
    <3>1. \A rs \in Seq(Records) : n \in DOMAIN rs => n \in DOMAIN Append(rs, r) /\ Append(rs, r)[n] = rs[n]
      OBVIOUS
    <3> QED BY <1>8, <2>1, <2>4, <3>1
  <2>5. Seen'
    BY <1>2, <1>8, <2>4
  <2>6. Whole'
    BY <2>3
  <2> QED BY <2>5, <2>6
<1>9. CASE endutxent
  BY <1>2, <1>5, <1>9 DEF endutxent, call
<1>10. CASE setutxent
  <2>1. pos' = 0 \/ pos' = pos
    BY <1>10 DEF setutxent, opens_file, seeks
  <2> QED BY <1>2, <1>5, <1>10, <2>1 DEF setutxent, call
<1>11. ASSUME NEW next \in {"read", "seek"}, opens_first(next), no_record
       PROVE  Whole' /\ Seen' /\ Even' /\ End'
  <2>1. Even'
    BY <1>2, <1>6, <1>11 DEF opens_first
  <2>2. upc' # "write"
    BY <1>11 DEF opens_first, call
  <2> QED BY <1>5, <1>11, <2>1, <2>2
<1>12. CASE getutxent_read
  <2> DEFINE got == SubSeq(content[path], pos + 1, Min({pos + 2, Len(content[path])}))
  <2>1. upc' # "write" /\ Whole'
    BY <1>2, <1>12 DEF getutxent_read
  <2>2. CASE returned' = <<>> /\ UNCHANGED pos
    BY <1>2, <2>1, <2>2
  <2>3. CASE pos' = pos + Len(got) /\ returned' = IF Len(got) = 2 THEN got ELSE <<>>
    <3>1. path \in Paths /\ added[path] \in Seq(Records) /\ pos \in Nat /\ added' = added
      BY <1>1, <1>12 DEF CallTypeOK, getutxent_read
    <3>2. \/ Len(got) = 0
          \/ Len(got) = 2 /\ \E n \in DOMAIN added[path] : got = halves(added[path][n])
      <4>1. content[path] = flat(added[path])
        BY <1>2, <3>1
      <4> DEFINE rs == added[path]
      <4>2. got = SubSeq(flat(rs), pos + 1, Min({pos + 2, Len(flat(rs))}))
        BY <4>1
      <4>3. pos % 2 = 0
        BY <1>2
      <4>4. rs \in Seq(Records) /\ pos \in Nat
        BY <3>1
      <4> HIDE DEF got, rs, Whole, Seen, Even, End
      <4>5. \/ Len(got) = 0
            \/ Len(got) = 2 /\ \E n \in DOMAIN rs : got = halves(rs[n])
        BY <4>2, <4>3, <4>4, ReadWhole
      <4> QED BY <4>5 DEF rs
    <3> HIDE DEF got
    <3>3. Even'
      <4>1. \A x \in Nat : x % 2 = 0 => (x + 0) % 2 = 0 /\ (x + 2) % 2 = 0
        OBVIOUS
      <4>2. pos' = pos + 0 \/ pos' = pos + 2
        BY <2>3, <3>2
      <4> QED BY <1>2, <3>1, <4>1, <4>2
    <3>4. Seen'
      BY <2>3, <3>1, <3>2
    <3> QED BY <2>1, <3>3, <3>4
  <2>4. ~foreign => utmpx_file \notin of_app
    BY <1>12, <1>4 DEF foreign, of_app, open_fds, getutxent_read
  <2> QED BY <1>4, <1>12, <2>2, <2>3, <2>4 DEF getutxent_read
<1>13. CASE pututxline_seek
  <2>1. upc = "seek" /\ pos' = Len(content[path]) /\ UNCHANGED <<path, content, added, returned>>
    BY <1>13 DEF pututxline_seek
  <2>2. path \in Paths
    BY <1>1 DEF CallTypeOK
  <2> QED BY <1>2, <1>7, <2>1, <2>2
<1>14. CASE pututxline_write
  <2> DEFINE r == <<"own", calls>>
  <2>1. upc' # "write" /\ path \in Paths /\ content[path] \in Seq(Halves) /\ r \in Records /\ pos \in Nat
    BY <1>1, <1>14 DEF pututxline_write, CallTypeOK, Records
  <2>2. CASE UNCHANGED <<content, added, pos, disturbed>>
    BY <1>2, <1>14, <2>1, <2>2 DEF pututxline_write
  <2>3. CASE /\ content' = [content EXCEPT ![path] = overwrite(content[path], halves(r))]
             /\ added' = [added EXCEPT ![path] = Append(added[path], r)]
             /\ pos' = pos + 2
    <3>1. overwrite(content[path], halves(r)) = content[path] \o halves(r)
      BY <1>2, <1>14, <2>1, WriteAtEnd DEF pututxline_write
    <3>2. returned' = returned
      BY <1>14 DEF pututxline_write
    <3> HIDE DEF r
    <3>3. Whole' /\ Seen'
      BY <1>8, <2>1, <2>3, <3>1, <3>2
    <3> QED BY <1>2, <2>1, <2>3, <3>3
  <2> QED BY <1>14, <2>2, <2>3 DEF pututxline_write
<1>15. ASSUME NEW p \in Paths, utmpxname(p) PROVE Whole' /\ Seen' /\ Even' /\ End'
  BY <1>2, <1>5, <1>15 DEF utmpxname, call
<1>16. ASSUME NEW p \in Paths, other_adds(p) PROVE Whole' /\ Seen' /\ Even' /\ End'
  <2> DEFINE r == <<"other", Len(added[p])>>
  <2>1. r \in Records
    BY <1>1 DEF CallTypeOK, Records
  <2>2. /\ content' = [content EXCEPT ![p] = content[p] \o halves(r)]
        /\ added' = [added EXCEPT ![p] = Append(added[p], r)]
        /\ UNCHANGED <<returned, pos, path, upc>> /\ ~ (upc = "write" /\ p = path)
    BY <1>16 DEF other_adds
  <2> HIDE DEF r
  <2>3. Whole' /\ Seen'
    BY <1>8, <2>1, <2>2
  <2>4. content \in [Paths -> Seq(Halves)] /\ path \in Paths
    BY <1>1 DEF CallTypeOK
  <2> QED BY <1>2, <2>2, <2>3, <2>4
<1>17. CASE utmpxname_open
  <2>1. path \in Paths /\ upc' = "idle"
    BY <1>1, <1>17 DEF utmpxname_open, CallTypeOK
  <2>2. pos' \in {pos, 0, Len(content[path])}
    BY <1>17 DEF utmpxname_open
  <2>3. Even'
    <3>1. pos % 2 = 0 /\ Len(content[path]) % 2 = 0
      BY <1>2, <1>7, <2>1, Zenon
    <3>2. 0 % 2 = 0
      OBVIOUS
    <3> QED BY <2>2, <3>1, <3>2, Zenon
  <2> QED BY <1>5, <1>17, <2>1, <2>3 DEF utmpxname_open
<1> QED BY <1>9, <1>10, <1>11, <1>12, <1>13, <1>14, <1>15, <1>16, <1>17 DEF UtmpxNext, getutxent, pututxline

-----------------------------------------------------------------------------
(* The specification *)

\* The invariant holds in the initial states.
LEMMA UtmpxStarts ==
  ASSUME Init
  PROVE  UtmpxInv
<1> USE FdFacts, UtmpxAssumption
<1> DEFINE e == entry(0, "app", "start", {}, {})
<1>1. e \in Entries /\ e.desc = 0 /\ e.owner = "app" /\ e.via = "start" /\ e.asked = {} /\ ~ e.cloexec
  <2>1. e.desc = 0 /\ e.owner = "app" /\ e.via = "start" /\ e.asked = {} /\ ~ e.cloexec
    BY EntryFields
  <2>2. e \in Entries
    BY DEF entry, Entries
  <2> QED BY <2>1, <2>2
<1>2. PICK open \in {{}, {0}} : fd = [f \in Fds |-> IF f \in open THEN e ELSE closed]
  BY DEF Init, DescriptorsInit
<1> HIDE DEF e
<1>3. \A f \in Fds : fd[f] = e \/ fd[f] = closed
  BY <1>2
<1>4. /\ nonblock = {} /\ opens = 0 /\ unset = {} /\ acc = [fd |-> 0, desc |-> 0, todo |-> {}]
      /\ utmpx_file = -1 /\ upc = "idle" /\ path = UTMPX_FILE /\ pos = 0 /\ calls = 0
      /\ content = [p \in Paths |-> <<>>] /\ added = [p \in Paths |-> <<>>]
      /\ returned = <<>> /\ ended = "never" /\ disturbed = FALSE
  BY DEF Init, DescriptorsInit
<1>5. DescTypeOK
  BY <1>1, <1>2, <1>4 DEF DescTypeOK
<1>6. CallTypeOK
  <2>1. content \in [Paths -> Seq(Halves)] /\ added \in [Paths -> Seq(Records)]
    BY <1>4
  <2> QED BY <1>4, <2>1 DEF CallTypeOK
<1>7. NumbersOK
  BY <1>1, <1>3, <1>4 DEF NumbersOK
<1>8. OwnerOK
  BY <1>1, <1>3, <1>4 DEF OwnerOK
<1>9. AcceptOK
  BY <1>4 DEF AcceptOK
<1>10. ASSUME NEW f \in Fds PROVE FlagOK(f)
  <2>1. fd[f] # closed => fd[f].via = "start" /\ fd[f].asked = {} /\ ~ fd[f].cloexec
    BY <1>1, <1>3
  <2> QED BY <1>4, <2>1 DEF FlagOK, HasExactly
<1>11. RecordsOK
  <2>1. ASSUME NEW p \in Paths PROVE content[p] = flat(added[p])
    <3>1. content[p] = <<>> /\ added[p] = <<>>
      BY <1>4
    <3>2. flat(<<>>) = <<>>
      BY DEF flat
    <3> QED BY <3>1, <3>2
  <2>2. 0 % 2 = 0
    OBVIOUS
  <2> QED BY <1>4, <2>1, <2>2 DEF RecordsOK
<1> QED BY <1>5, <1>6, <1>7, <1>8, <1>9, <1>10, <1>11 DEF UtmpxInv, UtmpxTypeOK

\* Every step keeps the invariant.
LEMMA UtmpxSteps ==
  ASSUME UtmpxInv, [Next]_vars
  PROVE  UtmpxInv'
<1> USE FdFacts
<1>1. /\ UtmpxTypeOK /\ DescTypeOK /\ CallTypeOK /\ NumbersOK /\ OwnerOK
      /\ ended = "never" => AcceptOK /\ \A f \in Fds : FlagOK(f)
      /\ ended = "never" /\ ~disturbed => RecordsOK
  BY DEF UtmpxInv, UtmpxTypeOK
<1>2. CASE UtmpxNext
  <2>1. DescTypeOK' /\ NumbersOK'
    BY <1>1, <1>2, LibrarySteps, LibraryKeeps
  <2>2. CallTypeOK' /\ OwnerOK'
    BY <1>1, <1>2, CallTypes, OwnerKeeps
  <2>3. ended' = "never" => ended = "never"
    BY <1>2 DEF UtmpxNext, endutxent, setutxent, getutxent, pututxline, getutxent_read, pututxline_seek,
                pututxline_write, utmpxname, other_adds, utmpxname_open
  <2>4. ~disturbed' => ~disturbed
    BY <1>2 DEF UtmpxNext, endutxent, setutxent, getutxent, pututxline, getutxent_read, pututxline_seek,
                pututxline_write, utmpxname, other_adds, utmpxname_open, no_record
  <2>5. ended' = "never" => AcceptOK' /\ \A f \in Fds : FlagOK(f)'
    BY <1>1, <1>2, <2>3, FlagsLibrary
  <2>6. ended' = "never" /\ ~disturbed' => RecordsOK'
    BY <1>1, <1>2, <2>3, <2>4, RecordsKeep
  <2> QED BY <2>1, <2>2, <2>5, <2>6 DEF UtmpxInv, UtmpxTypeOK
<1>3. CASE DescriptorsNext /\ UNCHANGED uvars
  <2>1. ProgramStep
    BY <1>1, <1>3, ProgramSteps
  <2>2. /\ DescTypeOK' /\ NumbersOK'
        /\ \A f \in Fds : fd'[f].owner = "utmpx" <=> fd[f].owner = "utmpx"
    BY <1>1, <2>1, ProgramKeeps
  <2>3. UNCHANGED <<utmpx_file, upc, path, pos, calls, content, added, returned, ended, disturbed>>
    BY <1>3 DEF uvars
  <2>4. CallTypeOK'
    BY <1>1, <2>3 DEF CallTypeOK
  <2>5. foreign' <=> foreign
    BY <2>2, <2>3 DEF foreign
  <2>6. OwnerOK'
    <3>1. utmpx_file \in Fds \cup {-1}
      BY <1>1 DEF CallTypeOK
    <3> QED BY <1>1, <2>2, <2>3, <2>5, <3>1 DEF OwnerOK
  <2>7. ended' = "never" => AcceptOK' /\ \A f \in Fds : FlagOK(f)'
    BY <1>1, <2>1, <2>3, FlagsProgram
  <2>8. ended' = "never" /\ ~disturbed' => RecordsOK'
    BY <1>1, <2>3 DEF RecordsOK
  <2> QED BY <2>2, <2>4, <2>6, <2>7, <2>8 DEF UtmpxInv, UtmpxTypeOK
<1>4. CASE UNCHANGED vars
  <2>1. /\ UNCHANGED <<utmpx_file, upc, path, pos, calls, content, added, returned, ended, disturbed>>
        /\ UNCHANGED <<fd, nonblock, opens, acc, steps, unset>>
    BY <1>4 DEF vars, uvars, dvars
  <2>2. UtmpxTypeOK' /\ NumbersOK'
    BY <1>1, <2>1 DEF UtmpxTypeOK, DescTypeOK, CallTypeOK, NumbersOK
  <2>3. OwnerOK'
    BY <1>1, <2>1 DEF OwnerOK, foreign
  <2>4. ended' = "never" => AcceptOK' /\ \A f \in Fds : FlagOK(f)'
    BY <1>1, <2>1 DEF AcceptOK, FlagOK, HasExactly, left
  <2>5. ended' = "never" /\ ~disturbed' => RecordsOK'
    BY <1>1, <2>1 DEF RecordsOK
  <2> QED BY <2>2, <2>3, <2>4, <2>5 DEF UtmpxInv
<1> QED BY <1>2, <1>3, <1>4 DEF Next

\* The inductive invariant holds in every behaviour.
LEMMA UtmpxInvariant == Spec => []UtmpxInv
<1>1. Init => UtmpxInv
  BY UtmpxStarts
<1>2. UtmpxInv /\ [Next]_vars => UtmpxInv'
  BY UtmpxSteps
<1> QED BY <1>1, <1>2, PTL DEF Spec

\* Every descriptor is closed or an entry, and every file is a sequence of halves of
\* records, whatever the wrappers and the calls of utmpx.c do.
THEOREM UtmpxTypeCorrect == Spec => []UtmpxTypeOK
<1>1. UtmpxInv => UtmpxTypeOK
  BY DEF UtmpxInv
<1> QED BY <1>1, UtmpxInvariant, PTL

\* Until endutxent is called, utmpx.c uses no descriptor but one that it opened.
THEOREM NumbersAreOwn == Spec => []NumberIsOwn
<1>1. UtmpxInv => NumberIsOwn
  BY FdFacts DEF UtmpxInv, OwnerOK, NumberIsOwn, foreign
<1> QED BY <1>1, UtmpxInvariant, PTL

\* utmpx.c has one file open; descriptor 0 is the only one that it can leave behind.
THEOREM OneStaysOpen == Spec => []KeepsOneOpen
<1>1. UtmpxInv => KeepsOneOpen
  BY DEF UtmpxInv, OwnerOK, KeepsOneOpen, open_fds
<1> QED BY <1>1, UtmpxInvariant, PTL

\* Unless a write was short, pututxline's lseek failed or another process came between
\* that lseek and the write, the files hold every record added, whole and in order, and
\* getutxent returns no other.
THEOREM RecordsStayWhole == Spec => []RecordsWhole
<1>1. UtmpxInv => RecordsWhole
  BY DEF UtmpxInv, RecordsOK, RecordsWhole
<1> QED BY <1>1, UtmpxInvariant, PTL

\* Each descriptor that the wrappers of generic.cpp return has the flags asked for, but
\* for pipe's, for accept's while it sets them, and for those it failed to set.
THEOREM FlagsComeAsAsked == Spec => []FlagsAsAsked
<1>1. ASSUME UtmpxInv, ended = "never", NEW f \in of_app
      PROVE  \/ has(f) = fd[f].asked
             \/ fd[f].via = "pipe" /\ has(f) \subseteq {"cloexec"}
             \/ fd[f].via = "accept" /\ has(f) \subseteq fd[f].asked
                /\ (fd[f].desc \in unset \/ (fd[f].desc = acc.desc /\ acc.todo # {}))
  <2>1. f \in Fds /\ fd[f] # closed /\ fd[f].owner = "app" /\ fd[f] \in Entries
    BY <1>1 DEF of_app, open_fds, UtmpxInv, UtmpxTypeOK, DescTypeOK
  <2>2. fd[f].via \in {"start", "open", "pipe", "accept"} /\ fd[f].asked \subseteq {"nonblock", "cloexec"}
    BY <2>1 DEF Entries, Flags
  <2>3. FlagOK(f)
    BY <1>1, <2>1 DEF UtmpxInv
  <2>4. /\ "cloexec" \in has(f) <=> fd[f].cloexec
        /\ "nonblock" \in has(f) <=> fd[f].desc \in nonblock
        /\ has(f) \subseteq {"nonblock", "cloexec"}
    BY DEF has
  <2>5. ASSUME HasExactly(f, fd[f].asked) PROVE has(f) = fd[f].asked
    BY <2>2, <2>4, <2>5 DEF HasExactly
  <2>6. CASE fd[f].via \in {"start", "open"}
    BY <2>1, <2>3, <2>5, <2>6 DEF FlagOK
  <2>7. CASE fd[f].via = "pipe"
    BY <2>1, <2>3, <2>4, <2>7 DEF FlagOK
  <2>8. CASE fd[f].via = "accept"
    <3>1. has(f) \subseteq fd[f].asked
      BY <2>1, <2>3, <2>4, <2>8 DEF FlagOK
    <3>2. CASE fd[f].desc \in unset \/ (fd[f].desc = acc.desc /\ acc.todo # {})
      BY <2>8, <3>1, <3>2
    <3>3. CASE ~ (fd[f].desc \in unset \/ (fd[f].desc = acc.desc /\ acc.todo # {}))
      <4>1. left(fd[f].desc) = {}
        BY <3>3 DEF left
      <4>2. HasExactly(f, fd[f].asked \ {})
        BY <2>1, <2>3, <2>8, <3>3, <4>1 DEF FlagOK
      <4>3. fd[f].asked \ {} = fd[f].asked
        OBVIOUS
      <4> QED BY <2>5, <4>2, <4>3
    <3> QED BY <3>2, <3>3
  <2> QED BY <2>2, <2>6, <2>7, <2>8
<1>2. UtmpxInv => FlagsAsAsked
  BY <1>1 DEF FlagsAsAsked
<1> QED BY <1>2, UtmpxInvariant, PTL

=============================================================================
