-------------------------------- MODULE Utmpx --------------------------------
(***************************************************************************)
(* The login records (mlibc-salernos/sysdeps/generic/utmpx.c), among the   *)
(* descriptors of the program that calls them (Descriptors).               *)
(*                                                                         *)
(* A record is written in two halves, so that a write can be short.  One   *)
(* thread makes the calls; other processes append records to the files.    *)
(***************************************************************************)
EXTENDS Descriptors, Integers, Sequences, FiniteSetsExt

CONSTANTS
  Paths,        \* the files of records
  UTMPX_FILE,   \* the one that is opened when none was named
  MaxCalls,     \* the calls of the program
  MaxOthers     \* the records that other processes add

ASSUME UtmpxAssumption == UTMPX_FILE \in Paths /\ MaxCalls \in Nat /\ MaxOthers \in Nat

VARIABLES
  utmpx_file,  \* the descriptor, -1 for none
  upc,         \* where the call is: "idle", "read", "seek", "write", "name" or "end"
  path, pos,   \* the open file's path and offset
  calls,
  content,     \* the halves of records in each file
  added,       \* the records added to each file
  returned,    \* what getutxent returned last: two halves, or <<>> for NULL
  ended,       \* endutxent: "never" called, called ("now"), or only before utmpxname
  disturbed    \* a short write, a failed lseek, or a record of another process before our write

uvars == <<utmpx_file, upc, path, pos, calls, content, added, returned, ended, disturbed>>
vars == <<dvars, uvars>>

\* The utmpx file is used through utmpx_file's number, whatever has that number.
foreign == utmpx_file \in Fds /\ fd[utmpx_file].owner # "utmpx"

others(p) == {n \in DOMAIN added[p] : added[p][n][1] = "other"}
halves(r) == <<<<r, 1>>, <<r, 2>>>>

\* The halves of all records of a sequence, in order.
flat(rs) == [n \in 1..(2 * Len(rs)) |-> halves(rs[(n + 1) \div 2])[IF n % 2 = 1 THEN 1 ELSE 2]]

Init ==
  /\ DescriptorsInit
  /\ utmpx_file = -1 /\ upc = "idle" /\ path = UTMPX_FILE /\ pos = 0
  /\ calls = 0
  /\ content = [p \in Paths |-> <<>>] /\ added = [p \in Paths |-> <<>>]
  /\ returned = <<>> /\ ended = "never" /\ disturbed = FALSE

call(to) == upc = "idle" /\ calls < MaxCalls /\ calls' = calls + 1 /\ upc' = to

no_descriptor == UNCHANGED dvars
no_record == UNCHANGED <<content, added, returned, disturbed>>

\* open(p, O_RDWR | O_CREAT): the file's offset is 0.  It may fail.
opens_file(p) ==
  \/ \E f \in Fds :
       /\ opened(f, "utmpx", "open", {}, {}) /\ UNCHANGED <<acc, steps>>
       /\ utmpx_file' = f /\ path' = p /\ pos' = 0
  \/ utmpx_file' = -1 /\ no_descriptor /\ UNCHANGED <<path, pos>>

closes == fd' = [fd EXCEPT ![utmpx_file] = closed] /\ UNCHANGED <<nonblock, opens, acc, steps, unset>>

endutxent ==
  /\ call("idle")
  /\ IF utmpx_file >= 0 THEN closes /\ ended' = "now" ELSE no_descriptor /\ UNCHANGED ended
  /\ no_record /\ UNCHANGED <<utmpx_file, path, pos>>

\* lseek moves the offset of whatever has the number.  Nobody looks whether it fails.
seeks(to) == pos' \in IF foreign THEN {pos} ELSE {pos, to}

setutxent ==
  /\ call("idle")
  /\ IF utmpx_file < 0
       THEN opens_file(UTMPX_FILE)
       ELSE seeks(0) /\ no_descriptor /\ UNCHANGED <<utmpx_file, path>>
  /\ no_record /\ UNCHANGED ended

\* getutxent and pututxline open the file first when there is none.
opens_first(next) ==
  IF utmpx_file < 0
    THEN opens_file(UTMPX_FILE) /\ call(IF utmpx_file' < 0 THEN "idle" ELSE next)
    ELSE call(next) /\ no_descriptor /\ UNCHANGED <<utmpx_file, path, pos>>

getutxent  == opens_first("read") /\ no_record /\ UNCHANGED ended
pututxline == opens_first("seek") /\ no_record /\ UNCHANGED ended

\* NULL unless a whole record is read.
getutxent_read ==
  /\ upc = "read" /\ upc' = "idle"
  /\ LET got == SubSeq(content[path], pos + 1, Min({pos + 2, Len(content[path])})) IN
     \/ /\ ~foreign
        /\ pos' = pos + Len(got)
        /\ returned' = IF Len(got) = 2 THEN got ELSE <<>>
     \/ utmpx_file \in of_app /\ returned' = halves(<<"foreign", 0>>) /\ UNCHANGED pos
     \/ returned' = <<>> /\ UNCHANGED pos
  /\ no_descriptor /\ UNCHANGED <<utmpx_file, path, calls, content, added, ended, disturbed>>

\* Mutation: the record is written where the last call left the offset.
pututxline_stays ==
  /\ upc = "seek" /\ upc' = "write" /\ UNCHANGED pos
  /\ no_descriptor /\ no_record /\ UNCHANGED <<utmpx_file, path, calls, ended>>

pututxline_seek ==
  /\ upc = "seek" /\ upc' = "write" /\ seeks(Len(content[path]))
  /\ disturbed' = (disturbed \/ pos' # Len(content[path]))
  /\ no_descriptor
  /\ UNCHANGED <<utmpx_file, path, calls, content, added, returned, ended>>

\* What a write of units at offset pos makes of a file.
overwrite(c, units) ==
  [n \in 1..Max({Len(c), pos + Len(units)}) |->
     IF n \in (pos + 1)..(pos + Len(units)) THEN units[n - pos] ELSE c[n]]

pututxline_write ==
  /\ upc = "write" /\ upc' = "idle"
  /\ LET r == <<"own", calls>> IN
     \/ /\ ~foreign
        /\ content' = [content EXCEPT ![path] = overwrite(@, halves(r))]
        /\ added' = [added EXCEPT ![path] = Append(@, r)]
        /\ pos' = pos + 2 /\ UNCHANGED disturbed
     \/ /\ ~foreign
        /\ content' = [content EXCEPT ![path] = overwrite(@, <<<<r, 1>>>>)]
        /\ pos' = pos + 1 /\ disturbed' = TRUE /\ UNCHANGED added
     \/ UNCHANGED <<content, added, pos, disturbed>>
  /\ no_descriptor /\ UNCHANGED <<utmpx_file, path, calls, returned, ended>>

\* Mutation: utmpxname leaves the old file open.
utmpxname_leaks(p) ==
  /\ call("name") /\ path' = p /\ no_descriptor
  /\ no_record /\ UNCHANGED <<utmpx_file, pos, ended>>

utmpxname(p) ==
  /\ call("name") /\ path' = p
  /\ IF utmpx_file > 0 THEN closes ELSE no_descriptor
  /\ no_record /\ UNCHANGED <<utmpx_file, pos, ended>>

\* Mutation: the number of the closed file is kept when the new one cannot be opened.
utmpxname_open_keeps ==
  /\ upc = "name" /\ upc' = "idle"
  /\ \/ \E f \in Fds :
          /\ opened(f, "utmpx", "open", {}, {}) /\ UNCHANGED <<acc, steps>>
          /\ utmpx_file' = f /\ pos' \in IF f > 0 THEN {0, Len(content[path])} ELSE {0}
     \/ UNCHANGED <<utmpx_file, pos>> /\ no_descriptor
  /\ ended' = IF ended = "now" THEN "before" ELSE ended
  /\ no_record /\ UNCHANGED <<path, calls>>

\* open, and lseek to the end, except in descriptor 0: nothing but the length at the
\* time of the lseek matters of what others do between the two.
utmpxname_open ==
  /\ upc = "name" /\ upc' = "idle"
  /\ \/ \E f \in Fds :
          /\ opened(f, "utmpx", "open", {}, {}) /\ UNCHANGED <<acc, steps>>
          /\ utmpx_file' = f /\ pos' \in IF f > 0 THEN {0, Len(content[path])} ELSE {0}
     \/ utmpx_file' = -1 /\ no_descriptor /\ UNCHANGED pos
  /\ ended' = IF ended = "now" THEN "before" ELSE ended
  /\ no_record /\ UNCHANGED <<path, calls>>

\* Another process calls pututxline.
other_adds(p) ==
  /\ Cardinality(UNION {{<<q, n>> : n \in others(q)} : q \in Paths}) < MaxOthers
  /\ LET r == <<"other", Len(added[p])>> IN
     /\ content' = [content EXCEPT ![p] = @ \o halves(r)]
     /\ added' = [added EXCEPT ![p] = Append(@, r)]
  /\ disturbed' = (disturbed \/ (upc = "write" /\ p = path))
  /\ no_descriptor /\ UNCHANGED <<utmpx_file, upc, path, pos, calls, returned, ended>>

UtmpxNext ==
  \/ endutxent \/ setutxent
  \/ getutxent \/ getutxent_read
  \/ pututxline \/ pututxline_seek \/ pututxline_write
  \/ \E p \in Paths : utmpxname(p) \/ other_adds(p)
  \/ utmpxname_open

Next == UtmpxNext \/ (DescriptorsNext /\ UNCHANGED uvars)

Spec == Init /\ [][Next]_vars

-----------------------------------------------------------------------------
(* Properties *)

\* While endutxent is not called, utmpx_file is -1 or the library's own descriptor, so
\* that no call reads, writes, moves or closes a file of the program.  It keeps the
\* number that it closes: utmpxname is the only way back.
NumberIsOwn == ended # "now" /\ upc # "name" => ~foreign

\* The library has one file open at a time; descriptor 0, which utmpxname takes for
\* none, is the only one that can stay behind.
KeepsOneOpen == {f \in open_fds : fd[f].owner = "utmpx"} \subseteq {0, utmpx_file}

\* Unless a write was short, pututxline's lseek failed, or another process added a record
\* between the two, every record added is in its file, whole and once, in the order
\* in which they were added, and getutxent returns no other.
RecordsWhole ==
  ended = "never" /\ ~disturbed =>
    /\ \A p \in Paths : content[p] = flat(added[p])
    /\ returned = <<>> \/ \E p \in Paths : \E n \in DOMAIN added[p] : returned = halves(added[p][n])

has(f) == (IF fd[f].cloexec THEN {"cloexec"} ELSE {})
          \cup (IF fd[f].desc \in nonblock THEN {"nonblock"} ELSE {})

\* Every descriptor of the program has the flags that were asked for, and no other, but
\* for pipe, which drops them, for accept while it still has flags to set, and for a
\* flag that it failed to set.
FlagsAsAsked ==
  ended = "never" =>
    \A f \in of_app :
      \/ has(f) = fd[f].asked
      \/ fd[f].via = "pipe" /\ has(f) \subseteq {"cloexec"}
      \/ fd[f].via = "accept" /\ has(f) \subseteq fd[f].asked
         /\ (fd[f].desc \in unset \/ (fd[f].desc = acc.desc /\ acc.todo # {}))

=============================================================================
