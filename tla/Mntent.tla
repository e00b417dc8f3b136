------------------------------- MODULE Mntent -------------------------------
(***************************************************************************)
(* The reader of mount tables (mlibc-salernos/sysdeps/generic/mntent.cpp): *)
(* getmntent_r, one step for each line that it reads.                      *)
(*                                                                         *)
(* A line is an entry, a comment or blank, with the numbers that follow    *)
(* its fourth word; nl says whether it ends in a newline, long whether it  *)
(* is longer than the caller's buffer.                                     *)
(***************************************************************************)
EXTENDS Naturals, Sequences

\* mnt_freq and mnt_passno after sscanf: what it does not find keeps its value.
scanned(mnt, nums) == [c \in 1..2 |-> IF c <= Len(nums) THEN nums[c] ELSE mnt[c]]

\* Mutation: the reader does not look for a comment.
passes_over_blank(line) == line.kind = "blank"

\* linebuf[n[0]] == '#' || n[1] == len
passes_over(line) == line.kind \in {"comment", "blank"}

\* getmntent has the library's own buffer, which grows with the line.
getmntent(file, pos) ==
  [file |-> file, start |-> pos, pos |-> pos, internal |-> TRUE, mnt |-> <<0, 0>>]

getmntent_r(file, pos) == [getmntent(file, pos) EXCEPT !.internal = FALSE]

\* One round of the loop on r, a call in progress: the call after it, and what is
\* returned, if it is.  The numbers of a line that is passed over stay in mnt.  fgets
\* stops at the end of a buffer before it meets the end of the file.
read_line(r) ==
  LET line == r.file[r.pos + 1]
      at   == [r EXCEPT !.pos = @ + 1]
      read == [at EXCEPT !.mnt = scanned(@, line.nums)]
      null(errno) == [entry |-> 0, errno |-> errno]
  IN IF r.pos = Len(r.file)               THEN <<r, null("eof")>>
     ELSE IF line.long /\ ~r.internal     THEN <<at, null("ERANGE")>>
     ELSE IF ~line.nl                     THEN <<at, null("eof")>>
     ELSE IF passes_over(line)            THEN <<read, [entry |-> 0, errno |-> "again"]>>
     ELSE <<read, [entry |-> read.pos, errno |-> "none"]>>

=============================================================================
