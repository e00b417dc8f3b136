------------------------------ MODULE InitParse ------------------------------
(***************************************************************************)
(* The parser of init's configuration, init/src/parse.c, and the buffer    *)
(* that main (init/src/main.c) hands it.                                   *)
(*                                                                         *)
(* A character is one of the classes that the parser tells apart: "sp"     *)
(* (isspace, other than newline), "nl", "q" (the double quote) and "c"     *)
(* (any other).  Positions are counted from 1.  main does not store a NUL  *)
(* after the file: what the parser sees is the file and then whatever the  *)
(* memory after it holds up to the first NUL, which is undefined.          *)
(*                                                                         *)
(* An argument is the span <<start, len>> of the buffer, as in             *)
(* struct directive_arg, and a directive is a sequence of arguments.       *)
(***************************************************************************)
EXTENDS Naturals, Sequences, SequencesExt

CONSTANTS
  Files,  \* the contents of /boot/initcfg
  Tails   \* what may lie between the file's end and the first NUL

Chars == {"sp", "nl", "q", "c"}

ASSUME ParseAssumption == Files \subseteq Seq(Chars) /\ Tails \subseteq Seq(Chars)

VARIABLES
  file, tail,     \* the two parts of the buffer
  pc,             \* "config", "line", "ok" (PARSE_OK) or "err" (PARSE_ERR)
  p,              \* parse_config's cursor
  q,              \* parse_line's cursor
  args,           \* parse_line's arguments so far
  directives,     \* the directives so far
  heap,           \* live blocks: 0 for directives, n for the args of the n-th
  oom             \* some realloc has failed

vars == <<file, tail, pc, p, q, args, directives, heap, oom>>

buffer == file \o tail
NulPos == Len(buffer) + 1
At(n)  == IF n < NulPos THEN buffer[n] ELSE "nul"

\* Where a loop that advances from n while the character is not in stop ends,
\* as the set of that one position; stop always holds "nul".
scan(n, stop) == {m \in n..NulPos : /\ At(m) \in stop
                                    /\ \A o \in n..(m - 1) : At(o) \notin stop}

skip_whitespace(n) == scan(n, {"nl", "q", "c", "nul"})

Span   == (1..NulPos) \X (0..NulPos)
Blocks == 0..(Len(directives) + 1)

ParseTypeOK ==
  /\ file \in Files /\ tail \in Tails
  /\ pc \in {"config", "line", "ok", "err"}
  /\ p \in 1..NulPos
  /\ q \in 1..NulPos
  /\ args \in Seq(Span)
  /\ directives \in Seq(Seq(Span))
  /\ heap \subseteq Blocks
  /\ oom \in BOOLEAN

Init ==
  /\ file \in Files /\ tail \in Tails
  /\ pc = "config"
  /\ p = 1 /\ q = 1
  /\ args = << >> /\ directives = << >>
  /\ heap = {}
  /\ oom = FALSE

-----------------------------------------------------------------------------
(* parse_config *)

num == Len(directives)

\* Mutation: the cursor is left on the newline.
stay_on_newline(n) == n

\* Mutation: the cursor goes past the NUL too.
past_nul(n) == n + 1

after_line(n) == IF At(n) = "nl" THEN n + 1 ELSE n

\* A line of white space only is passed over.
skip_blank_line ==
  /\ pc = "config" /\ At(p) # "nul"
  /\ \E line_end \in scan(p, {"nl", "nul"}) :
       /\ \A n \in p..(line_end - 1) : At(n) = "sp"
       /\ p' = after_line(line_end)
  /\ UNCHANGED <<file, tail, pc, q, args, directives, heap, oom>>

\* Otherwise directives grows and parse_line starts at the first character
\* that is not white space; when realloc fails everything is freed.
start_line ==
  /\ pc = "config" /\ At(p) # "nul"
  /\ \E line_start \in skip_whitespace(p) :
       /\ At(line_start) \notin {"nl", "nul"}
       /\ \/ /\ pc' = "line"
             /\ q' = line_start
             /\ heap' = heap \cup {0}
             /\ UNCHANGED oom
          \/ /\ pc' = "err"
             /\ heap' = {}
             /\ oom' = TRUE
             /\ UNCHANGED q
  /\ UNCHANGED <<file, tail, p, args, directives>>

parse_done ==
  /\ pc = "config" /\ At(p) = "nul"
  /\ pc' = "ok"
  /\ UNCHANGED <<file, tail, p, q, args, directives, heap, oom>>

-----------------------------------------------------------------------------
(* parse_line *)

\* The next argument from q, as the set of the one <<start, end, resume>>: the
\* span [start, end) and the position after it.  Empty for a quote that is
\* still open at the NUL.  The scan for the closing quote does not stop at a
\* newline.
quoted_arg(n) == {<<n + 1, m, m + 1>> : m \in {o \in scan(n + 1, {"q", "nul"}) : At(o) = "q"}}

\* Mutation: a word runs on over a newline.
bare_arg_runs_on(n) == {<<n, m, m>> : m \in scan(n, {"sp", "nul"})}

bare_arg(n) == {<<n, m, m>> : m \in scan(n, {"sp", "nl", "nul"})}

\* Mutation: a word ends at a quote too.
next_arg_split(n) ==
  IF At(n) = "q" THEN quoted_arg(n)
  ELSE {<<n, m, m>> : m \in scan(n + 1, {"q", "sp", "nl", "nul"})}

\* Mutation: a quote inside a word is an error.
next_arg_strict(n) ==
  IF At(n) = "q" THEN quoted_arg(n)
  ELSE {a \in bare_arg(n) : \A m \in a[1]..(a[2] - 1) : At(m) # "q"}

next_arg(n) == IF At(n) = "q" THEN quoted_arg(n) ELSE bare_arg(n)

parse_arg ==
  /\ pc = "line"
  /\ \E n \in skip_whitespace(q) :
       /\ At(n) \notin {"nl", "nul"}
       /\ \E a \in next_arg(n) :
            /\ args' = Append(args, <<a[1], a[2] - a[1]>>)
            /\ q' = a[3]
  /\ heap' = heap \cup {num + 1}
  /\ UNCHANGED <<file, tail, pc, p, directives, oom>>

\* Mutation: parse_line does not free its args.
leaks_args ==
  /\ pc = "line"
  /\ \E n \in skip_whitespace(q) :
       /\ At(n) \notin {"nl", "nul"}
       /\ oom' = (next_arg(n) # {})
  /\ pc' = "err"
  /\ heap' = heap \ (0..num)
  /\ UNCHANGED <<file, tail, p, q, args, directives>>

\* The error returns of parse_line: an unterminated quote and a failed
\* realloc.  parse_line frees its own args, parse_config the rest.
line_error ==
  /\ pc = "line"
  /\ \E n \in skip_whitespace(q) :
       /\ At(n) \notin {"nl", "nul"}
       /\ oom' = (next_arg(n) # {})
  /\ pc' = "err"
  /\ heap' = {}
  /\ UNCHANGED <<file, tail, p, q, args, directives>>

\* parse_line's loop ends, and parse_config goes on behind the newline of the
\* line that parse_line STARTED in.
end_line ==
  /\ pc = "line"
  /\ \E n \in skip_whitespace(q) : At(n) \in {"nl", "nul"}
  /\ directives' = Append(directives, args)
  /\ args' = << >>
  /\ \E line_end \in scan(p, {"nl", "nul"}) : p' = after_line(line_end)
  /\ pc' = "config"
  /\ UNCHANGED <<file, tail, q, heap, oom>>

Next == \/ skip_blank_line \/ start_line \/ parse_done
        \/ parse_arg \/ line_error \/ end_line

Spec == Init /\ [][Next]_vars /\ WF_vars(Next)

-----------------------------------------------------------------------------
(* The reference: one pass over a text by an automaton with three modes.   *)
(* It reads the n-th character c in the state s; line and lines are the    *)
(* arguments and the directives that have ended, from is where the one it  *)
(* is in began, and crossed says that a quote was open at a newline.       *)

start == [mode |-> "gap", from |-> 1, line |-> << >>, lines |-> << >>, crossed |-> FALSE]

\* The line with the argument that ends before n, and the lines with line l.
arg(s, n)   == Append(s.line, <<s.from, n - s.from>>)
close(s, l) == IF l = << >> THEN s.lines ELSE Append(s.lines, l)

becomes(s, mode, from, line, lines) ==
  [mode |-> mode, from |-> from, line |-> line, lines |-> lines, crossed |-> s.crossed]

in_gap(s, n, c) ==
  IF c = "q" THEN becomes(s, "quoted", n + 1, s.line, s.lines)
  ELSE IF c = "c" THEN becomes(s, "word", n, s.line, s.lines)
  ELSE IF c = "nl" THEN becomes(s, "gap", s.from, << >>, close(s, s.line))
  ELSE s

in_word(s, n, c) ==
  IF c = "sp" THEN becomes(s, "gap", s.from, arg(s, n), s.lines)
  ELSE IF c = "nl" THEN becomes(s, "gap", s.from, << >>, close(s, arg(s, n)))
  ELSE s

in_quotes(s, n, c) ==
  IF c = "q" THEN becomes(s, "gap", s.from, arg(s, n), s.lines)
  ELSE IF c = "nl" THEN [s EXCEPT !.crossed = TRUE]
  ELSE s

read(s, n, c) == IF s.mode = "gap" THEN in_gap(s, n, c)
                 ELSE IF s.mode = "word" THEN in_word(s, n, c) ELSE in_quotes(s, n, c)

\* A text ends as if a newline followed.
char(text, n) == IF n <= Len(text) THEN text[n] ELSE "nl"

\* The states of the automaton: Readings(text)[n] is the one after n characters.
Readings(text) ==
  LET after[n \in Nat] == IF n = 0 THEN start ELSE read(after[n - 1], n, char(text, n))
  IN after

Automaton(text) == Readings(text)[Len(text) + 1]

\* When every quote is closed on its line the parser returns what the
\* automaton reads: no argument lost, split, merged or read twice, and no
\* line attributed to another directive.
ParsesAsAutomaton ==
  pc = "ok" /\ ~Automaton(buffer).crossed => directives = Automaton(buffer).lines

\* parse_config fails only for the reasons it logs: memory, or a quote that its
\* own line does not close.
FailsForAReason == pc = "err" => oom \/ Automaton(buffer).crossed

\* After an error return nothing that the parser allocated is still live, on
\* any of its three error paths; after success exactly the result is.
NoLeak ==
  /\ pc = "err" => heap = {}
  /\ pc = "ok" => heap = (IF num = 0 THEN {} ELSE 0..num)

\* main's buffer has no NUL behind the file.  For a file that ends with a
\* newline, as /boot/initcfg does, what follows can only add directives (or
\* make the parser fail): those of the file come first and unchanged.
TailOnlyAppends ==
  /\ pc = "ok" /\ file # << >> /\ Last(file) = "nl"
  /\ ~Automaton(file).crossed
  => IsPrefix(Automaton(file).lines, directives)

\* The parser terminates on every buffer.
Terminates == <>(pc \in {"ok", "err"})
=============================================================================
