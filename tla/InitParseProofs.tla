--------------------------- MODULE InitParseProofs ---------------------------
(***************************************************************************)
(* The parser's cursors and spans stay inside the buffer, it leaks nothing *)
(* and it reads what the automaton reads, for every file and every memory  *)
(* behind it.                                                              *)
(*                                                                         *)
(* The automaton is defined by recursion over the text.  Its states exist  *)
(* by Recursion, and what a loop of the parser passes over leaves them     *)
(* alone by Induction, both derived from the library's well-foundedness of *)
(* the naturals in a form whose parameter is a set.  ReadInv says, for     *)
(* every end of a line up to which all quotes are closed, where the parser *)
(* is in the reading of the automaton until it has passed that end.        *)
(***************************************************************************)
EXTENDS InitParse, WellFoundedInduction, TLAPS

\* The blocks that are live at each point of the parser.  A line's first
\* argument is there to be read when parse_line starts, so no directive ends
\* without an args block.
whole == IF num = 0 THEN {} ELSE 0..num

HeapInv ==
  /\ pc = "config" => args = << >> /\ heap = whole
  /\ pc = "line" => heap = 0..num \cup (IF args = << >> THEN {} ELSE {num + 1})
  /\ pc = "line" /\ args = << >> => At(q) \notin {"sp", "nl", "nul"}
  /\ pc = "ok" => heap = whole
  /\ pc = "err" => heap = {}

ParseInv == ParseTypeOK /\ HeapInv

\* Positions before the NUL have a successor in the buffer.
LEMMA BufferType ==
  ASSUME ParseTypeOK
  PROVE  /\ buffer \in Seq(Chars)
         /\ NulPos \in Nat \ {0}
         /\ \A n \in 1..NulPos : At(n) # "nul" => n + 1 \in 1..NulPos
  BY ParseAssumption DEF ParseTypeOK, buffer, NulPos, At

\* A scan ends inside the buffer, not before its start, on a stop character.
LEMMA ScanRange ==
  ASSUME ParseTypeOK, NEW n \in 1..NulPos, NEW stop, NEW m \in scan(n, stop)
  PROVE  m \in 1..NulPos /\ n <= m /\ At(m) \in stop
  BY BufferType DEF scan

\* A loop that stops where it starts.
LEMMA ScanHere ==
  ASSUME ParseTypeOK, NEW n \in 1..NulPos, NEW stop, At(n) \in stop,
         NEW m \in scan(n, stop)
  PROVE  m = n
  <1>1. m \in n..NulPos /\ \A o \in n..(m - 1) : At(o) \notin stop
    BY DEF scan
  <1>2. NulPos \in Nat
    BY BufferType
  <1>3. m > n => n \in n..(m - 1)
    BY <1>1, <1>2
  <1> QED BY <1>1, <1>2, <1>3

\* Every position up to NulPos holds a character or the NUL.
LEMMA AtRange == ASSUME ParseTypeOK, NEW n \in 1..NulPos PROVE At(n) \in Chars \cup {"nul"}
  BY BufferType DEF At, NulPos

\* Stepping over a newline does not leave the buffer.
LEMMA AfterLineRange ==
  ASSUME ParseTypeOK, NEW n \in 1..NulPos
  PROVE  after_line(n) \in 1..NulPos
  BY BufferType DEF after_line

\* The span of an argument and the position behind it.
LEMMA ArgRange ==
  ASSUME ParseTypeOK, NEW n \in 1..NulPos, NEW a \in next_arg(n)
  PROVE  <<a[1], a[2] - a[1]>> \in Span /\ a[3] \in 1..NulPos
  <1>1. CASE At(n) = "q"
    <2>1. n + 1 \in 1..NulPos
      BY <1>1, BufferType
    <2>2. PICK m \in scan(n + 1, {"q", "nul"}) : At(m) = "q" /\ a = <<n + 1, m, m + 1>>
      BY <1>1 DEF next_arg, quoted_arg
    <2>3. m \in 1..NulPos /\ n + 1 <= m
      BY <2>1, ScanRange
    <2>4. m + 1 \in 1..NulPos
      BY <2>2, <2>3, BufferType
    <2> QED BY <2>1, <2>2, <2>3, <2>4, BufferType DEF Span
  <1>2. CASE At(n) # "q"
    <2>1. PICK m \in scan(n, {"sp", "nl", "nul"}) : a = <<n, m, m>>
      BY <1>2 DEF next_arg, bare_arg
    <2>2. m \in 1..NulPos /\ n <= m
      BY ScanRange
    <2> QED BY <2>1, <2>2, BufferType DEF Span
  <1> QED BY <1>1, <1>2

\* parse_config starts with nothing allocated.
LEMMA ParseInvInit == Init => ParseInv
  <1> SUFFICES ASSUME Init PROVE ParseInv
    OBVIOUS
  <1>1. NulPos \in Nat \ {0}
    BY ParseAssumption DEF Init, NulPos, buffer
  <1>2. ParseTypeOK
    <2>1. 1 \in 1..NulPos /\ args \in Seq(Span) /\ directives \in Seq(Seq(Span))
      BY <1>1 DEF Init
    <2>2. p = 1 /\ q = 1 /\ heap = {} /\ oom = FALSE /\ pc = "config"
      BY DEF Init
    <2>3. heap \subseteq Blocks /\ oom \in BOOLEAN
      BY <2>2
    <2>4. file \in Files /\ tail \in Tails
      BY DEF Init
    <2> QED BY <2>1, <2>2, <2>3, <2>4 DEF ParseTypeOK
  <1>3. HeapInv
    BY DEF Init, HeapInv, whole, num
  <1> QED BY <1>2, <1>3 DEF ParseInv

\* No step of either function disturbs the cursors or the blocks.
LEMMA ParseInvStep == ParseInv /\ [Next]_vars => ParseInv'
  <1> SUFFICES ASSUME ParseTypeOK, HeapInv, [Next]_vars PROVE ParseTypeOK' /\ HeapInv'
    BY DEF ParseInv
  \* The buffer, and all that is computed from it, never changes.
  <1>a. UNCHANGED <<file, tail>>
    BY DEF Next, skip_blank_line, start_line, parse_done, parse_arg, line_error, end_line, vars
  <1>b. NulPos' = NulPos /\ Span' = Span /\ \A n : At(n)' = At(n)
    BY <1>a DEF NulPos, Span, At, buffer
  <1>c. num \in Nat /\ p \in 1..NulPos /\ q \in 1..NulPos
    BY DEF ParseTypeOK, num
  <1>1. CASE skip_blank_line
    <2>1. PICK line_end \in scan(p, {"nl", "nul"}) : p' = after_line(line_end)
      BY <1>1 DEF skip_blank_line
    <2>2. p' \in 1..NulPos
      BY <1>c, <2>1, ScanRange, AfterLineRange
    <2>3. UNCHANGED <<pc, q, args, directives, heap, oom>>
      BY <1>1 DEF skip_blank_line
    <2>4. ParseTypeOK'
      BY <1>a, <1>b, <2>2, <2>3 DEF ParseTypeOK, Blocks
    <2>5. HeapInv'
      BY <1>1, <2>3 DEF skip_blank_line, HeapInv, whole, num
    <2> QED BY <2>4, <2>5
  <1>2. CASE start_line
    <2>1. PICK line_start \in skip_whitespace(p) :
            /\ At(line_start) \notin {"nl", "nul"}
            /\ \/ pc' = "line" /\ q' = line_start /\ heap' = heap \cup {0} /\ UNCHANGED oom
               \/ pc' = "err" /\ heap' = {} /\ oom' = TRUE /\ UNCHANGED q
      BY <1>2 DEF start_line
    <2>2. line_start \in 1..NulPos /\ At(line_start) \notin {"sp", "nl", "nul"}
      BY <1>c, <2>1, ScanRange DEF skip_whitespace
    <2>3. UNCHANGED <<p, args, directives>> /\ pc = "config"
      BY <1>2 DEF start_line
    <2>4. args = << >> /\ heap = whole
      BY <2>3 DEF HeapInv
    <2>5. whole \cup {0} = 0..num /\ whole \subseteq Blocks
      BY <1>c DEF whole, Blocks, num
    <2>6. ParseTypeOK'
      <3>1. q' \in 1..NulPos /\ pc' \in {"config", "line", "ok", "err"}
        BY <1>c, <2>1, <2>2
      <3>2. oom' \in BOOLEAN
        BY <2>1 DEF ParseTypeOK
      <3>3. Blocks' = 0..(num + 1)
        BY <2>3 DEF Blocks, num
      <3>4. 0..num \subseteq 0..(num + 1)
        BY <1>c
      <3>5. heap' = {} \/ heap' = 0..num
        BY <2>1, <2>4, <2>5
      <3>6. heap' \subseteq Blocks'
        BY <3>3, <3>4, <3>5
      <3> QED BY <1>a, <1>b, <2>3, <3>1, <3>2, <3>6 DEF ParseTypeOK
    <2>7. HeapInv'
      <3>1. CASE pc' = "line"
        <4>1. heap' = 0..num /\ q' = line_start /\ num' = num
          BY <2>1, <2>3, <2>4, <2>5, <3>1 DEF num
        <4>2. At(q)' = At(line_start)
          BY <1>b, <4>1, <1>a DEF At, NulPos, buffer
        <4> QED BY <2>2, <2>3, <2>4, <3>1, <4>1, <4>2 DEF HeapInv
      <3>2. CASE pc' = "err"
        BY <2>1, <3>2 DEF HeapInv
      <3> QED BY <2>1, <3>1, <3>2
    <2> QED BY <2>6, <2>7
  <1>3. CASE parse_done
    BY <1>3, <1>b DEF parse_done, ParseTypeOK, HeapInv, whole, num, Blocks
  <1>4. CASE parse_arg
    <2>1. PICK n \in skip_whitespace(q) : \E a \in next_arg(n) :
            args' = Append(args, <<a[1], a[2] - a[1]>>) /\ q' = a[3]
      BY <1>4 DEF parse_arg
    <2>2. n \in 1..NulPos
      BY <1>c, ScanRange DEF skip_whitespace
    <2>3. PICK a \in next_arg(n) : args' = Append(args, <<a[1], a[2] - a[1]>>) /\ q' = a[3]
      BY <2>1
    <2>4. <<a[1], a[2] - a[1]>> \in Span /\ q' \in 1..NulPos
      BY <2>2, <2>3, ArgRange
    <2>5. args' \in Seq(Span) /\ args' # << >>
      BY <2>3, <2>4 DEF ParseTypeOK
    <2>6. UNCHANGED <<pc, p, directives, oom>> /\ heap' = heap \cup {num + 1} /\ pc = "line"
      BY <1>4 DEF parse_arg
    <2>7. ParseTypeOK'
      <3>1. Blocks' = 0..(num + 1) /\ Blocks = 0..(num + 1)
        BY <2>6 DEF Blocks, num
      <3>2. num + 1 \in 0..(num + 1)
        BY <1>c
      <3>3. heap \subseteq Blocks
        BY DEF ParseTypeOK
      <3>4. heap' \subseteq Blocks'
        BY <2>6, <3>1, <3>2, <3>3
      <3> QED BY <1>a, <1>b, <2>4, <2>5, <2>6, <3>4 DEF ParseTypeOK
    <2>8. HeapInv'
      BY <2>5, <2>6 DEF HeapInv, num
    <2> QED BY <2>7, <2>8
  <1>5. CASE line_error
    <2>1. UNCHANGED <<p, q, args, directives>> /\ pc' = "err" /\ heap' = {} /\ oom' \in BOOLEAN
      BY <1>5 DEF line_error
    <2> QED BY <1>a, <1>b, <2>1 DEF ParseTypeOK, HeapInv
  <1>6. CASE end_line
    <2>1. PICK n \in skip_whitespace(q) : At(n) \in {"nl", "nul"}
      BY <1>6 DEF end_line
    <2>2. PICK line_end \in scan(p, {"nl", "nul"}) : p' = after_line(line_end)
      BY <1>6 DEF end_line
    <2>3. /\ directives' = Append(directives, args) /\ args' = << >>
          /\ pc = "line" /\ pc' = "config" /\ UNCHANGED <<q, heap, oom>>
      BY <1>6 DEF end_line
    <2>4. args # << >>
      <3> SUFFICES ASSUME args = << >> PROVE FALSE
        OBVIOUS
      <3>1. At(q) \notin {"sp", "nl", "nul"}
        BY <2>3 DEF HeapInv
      <3>2. n = q
        BY <1>c, <3>1, ScanHere, AtRange DEF skip_whitespace, Chars
      <3> QED BY <2>1, <3>1, <3>2
    <2>5. p' \in 1..NulPos
      BY <1>c, <2>2, ScanRange, AfterLineRange
    <2>6. directives' \in Seq(Seq(Span)) /\ num' = num + 1
      BY <2>3 DEF ParseTypeOK, num
    <2>7. heap' = 0..num'
      <3>1. heap = 0..num \cup {num + 1}
        BY <2>3, <2>4 DEF HeapInv
      <3>2. 0..num \cup {num + 1} = 0..(num + 1)
        BY <1>c
      <3> QED BY <2>3, <2>6, <3>1, <3>2
    <2>8. ParseTypeOK'
      BY <1>a, <1>b, <1>c, <2>3, <2>5, <2>6, <2>7 DEF ParseTypeOK, Blocks, num
    <2>9. HeapInv'
      BY <1>c, <2>3, <2>6, <2>7 DEF HeapInv, whole
    <2> QED BY <2>8, <2>9
  <1>7. CASE UNCHANGED vars
    BY <1>7, <1>b DEF vars, ParseTypeOK, HeapInv, whole, num, Blocks, At, NulPos, buffer, Span
  <1> QED BY <1>1, <1>2, <1>3, <1>4, <1>5, <1>6, <1>7 DEF Next

\* ParseInv holds in every state of the parser.
LEMMA ParseInductive == Spec => []ParseInv
  BY ParseInvInit, ParseInvStep, PTL DEF Spec

\* parse_config and parse_line never move a cursor past the terminating NUL, and
\* every argument they return starts and ends inside the buffer.
THEOREM ParseTypeCorrect == Spec => []ParseTypeOK
  <1>1. ParseInv => ParseTypeOK
    BY DEF ParseInv
  <1> QED BY <1>1, ParseInductive, PTL

\* The parser frees all it has allocated on each of its error paths, and hands
\* exactly the blocks of its result to the caller otherwise.
THEOREM ParserLeaksNothing == Spec => []NoLeak
  <1>1. ParseInv => NoLeak
    BY DEF ParseInv, HeapInv, NoLeak, whole
  <1> QED BY <1>1, ParseInductive, PTL

-----------------------------------------------------------------------------
(* Induction and recursion *)

\* A set of natural numbers that has an element has a least one.
LEMMA LeastOf ==
  ASSUME NEW T, T \subseteq Nat, T # {}
  PROVE  \E x \in T : \A y \in T : x <= y
<1> DEFINE R == OpToRel(<, Nat)
<1>1. IsWellFoundedOn(R, Nat)
  BY NatLessThanWellFounded
<1>2. \A y, x \in Nat : y < x => <<y, x>> \in R
  BY DEF OpToRel
<1> HIDE DEF R
<1>3. PICK x \in T : \A y \in T : <<y, x>> \notin R
  BY <1>1, WFMin
<1>4. \A y \in T : x <= y
  <2>1. TAKE y \in T
  <2>2. x \in Nat /\ y \in Nat
    OBVIOUS
  <2>3. ~(y < x)
    BY <1>2, <1>3, <2>2
  <2> QED
    BY <2>2, <2>3
<1> QED
  BY <1>4

\* A set that has 0, and with every natural number the next one, has them all.
LEMMA Induction ==
  ASSUME NEW G, 0 \in G, \A n \in Nat : n \in G => n + 1 \in G
  PROVE  \A n \in Nat : n \in G
<1>1. SUFFICES ASSUME Nat \ G # {} PROVE FALSE
  OBVIOUS
<1>2. PICK x \in Nat \ G : \A y \in Nat \ G : x <= y
  BY <1>1, LeastOf
<1>3. x \in Nat /\ x # 0 /\ x \notin G
  OBVIOUS
<1>4. x - 1 \in Nat /\ ~(x <= x - 1) /\ (x - 1) + 1 = x
  BY <1>3
<1>5. x - 1 \in G
  BY <1>2, <1>4
<1> QED
  BY <1>3, <1>4, <1>5

\* The first n + 1 values of the function that begins with c and continues with step.
Begins(g, n, c, step) == g[0] = c /\ \A k \in 1..n : g[k] = step[k][g[k - 1]]

\* Two such beginnings agree as far as both go.
LEMMA BeginningsAgree ==
  ASSUME NEW c, NEW step, NEW g, NEW h, NEW m \in Nat, NEW n \in Nat,
         Begins(g, m, c, step), Begins(h, n, c, step)
  PROVE  \A k \in Nat : k <= m /\ k <= n => g[k] = h[k]
<1> DEFINE G == {k \in Nat : k <= m /\ k <= n => g[k] = h[k]}
<1>1. 0 \in G
  BY DEF Begins
<1>2. ASSUME NEW k \in Nat, k \in G PROVE k + 1 \in G
  <2>1. SUFFICES ASSUME k + 1 <= m, k + 1 <= n PROVE g[k + 1] = h[k + 1]
    OBVIOUS
  <2>2. k + 1 \in 1..m /\ k + 1 \in 1..n /\ (k + 1) - 1 = k /\ k <= m /\ k <= n
    BY <2>1
  <2>3. g[k] = h[k]
    BY <1>2, <2>2
  <2> QED
    BY <2>2, <2>3 DEF Begins
<1> HIDE DEF G
<1>3. \A k \in Nat : k \in G
  BY <1>1, <1>2, Induction
<1> QED
  BY <1>3 DEF G

\* A function of all naturals that begins with c and continues with step.
Follows(f, S, c, step) ==
  /\ f \in [Nat -> S] /\ f[0] = c
  /\ \A n \in Nat \ {0} : f[n] = step[n][f[n - 1]]

Steps(S) == [Nat -> [S -> S]]

\* There is such a function.
LEMMA Recursion ==
  ASSUME NEW S, NEW c \in S, NEW step \in Steps(S)
  PROVE  \E f : Follows(f, S, c, step)
<1> USE DEF Steps
<1> DEFINE P(g, n) == g \in [0..n -> S] /\ Begins(g, n, c, step)
           G == {n \in Nat : \E g : P(g, n)}
<1>1. 0 \in G
  <2>1. P([k \in 0..0 |-> c], 0)
    BY DEF Begins
  <2> QED
    BY <2>1
<1>2. ASSUME NEW n \in Nat, n \in G PROVE n + 1 \in G
  <2>1. PICK g : P(g, n)
    BY <1>2
  <2> DEFINE h == [k \in 0..n+1 |-> IF k <= n THEN g[k] ELSE step[n + 1][g[n]]]
  <2>2. h \in [0..n+1 -> S]
    BY <2>1
  <2>3. h[0] = c
    BY <2>1 DEF Begins
  <2>4. ASSUME NEW k \in 1..n+1 PROVE h[k] = step[k][h[k - 1]]
    <3>1. CASE k <= n
      BY <2>1, <3>1 DEF Begins
    <3>2. CASE k = n + 1
      BY <2>1, <3>2
    <3> QED
      BY <3>1, <3>2
  <2> HIDE DEF h
  <2>5. P(h, n + 1)
    BY <2>2, <2>3, <2>4 DEF Begins
  <2> HIDE DEF P
  <2> QED
    BY <2>5
<1> HIDE DEF G
<1>3. \A n \in Nat : n \in G
  BY <1>1, <1>2, Induction
<1> DEFINE b(n) == CHOOSE g : P(g, n)
           f == [n \in Nat |-> b(n)[n]]
<1>4. ASSUME NEW n \in Nat PROVE P(b(n), n)
  BY <1>3 DEF G
<1>5. f \in [Nat -> S]
  <2>1. ASSUME NEW n \in Nat PROVE b(n)[n] \in S
    BY <1>4
  <2> HIDE DEF b
  <2> QED
    BY <2>1
<1>6. f[0] = c
  BY <1>4 DEF Begins
<1>7. ASSUME NEW n \in Nat \ {0} PROVE f[n] = step[n][f[n - 1]]
  <2>1. n \in Nat /\ n - 1 \in Nat /\ n - 1 <= n
    OBVIOUS
  <2>2. P(b(n), n) /\ P(b(n - 1), n - 1)
    BY <1>4, <2>1
  <2> HIDE DEF b
  <2>3. b(n)[n - 1] = b(n - 1)[n - 1]
    BY <2>1, <2>2, BeginningsAgree
  <2>4. b(n)[n] = step[n][b(n)[n - 1]]
    BY <2>1, <2>2 DEF Begins
  <2> QED
    BY <2>1, <2>3, <2>4
<1> HIDE DEF f
<1>8. Follows(f, S, c, step)
  BY <1>5, <1>6, <1>7 DEF Follows
<1> QED
  BY <1>8

-----------------------------------------------------------------------------
(* The automaton *)

State == [mode : {"gap", "word", "quoted"}, from : Nat, line : Seq(Nat \X Int),
          lines : Seq(Seq(Nat \X Int)), crossed : BOOLEAN]

\* The automaton stays in its states, whatever it reads.
LEMMA ReadType ==
  ASSUME NEW s \in State, NEW n \in Nat, NEW c
  PROVE  read(s, n, c) \in State
<1>1. arg(s, n) \in Seq(Nat \X Int)
  BY DEF arg, State
<1>2. close(s, s.line) \in Seq(Seq(Nat \X Int)) /\ close(s, arg(s, n)) \in Seq(Seq(Nat \X Int))
  BY <1>1 DEF close, State
<1>3. in_gap(s, n, c) \in State
  BY <1>2 DEF in_gap, becomes, State
<1>4. in_word(s, n, c) \in State
  BY <1>1, <1>2 DEF in_word, becomes, State
<1>5. in_quotes(s, n, c) \in State
  BY <1>1 DEF in_quotes, becomes, State
<1> QED
  BY <1>3, <1>4, <1>5 DEF read

\* The states that the automaton goes through.
LEMMA ReadingsDef ==
  ASSUME NEW text
  PROVE  /\ Readings(text) \in [Nat -> State]
         /\ Readings(text)[0] = start
         /\ \A n \in Nat \ {0} :
              Readings(text)[n] = read(Readings(text)[n - 1], n, char(text, n))
<1>0. start \in State
  BY DEF start, State
<1> DEFINE F(f) == [n \in Nat |-> IF n = 0 THEN start ELSE read(f[n - 1], n, char(text, n))]
           rd == [n \in Nat |-> [s \in State |-> read(s, n, char(text, n))]]
           r == Readings(text)
<1>1. \E f \in [Nat -> State] : f = F(f)
  <2>1. rd \in Steps(State)
    BY ReadType DEF Steps
  <2>3. \A n \in Nat, s \in State : rd[n][s] = read(s, n, char(text, n))
    OBVIOUS
  <2> HIDE DEF rd
  <2>4. PICK f : Follows(f, State, start, rd)
    BY <1>0, <2>1, Recursion
  <2>5. f \in [Nat -> State] /\ f[0] = start
    BY <2>4 DEF Follows
  <2>6. ASSUME NEW n \in Nat \ {0} PROVE f[n] = read(f[n - 1], n, char(text, n))
    <3>1. n \in Nat /\ n - 1 \in Nat
      OBVIOUS
    <3>2. f[n - 1] \in State
      BY <2>5, <3>1
    <3>3. f[n] = rd[n][f[n - 1]]
      BY <2>4 DEF Follows
    <3> QED
      BY <2>3, <3>1, <3>2, <3>3
  <2>7. \A n \in Nat : f[n] = IF n = 0 THEN start ELSE read(f[n - 1], n, char(text, n))
    BY <2>5, <2>6
  <2> DEFINE g == F(f)
  <2>8. DOMAIN g = Nat /\ g = [n \in DOMAIN g |-> g[n]]
    OBVIOUS
  <2>9. \A n \in Nat : g[n] = IF n = 0 THEN start ELSE read(f[n - 1], n, char(text, n))
    OBVIOUS
  <2> HIDE DEF g
  <2>10. f = g
    <3>1. \A n \in Nat : f[n] = g[n]
      BY <2>7, <2>9
    <3> QED
      BY <2>5, <2>8, <3>1
  <2> QED
    BY <2>5, <2>10 DEF g
<1>2. r = F(r)
  <2>1. r = CHOOSE f : f = F(f)
    BY DEF Readings
  <2> QED
    BY <1>1, <2>1
<1> HIDE DEF r
<1>3. r[0] = start /\ \A n \in Nat \ {0} : r[n] = read(r[n - 1], n, char(text, n))
  BY <1>2
<1> DEFINE G == {n \in Nat : r[n] \in State}
<1>4. 0 \in G
  BY <1>0, <1>3
<1>5. ASSUME NEW n \in Nat, n \in G PROVE n + 1 \in G
  <2>1. n + 1 \in Nat \ {0} /\ (n + 1) - 1 = n /\ r[n] \in State
    BY <1>5
  <2>2. r[n + 1] = read(r[n], n + 1, char(text, n + 1))
    BY <1>3, <2>1
  <2> QED
    BY <2>1, <2>2, ReadType
<1> HIDE DEF G
<1>6. \A n \in Nat : n \in G
  BY <1>4, <1>5, Induction
<1>7. r \in [Nat -> State]
  <2>1. \A n \in Nat : r[n] \in State
    BY <1>6 DEF G
  <2>2. DOMAIN r = Nat /\ r = [n \in DOMAIN r |-> r[n]]
    BY <1>2
  <2> QED
    BY <2>1, <2>2
<1> QED
  BY <1>3, <1>7 DEF r

\* What one character does.
LEMMA OneRead ==
  ASSUME NEW s \in State, NEW n \in Nat, NEW c, NEW r, r = read(s, n, c)
  PROVE  /\ s.mode = "gap" /\ c = "sp" => r = s
         /\ s.mode = "gap" /\ c = "q" =>
              r.mode = "quoted" /\ r.from = n + 1 /\ r.line = s.line /\ r.lines = s.lines
         /\ s.mode = "gap" /\ c = "c" =>
              r.mode = "word" /\ r.from = n /\ r.line = s.line /\ r.lines = s.lines
         /\ s.mode = "gap" /\ c = "nl" =>
              r.mode = "gap" /\ r.line = << >> /\ r.lines = close(s, s.line)
         /\ s.mode = "word" /\ c \notin {"sp", "nl"} => r = s
         /\ s.mode = "word" /\ c = "sp" =>
              r.mode = "gap" /\ r.line = arg(s, n) /\ r.lines = s.lines
         /\ s.mode = "word" /\ c = "nl" =>
              r.mode = "gap" /\ r.line = << >> /\ r.lines = close(s, arg(s, n))
         /\ s.mode = "quoted" /\ c = "q" =>
              r.mode = "gap" /\ r.line = arg(s, n) /\ r.lines = s.lines
         /\ s.mode = "quoted" /\ c # "q" =>
              r.mode = "quoted" /\ r.from = s.from /\ r.line = s.line /\ r.lines = s.lines
<1>1. CASE s.mode = "gap"
  BY <1>1 DEF read, in_gap, becomes
<1>2. CASE s.mode = "word"
  BY <1>2 DEF read, in_word, becomes
<1>3. CASE s.mode = "quoted"
  BY <1>3 DEF read, in_quotes, becomes, State
<1> QED
  BY <1>1, <1>2, <1>3 DEF State

\* A quote that is open at a newline is remembered for ever.
LEMMA OneCrossed ==
  ASSUME NEW s \in State, NEW n \in Nat, NEW c,
         s.crossed \/ (s.mode = "quoted" /\ c = "nl")
  PROVE  read(s, n, c).crossed
<1>1. CASE s.mode = "gap"
  BY <1>1 DEF read, in_gap, becomes, State
<1>2. CASE s.mode = "word"
  BY <1>2 DEF read, in_word, becomes, State
<1>3. CASE s.mode = "quoted"
  BY <1>3 DEF read, in_quotes, becomes, State
<1> QED
  BY <1>1, <1>2, <1>3 DEF State

LEMMA CrossedStays ==
  ASSUME NEW text, NEW n \in Nat, NEW m \in Nat, n <= m, Readings(text)[n].crossed
  PROVE  Readings(text)[m].crossed
<1> DEFINE r == Readings(text)
           G == {k \in Nat : r[n + k].crossed}
<1>1. r \in [Nat -> State] /\ \A k \in Nat \ {0} : r[k] = read(r[k - 1], k, char(text, k))
  BY ReadingsDef
<1> HIDE DEF r
<1>2. 0 \in G
  BY DEF r
<1>3. ASSUME NEW k \in Nat, k \in G PROVE k + 1 \in G
  <2>1. n + k \in Nat /\ n + (k + 1) \in Nat \ {0} /\ (n + (k + 1)) - 1 = n + k /\ r[n + k] \in State
    BY <1>1
  <2>2. r[n + (k + 1)] = read(r[n + k], n + (k + 1), char(text, n + (k + 1)))
    BY <1>1, <2>1
  <2>3. r[n + k].crossed
    BY <1>3
  <2>4. r[n + (k + 1)].crossed
    BY <2>1, <2>2, <2>3, OneCrossed
  <2> QED
    BY <2>4
<1> HIDE DEF G
<1>4. \A k \in Nat : k \in G
  BY <1>2, <1>3, Induction
<1>5. m - n \in Nat /\ n + (m - n) = m
  OBVIOUS
<1> QED
  BY <1>4, <1>5 DEF G, r

\* The characters that a mode passes over.
Keeps(mode, c) ==
  \/ mode = "gap" /\ c = "sp"
  \/ mode = "word" /\ c \notin {"sp", "nl"}
  \/ mode = "quoted" /\ c # "q"

Same(a, b) == a.mode = b.mode /\ a.from = b.from /\ a.line = b.line /\ a.lines = b.lines

\* Over them nothing changes.
LEMMA Stays ==
  ASSUME NEW text, NEW n \in Nat \ {0}, NEW m \in Nat, n <= m, NEW mode,
         Readings(text)[n - 1].mode = mode,
         \A o \in n..(m - 1) : Keeps(mode, char(text, o))
  PROVE  Same(Readings(text)[m - 1], Readings(text)[n - 1])
<1> DEFINE r == Readings(text)
           G == {k \in Nat : n + k <= m => Same(r[(n + k) - 1], r[n - 1])}
<1>1. r \in [Nat -> State] /\ \A k \in Nat \ {0} : r[k] = read(r[k - 1], k, char(text, k))
  BY ReadingsDef
<1>a. r[n - 1].mode = mode
  OBVIOUS
<1> HIDE DEF r
<1>2. 0 \in G
  <2>1. (n + 0) - 1 = n - 1
    OBVIOUS
  <2> QED
    BY <2>1 DEF Same
<1>3. ASSUME NEW k \in Nat, k \in G PROVE k + 1 \in G
  <2> DEFINE o == n + k
  <2>1. SUFFICES ASSUME n + (k + 1) <= m PROVE Same(r[(n + (k + 1)) - 1], r[n - 1])
    OBVIOUS
  <2>2. /\ o \in Nat \ {0} /\ o - 1 \in Nat /\ (n + (k + 1)) - 1 = o /\ o <= m
        /\ o \in n..(m - 1) /\ r[o - 1] \in State
    BY <1>1, <2>1
  <2>3. Same(r[o - 1], r[n - 1])
    BY <1>3, <2>2
  <2> HIDE DEF o
  <2>4. r[o] = read(r[o - 1], o, char(text, o)) /\ Keeps(mode, char(text, o))
    BY <1>1, <2>2
  <2>5. r[o - 1].mode = mode
    BY <1>a, <2>3 DEF Same
  <2>6. Same(r[o], r[o - 1])
    BY <2>2, <2>4, <2>5, OneRead DEF Keeps, Same
  <2>7. Same(r[o], r[n - 1])
    BY <2>3, <2>6 DEF Same
  <2> QED
    BY <2>2, <2>7
<1> HIDE DEF G
<1>4. \A k \in Nat : k \in G
  BY <1>2, <1>3, Induction
<1>5. m - n \in Nat /\ n + (m - n) = m
  OBVIOUS
<1> QED
  BY <1>4, <1>5 DEF G, r

-----------------------------------------------------------------------------
(* Where the parser is in the reading of the automaton *)

after(n) == Readings(buffer)[n]

\* A position up to which the parser must agree with the automaton: the end of a line,
\* with every quote closed on its line so far.
Closed(e) == char(buffer, e) = "nl" /\ ~after(e).crossed

\* The automaton is between lines behind n, and has read the directives.
Between(n) == /\ after(n).mode = "gap" /\ after(n).line = << >>
              /\ after(n).lines = directives

\* Before it reads the character at n it has read the directives and, of one more, the
\* args; the last of them may still be a word that n ends.
Within(n) ==
  /\ after(n - 1).lines = directives
  /\ \/ after(n - 1).mode = "gap" /\ after(n - 1).line = args
     \/ /\ after(n - 1).mode = "word" /\ arg(after(n - 1), n) = args
        /\ At(n) \in {"sp", "nl", "nul"}

\* The directives begin with the lines that the automaton has read up to e.
Has(e) == IsPrefix(after(e).lines, directives)

\* The parser agrees with the automaton until it has passed e, and then keeps what it has.
Agrees(e) ==
  /\ pc = "config" =>
       IF p <= e THEN Between(p - 1) \/ (p = NulPos /\ Between(p)) ELSE Has(e)
  /\ pc = "line" =>
       IF p <= e THEN /\ Within(q) /\ p <= q /\ q <= e
                      /\ \A n \in p..(q - 1) : At(n) # "nl"
       ELSE Has(e)
  /\ pc = "ok" => Has(e) /\ (e = NulPos => after(e).lines = directives)

ReadInv ==
  /\ \A e \in 1..NulPos : Closed(e) => Agrees(e)
  /\ pc = "err" => oom \/ after(NulPos).crossed

\* The states of the automaton over the buffer.
LEMMA After ==
  /\ \A n \in Nat : after(n) \in State
  /\ after(0) = start
  /\ \A n \in Nat \ {0} : after(n) = read(after(n - 1), n, char(buffer, n))
BY ReadingsDef DEF after

\* The automaton reads what the parser reads, and a newline for the NUL.
LEMMA CharAt ==
  ASSUME ParseTypeOK, NEW n \in 1..NulPos
  PROVE  /\ At(n) = "nul" <=> n = NulPos
         /\ n = NulPos => char(buffer, n) = "nl"
         /\ n # NulPos => char(buffer, n) = At(n) /\ At(n) \in Chars
<1>1. buffer \in Seq(Chars) /\ NulPos = Len(buffer) + 1 /\ Len(buffer) \in Nat
  BY BufferType DEF NulPos
<1>2. "nul" \notin Chars
  BY DEF Chars
<1> QED
  BY <1>1, <1>2 DEF At, char

\* A loop of the parser ends, at the first character that stops it.
LEMMA ScanEnds ==
  ASSUME ParseTypeOK, NEW n \in 1..NulPos, NEW stop, "nul" \in stop
  PROVE  scan(n, stop) # {}
<1> DEFINE T == {m \in n..NulPos : At(m) \in stop}
<1>1. NulPos \in Nat
  BY BufferType
<1>2. At(NulPos) \in stop
  BY <1>1 DEF At
<1>3. T \subseteq Nat /\ T # {}
  BY <1>1, <1>2
<1> HIDE DEF T
<1>4. PICK m \in T : \A o \in T : m <= o
  BY <1>3, LeastOf
<1>5. m \in n..NulPos /\ At(m) \in stop
  BY DEF T
<1>6. ASSUME NEW o \in n..(m - 1) PROVE At(o) \notin stop
  <2>1. o \in n..NulPos /\ ~(m <= o)
    BY <1>1, <1>5
  <2> QED
    BY <1>4, <2>1 DEF T
<1> QED
  BY <1>5, <1>6 DEF scan

LEMMA ScanIs ==
  ASSUME ParseTypeOK, NEW n \in 1..NulPos, NEW stop, NEW m \in scan(n, stop)
  PROVE  /\ m \in 1..NulPos /\ n <= m /\ At(m) \in stop
         /\ \A o \in n..(m - 1) : o \in 1..NulPos /\ o # NulPos /\ At(o) \notin stop
BY BufferType DEF scan

\* skip_whitespace passes over blanks only.
LEMMA SkipIs ==
  ASSUME ParseTypeOK, NEW n \in 1..NulPos, NEW m \in skip_whitespace(n)
  PROVE  /\ m \in 1..NulPos /\ n <= m /\ At(m) # "sp"
         /\ \A o \in n..(m - 1) : At(o) = "sp" /\ char(buffer, o) = "sp"
<1>1. /\ m \in 1..NulPos /\ n <= m /\ At(m) \in {"nl", "q", "c", "nul"}
      /\ \A o \in n..(m - 1) : o \in 1..NulPos /\ o # NulPos /\ At(o) \notin {"nl", "q", "c", "nul"}
  BY ScanIs DEF skip_whitespace
<1>2. ASSUME NEW o \in n..(m - 1) PROVE At(o) = "sp" /\ char(buffer, o) = "sp"
  BY <1>1, CharAt DEF Chars
<1> QED
  BY <1>1, <1>2

\* Between arguments nothing happens to the automaton either.
LEMMA SkipSame ==
  ASSUME ParseTypeOK, NEW n \in 1..NulPos, NEW m \in Nat, n <= m,
         \A o \in n..(m - 1) : char(buffer, o) = "sp", after(n - 1).mode = "gap"
  PROVE  Same(after(m - 1), after(n - 1))
<1>1. n \in Nat \ {0}
  BY BufferType
<1>2. \A o \in n..(m - 1) : Keeps("gap", char(buffer, o))
  BY DEF Keeps
<1> QED
  BY <1>1, <1>2, Stays DEF after

\* A word that a blank ends is an argument; then there are blanks.
LEMMA SkipWithin ==
  ASSUME ParseTypeOK, NEW n \in 1..NulPos, Within(n), NEW m \in skip_whitespace(n)
  PROVE  /\ Within(m)
         /\ At(m) \notin {"nl", "nul"} => after(m - 1).mode = "gap"
<1>0. /\ m \in 1..NulPos /\ n <= m /\ At(m) # "sp" /\ NulPos \in Nat
      /\ \A o \in n..(m - 1) : At(o) = "sp" /\ char(buffer, o) = "sp"
  BY SkipIs, BufferType
<1>1. CASE after(n - 1).mode = "gap"
  <2>1. Same(after(m - 1), after(n - 1))
    BY <1>0, <1>1, SkipSame
  <2> QED
    BY <1>1, <2>1 DEF Within, Same
<1>2. CASE after(n - 1).mode # "gap" /\ At(n) = "sp"
  <2>1. after(n - 1).mode = "word" /\ arg(after(n - 1), n) = args /\ after(n - 1).lines = directives
    BY <1>2 DEF Within
  <2>2. n + 1 \in 1..NulPos /\ n \in Nat \ {0} /\ n - 1 \in Nat /\ (n + 1) - 1 = n /\ n + 1 <= m
    BY <1>0, <1>2, BufferType
  <2>3. char(buffer, n) = "sp"
    BY <1>0, <2>2
  <2>4. after(n).mode = "gap" /\ after(n).line = args /\ after(n).lines = directives
    BY <2>1, <2>2, <2>3, After, OneRead
  <2>5. Same(after(m - 1), after((n + 1) - 1))
    <3>1. \A o \in (n + 1)..(m - 1) : char(buffer, o) = "sp"
      BY <1>0
    <3> QED
      BY <1>0, <2>2, <2>4, <3>1, SkipSame
  <2> QED
    BY <2>2, <2>4, <2>5 DEF Within, Same
<1>3. CASE after(n - 1).mode # "gap" /\ At(n) # "sp"
  <2>1. At(n) \in {"nl", "nul"}
    BY <1>3 DEF Within
  <2>2. m = n
    BY <2>1, ScanHere DEF skip_whitespace
  <2> QED
    BY <2>1, <2>2
<1> QED
  BY <1>1, <1>2, <1>3

\* The argument that parse_line takes at n is the one that the automaton reads there, if
\* every quote up to e is closed on its line.
LEMMA ArgRead ==
  ASSUME ParseTypeOK, NEW n \in 1..NulPos, NEW e \in 1..NulPos, Closed(e), n <= e,
         At(n) \notin {"sp", "nl", "nul"}, NEW a \in next_arg(n),
         after(n - 1).mode = "gap", after(n - 1).line = args, after(n - 1).lines = directives
  PROVE  /\ a[3] \in 1..NulPos /\ n <= a[3] /\ a[3] <= e
         /\ \A o \in n..(a[3] - 1) : At(o) # "nl"
         /\ after(a[3] - 1).lines = directives
         /\ \/ /\ after(a[3] - 1).mode = "gap"
               /\ after(a[3] - 1).line = Append(args, <<a[1], a[2] - a[1]>>)
            \/ /\ after(a[3] - 1).mode = "word"
               /\ arg(after(a[3] - 1), a[3]) = Append(args, <<a[1], a[2] - a[1]>>)
               /\ At(a[3]) \in {"sp", "nl", "nul"}
<1>0. /\ NulPos \in Nat /\ n \in Nat \ {0} /\ n - 1 \in Nat /\ e \in Nat \ {0}
      /\ n # NulPos /\ n + 1 \in 1..NulPos /\ n + 1 \in Nat \ {0} /\ (n + 1) - 1 = n
  BY BufferType, CharAt
<1>a. char(buffer, n) = At(n) /\ At(n) \in Chars /\ n # e /\ n + 1 <= e
  <2>1. char(buffer, n) = At(n) /\ At(n) \in Chars
    BY <1>0, CharAt
  <2>2. n # e
    BY <2>1 DEF Closed
  <2> QED
    BY <1>0, <2>1, <2>2
<1>b. after(n) = read(after(n - 1), n, char(buffer, n)) /\ after(n - 1) \in State
  BY <1>0, After
<1>1. CASE At(n) = "q"
  <2>1. PICK m \in scan(n + 1, {"q", "nul"}) : At(m) = "q" /\ a = <<n + 1, m, m + 1>>
    BY <1>1 DEF next_arg, quoted_arg
  <2>2. /\ m \in 1..NulPos /\ n + 1 <= m
        /\ \A o \in (n + 1)..(m - 1) : o \in 1..NulPos /\ o # NulPos /\ At(o) \notin {"q", "nul"}
    BY <1>0, ScanIs
  <2>3. m # NulPos /\ char(buffer, m) = "q" /\ m + 1 \in 1..NulPos /\ m \in Nat \ {0} /\ m - 1 \in Nat
    BY <1>0, <2>1, <2>2, CharAt
  <2>4. after(n).mode = "quoted" /\ after(n).from = n + 1 /\ after(n).line = args
        /\ after(n).lines = directives
    BY <1>0, <1>a, <1>b, <1>1, OneRead
  <2>5. ASSUME NEW o \in Nat, n + 1 <= o, o <= m PROVE Same(after(o - 1), after(n))
    <3>1. ASSUME NEW i \in (n + 1)..(o - 1) PROVE Keeps("quoted", char(buffer, i))
      <4>1. i \in (n + 1)..(m - 1)
        BY <2>2, <2>5, <1>0
      <4>2. char(buffer, i) # "q"
        BY <2>2, <4>1, CharAt
      <4> QED
        BY <4>2 DEF Keeps
    <3>2. Readings(buffer)[(n + 1) - 1].mode = "quoted"
      BY <1>0, <2>4 DEF after
    <3>3. Same(Readings(buffer)[o - 1], Readings(buffer)[(n + 1) - 1])
      BY <1>0, <2>5, <3>1, <3>2, Stays
    <3> QED
      BY <1>0, <3>3 DEF after
  \* A newline before the closing quote would be remembered up to e.
  <2>6. ASSUME NEW o \in Nat, n + 1 <= o, o <= m, o <= e, char(buffer, o) = "nl" PROVE FALSE
    <3>1. after(o - 1).mode = "quoted"
      BY <2>4, <2>5, <2>6 DEF Same
    <3>2. o \in Nat \ {0} /\ o - 1 \in Nat
      BY <1>0, <2>6
    <3>3. after(o).crossed
      BY <2>6, <3>1, <3>2, After, OneCrossed
    <3>4. after(e).crossed
      BY <1>0, <2>6, <3>3, CrossedStays DEF after
    <3> QED
      BY <3>4 DEF Closed
  <2>7. ~(e <= m)
    BY <1>0, <1>a, <2>6 DEF Closed
  <2>8. ASSUME NEW o \in n..m PROVE At(o) # "nl"
    <3>1. SUFFICES ASSUME At(o) = "nl" PROVE FALSE
      OBVIOUS
    <3>2. o # n /\ o \in Nat /\ n + 1 <= o /\ o <= m /\ o <= e /\ o \in 1..NulPos
      BY <1>0, <1>1, <2>2, <2>7, <3>1
    <3>3. char(buffer, o) = "nl"
      BY <3>1, <3>2, CharAt
    <3> QED
      BY <2>6, <3>2, <3>3
  <2>9. Same(after(m - 1), after(n))
    BY <2>2, <2>3, <2>5
  <2>10. after(m).mode = "gap" /\ after(m).line = arg(after(m - 1), m) /\ after(m).lines = directives
    <3>1. after(m) = read(after(m - 1), m, "q") /\ after(m - 1) \in State
      BY <2>3, After
    <3>2. after(m - 1).mode = "quoted" /\ after(m - 1).lines = directives
      BY <2>4, <2>9 DEF Same
    <3> QED
      BY <2>3, <3>1, <3>2, OneRead
  <2>11. arg(after(m - 1), m) = Append(args, <<n + 1, m - (n + 1)>>)
    BY <2>4, <2>9 DEF Same, arg
  <2>12. a[1] = n + 1 /\ a[2] = m /\ a[3] = m + 1 /\ a[3] - 1 = m
    BY <2>1, <2>3
  <2>13. m + 1 <= e /\ n <= m + 1
    BY <1>0, <2>2, <2>3, <2>7
  <2> QED
    BY <2>3, <2>8, <2>10, <2>11, <2>12, <2>13
<1>2. CASE At(n) # "q"
  <2>1. PICK m \in scan(n, {"sp", "nl", "nul"}) : a = <<n, m, m>>
    BY <1>2 DEF next_arg, bare_arg
  <2>2. /\ m \in 1..NulPos /\ n <= m /\ At(m) \in {"sp", "nl", "nul"}
        /\ \A o \in n..(m - 1) : o \in 1..NulPos /\ o # NulPos /\ At(o) \notin {"sp", "nl", "nul"}
    BY ScanIs
  <2>3. m # n /\ n + 1 <= m /\ m \in Nat \ {0}
    BY <1>0, <2>2
  <2>4. after(n).mode = "word" /\ after(n).from = n /\ after(n).line = args
        /\ after(n).lines = directives
    <3>1. char(buffer, n) = "c"
      BY <1>a, <1>2 DEF Chars
    <3> QED
      BY <1>0, <1>b, <3>1, OneRead
  <2>5. Same(after(m - 1), after(n))
    <3>1. ASSUME NEW i \in (n + 1)..(m - 1) PROVE Keeps("word", char(buffer, i))
      <4>1. i \in n..(m - 1)
        BY <1>0, <2>3
      <4>2. char(buffer, i) \notin {"sp", "nl"}
        BY <2>2, <4>1, CharAt
      <4> QED
        BY <4>2 DEF Keeps
    <3>2. Readings(buffer)[(n + 1) - 1].mode = "word"
      BY <1>0, <2>4 DEF after
    <3>3. Same(Readings(buffer)[m - 1], Readings(buffer)[(n + 1) - 1])
      BY <1>0, <2>3, <3>1, <3>2, Stays
    <3> QED
      BY <1>0, <3>3 DEF after
  <2>6. m <= e
    <3>1. SUFFICES ASSUME ~(m <= e) PROVE FALSE
      OBVIOUS
    <3>2. e \in n..(m - 1)
      BY <1>0, <2>2, <3>1
    <3>3. char(buffer, e) # "nl"
      BY <2>2, <3>2, CharAt
    <3> QED
      BY <3>3 DEF Closed
  <2>7. arg(after(m - 1), m) = Append(args, <<n, m - n>>)
    BY <2>4, <2>5 DEF Same, arg
  <2>8. a[1] = n /\ a[2] = m /\ a[3] = m
    BY <2>1
  <2>9. after(m - 1).mode = "word" /\ after(m - 1).lines = directives
    BY <2>4, <2>5 DEF Same
  <2> QED
    BY <2>2, <2>6, <2>7, <2>8, <2>9
<1> QED
  BY <1>1, <1>2

\* A line that begins before e does not go past it.
LEMMA UpTo ==
  ASSUME ParseTypeOK, NEW e \in 1..NulPos, Closed(e), NEW n \in 1..NulPos, NEW m \in 1..NulPos,
         n <= e, \A o \in n..(m - 1) : At(o) # "nl"
  PROVE  m <= e
<1>1. SUFFICES ASSUME ~(m <= e) PROVE FALSE
  OBVIOUS
<1>2. e \in n..(m - 1) /\ e # NulPos
  BY <1>1, BufferType
<1> QED
  BY <1>2, CharAt DEF Closed

\* The end of a line adds it to the lines.
LEMMA LineEnds ==
  ASSUME ParseTypeOK, NEW n \in 1..NulPos, Within(n), At(n) \in {"nl", "nul"}, args # << >>
  PROVE  after(n).mode = "gap" /\ after(n).line = << >> /\ after(n).lines = Append(directives, args)
<1>1. n \in Nat \ {0} /\ n - 1 \in Nat
  BY BufferType
<1>2. char(buffer, n) = "nl"
  BY CharAt
<1>3. after(n) = read(after(n - 1), n, "nl") /\ after(n - 1) \in State
  BY <1>1, <1>2, After
<1>4. close(after(n - 1), args) = Append(after(n - 1).lines, args)
  BY DEF close
<1>5. after(n - 1).lines = directives
  BY DEF Within
<1>6. CASE after(n - 1).mode = "gap"
  <2>1. after(n - 1).line = args
    BY <1>6 DEF Within
  <2>2. /\ after(n).mode = "gap" /\ after(n).line = << >>
        /\ after(n).lines = close(after(n - 1), after(n - 1).line)
    BY <1>1, <1>3, <1>6, OneRead
  <2> QED
    BY <1>4, <1>5, <2>1, <2>2, Zenon
<1>7. CASE after(n - 1).mode = "word"
  <2>1. arg(after(n - 1), n) = args
    BY <1>7 DEF Within
  <2>2. /\ after(n).mode = "gap" /\ after(n).line = << >>
        /\ after(n).lines = close(after(n - 1), arg(after(n - 1), n))
    BY <1>1, <1>3, <1>7, OneRead
  <2> QED
    BY <1>4, <1>5, <2>1, <2>2, Zenon
<1> QED
  BY <1>6, <1>7 DEF Within

\* A newline between lines adds nothing.
LEMMA BlankEnds ==
  ASSUME ParseTypeOK, NEW n \in 1..NulPos, Between(n - 1), At(n) \in {"nl", "nul"}
  PROVE  Between(n)
<1>1. n \in Nat \ {0} /\ n - 1 \in Nat
  BY BufferType
<1>2. char(buffer, n) = "nl"
  BY CharAt
<1>3. after(n) = read(after(n - 1), n, "nl") /\ after(n - 1) \in State
  BY <1>1, <1>2, After
<1> QED
  BY <1>1, <1>3, OneRead DEF Between, close

\* A list of lines is a prefix of itself, and of what is appended to a list it is a prefix of.
LEMMA PrefixGrows ==
  ASSUME NEW S, NEW T, NEW u \in Seq(S), NEW v \in Seq(T), NEW x \in T
  PROVE  /\ u = v => IsPrefix(u, v)
         /\ IsPrefix(u, v) => IsPrefix(u, Append(v, x))
<1>1. u = v => IsPrefix(u, v)
  BY DEF IsPrefix
<1>2. ASSUME IsPrefix(u, v) PROVE IsPrefix(u, Append(v, x))
  <2> DEFINE w == Append(v, x)
  <2>1. w \in Seq(T) /\ Len(w) = Len(v) + 1 /\ \A i \in 1..Len(v) : w[i] = v[i]
    OBVIOUS
  <2> HIDE DEF w
  <2>2. Len(u) \in Nat /\ Len(v) \in Nat /\ Len(u) <= Len(v) /\ SubSeq(u, 1, Len(u)) = SubSeq(v, 1, Len(u))
    BY <1>2 DEF IsPrefix
  <2>3. SubSeq(w, 1, Len(u)) = SubSeq(v, 1, Len(u))
    BY <2>1, <2>2
  <2> QED
    BY <2>1, <2>2, <2>3 DEF IsPrefix, w
<1> QED
  BY <1>1, <1>2

\* parse_line ends with an argument.
LEMMA LineHasArg ==
  ASSUME ParseTypeOK, HeapInv, pc = "line", NEW n \in skip_whitespace(q), At(n) \in {"nl", "nul"}
  PROVE  args # << >>
<1> SUFFICES ASSUME args = << >> PROVE FALSE
  OBVIOUS
<1>1. At(q) \notin {"sp", "nl", "nul"} /\ q \in 1..NulPos
  BY DEF HeapInv, ParseTypeOK
<1>2. n = q
  BY <1>1, ScanHere, AtRange DEF skip_whitespace, Chars
<1> QED
  BY <1>1, <1>2

\* No step of the parser parts from the automaton.
LEMMA AgreesStep ==
  ASSUME ParseTypeOK, HeapInv, [Next]_vars, NEW e \in 1..NulPos, Closed(e), Agrees(e)
  PROVE  Agrees(e)'
<1>a. UNCHANGED <<file, tail>>
  BY DEF Next, skip_blank_line, start_line, parse_done, parse_arg, line_error, end_line, vars
<1>b. buffer' = buffer /\ NulPos' = NulPos
  BY <1>a DEF NulPos, buffer
<1>c. p \in 1..NulPos /\ q \in 1..NulPos /\ NulPos \in Nat /\ e \in Nat \ {0}
  BY BufferType DEF ParseTypeOK
<1>d. after(e).lines \in Seq(Seq(Nat \X Int)) /\ directives \in Seq(Seq(Span)) /\ args \in Seq(Span)
  BY <1>c, After DEF State, ParseTypeOK
<1>e. ASSUME Has(e), \/ directives' = directives \/ directives' = Append(directives, args)
      PROVE  Has(e)'
  <2>1. IsPrefix(after(e).lines, directives')
    BY <1>d, <1>e, PrefixGrows DEF Has
  <2> QED
    BY <1>b, <2>1 DEF Has, after
<1>f. ASSUME after(e).lines = directives', directives' \in Seq(Seq(Span)) PROVE Has(e)'
  <2>1. IsPrefix(after(e).lines, directives')
    BY <1>d, <1>f DEF IsPrefix
  <2> QED
    BY <1>b, <2>1 DEF Has, after
<1>1. CASE skip_blank_line
  <2>1. PICK m \in scan(p, {"nl", "nul"}) :
          (\A n \in p..(m - 1) : At(n) = "sp") /\ p' = after_line(m)
    BY <1>1 DEF skip_blank_line
  <2>2. pc' = "config" /\ pc = "config" /\ directives' = directives /\ At(p) # "nul"
    BY <1>1 DEF skip_blank_line
  <2>3. /\ m \in 1..NulPos /\ p <= m /\ At(m) \in {"nl", "nul"}
        /\ \A o \in p..(m - 1) : o \in 1..NulPos /\ o # NulPos
    BY <1>c, <2>1, ScanIs
  <2>4. p' = (IF At(m) = "nl" THEN m + 1 ELSE m) /\ p <= p'
    BY <1>c, <2>1, <2>3 DEF after_line
  <2>5. CASE ~(p <= e)
    <3>1. Has(e)' /\ ~(p' <= e)
      BY <1>c, <1>e, <2>2, <2>3, <2>4, <2>5 DEF Agrees
    <3> QED
      BY <2>2, <3>1 DEF Agrees
  <2>6. CASE p <= e
    <3>1. p # NulPos /\ Between(p - 1)
      BY <1>c, <2>2, <2>6, CharAt DEF Agrees
    <3>2. m <= e
      BY <1>c, <2>1, <2>3, <2>6, UpTo
    <3>3. Same(after(m - 1), after(p - 1))
      <4>1. \A o \in p..(m - 1) : char(buffer, o) = "sp"
        BY <2>1, <2>3, CharAt
      <4>2. p \in 1..NulPos /\ m \in Nat /\ p <= m /\ after(p - 1).mode = "gap"
        BY <1>c, <2>3, <3>1, BufferType DEF Between
      <4> QED
        BY <4>1, <4>2, SkipSame
    <3>4. Between(m - 1)
      BY <3>1, <3>3 DEF Between, Same
    <3>5. CASE At(m) = "nl"
      <4>1. Between(m) /\ p' = m + 1 /\ p' - 1 = m
        BY <1>c, <2>3, <2>4, <3>4, <3>5, BlankEnds
      <4>2. Between(p - 1)'
        BY <1>b, <2>2, <4>1 DEF Between, after
      <4>3. CASE p' <= e
        BY <2>2, <4>2, <4>3 DEF Agrees
      <4>4. CASE ~(p' <= e)
        <5>1. m = e
          BY <1>c, <2>3, <3>2, <4>1, <4>4
        <5>2. Has(e)'
          BY <1>d, <1>f, <2>2, <4>1, <5>1 DEF Between
        <5> QED
          BY <2>2, <4>4, <5>2 DEF Agrees
      <4> QED
        BY <4>3, <4>4
    <3>6. CASE At(m) # "nl"
      <4>1. p' = m /\ m = NulPos /\ p' <= e
        BY <1>c, <2>3, <2>4, <3>2, <3>6, CharAt
      <4>2. Between(p - 1)'
        BY <1>b, <2>2, <3>4, <4>1 DEF Between, after
      <4> QED
        BY <2>2, <4>1, <4>2 DEF Agrees
    <3> QED
      BY <3>5, <3>6
  <2> QED
    BY <2>5, <2>6
<1>2. CASE start_line
  <2>1. PICK m \in skip_whitespace(p) : pc' = "line" => q' = m
    BY <1>2 DEF start_line
  <2>2. /\ pc = "config" /\ At(p) # "nul" /\ p' = p /\ args' = args /\ directives' = directives
        /\ pc' \in {"line", "err"}
    BY <1>2 DEF start_line
  <2>3. CASE pc' = "err"
    BY <2>3 DEF Agrees
  <2>4. CASE pc' = "line" /\ ~(p <= e)
    <3>1. Has(e)' /\ ~(p' <= e)
      BY <1>e, <2>2, <2>4 DEF Agrees
    <3> QED
      BY <2>4, <3>1 DEF Agrees
  <2>5. CASE pc' = "line" /\ p <= e
    <3>1. p # NulPos /\ Between(p - 1) /\ args = << >>
      BY <1>c, <2>2, <2>5, CharAt DEF Agrees, HeapInv
    <3>2. /\ m \in 1..NulPos /\ p <= m
          /\ \A o \in p..(m - 1) : At(o) = "sp" /\ char(buffer, o) = "sp"
      BY <1>c, SkipIs
    <3>3. m <= e
      BY <1>c, <2>5, <3>2, UpTo
    <3>4. Same(after(m - 1), after(p - 1))
      <4>1. \A o \in p..(m - 1) : char(buffer, o) = "sp"
        BY <3>2
      <4>2. p \in 1..NulPos /\ m \in Nat /\ p <= m /\ after(p - 1).mode = "gap"
        BY <1>c, <3>1, <3>2, BufferType DEF Between
      <4> QED
        BY <4>1, <4>2, SkipSame
    <3>5. after(m - 1).lines = directives /\ after(m - 1).mode = "gap" /\ after(m - 1).line = args
      BY <3>1, <3>4 DEF Between, Same
    <3>6. Within(q)'
      BY <1>b, <2>1, <2>2, <2>5, <3>5 DEF Within, after
    <3>7. \A n \in p'..(q' - 1) : At(n)' # "nl"
      BY <1>b, <2>1, <2>2, <2>5, <3>2 DEF At
    <3> QED
      BY <2>1, <2>2, <2>5, <3>2, <3>3, <3>6, <3>7 DEF Agrees
  <2> QED
    BY <2>2, <2>3, <2>4, <2>5
<1>3. CASE parse_done
  <2>1. pc = "config" /\ p = NulPos /\ pc' = "ok" /\ directives' = directives
    BY <1>3, <1>c, CharAt DEF parse_done
  <2>2. CASE ~(p <= e)
    <3>1. Has(e)' /\ e # NulPos'
      BY <1>b, <1>c, <1>e, <2>1, <2>2 DEF Agrees
    <3> QED
      BY <2>1, <3>1 DEF Agrees
  <2>3. CASE p <= e
    <3>1. e = NulPos /\ At(e) = "nul"
      BY <1>c, <2>1, <2>3, CharAt
    <3>2. Between(e - 1) \/ Between(e)
      BY <2>1, <2>3, <3>1 DEF Agrees
    <3>3. Between(e)
      BY <1>c, <3>1, <3>2, BlankEnds
    <3>4. Has(e)' /\ after(e)'.lines = directives'
      <4>1. after(e).lines = directives'
        BY <2>1, <3>3 DEF Between
      <4>2. after(e)'.lines = directives'
        BY <1>b, <4>1 DEF after
      <4> QED
        BY <1>d, <1>f, <2>1, <4>1, <4>2
    <3> QED
      BY <2>1, <3>4 DEF Agrees
  <2> QED
    BY <2>2, <2>3
<1>4. CASE parse_arg
  <2>1. PICK n \in skip_whitespace(q) :
          /\ At(n) \notin {"nl", "nul"}
          /\ \E a \in next_arg(n) : args' = Append(args, <<a[1], a[2] - a[1]>>) /\ q' = a[3]
    BY <1>4 DEF parse_arg
  <2>2. PICK a \in next_arg(n) : args' = Append(args, <<a[1], a[2] - a[1]>>) /\ q' = a[3]
    BY <2>1
  <2>3. pc = "line" /\ pc' = "line" /\ p' = p /\ directives' = directives
    BY <1>4 DEF parse_arg
  <2>4. CASE ~(p <= e)
    <3>1. Has(e)' /\ ~(p' <= e)
      BY <1>e, <2>3, <2>4 DEF Agrees
    <3> QED
      BY <2>3, <3>1 DEF Agrees
  <2>5. CASE p <= e
    <3>1. Within(q) /\ p <= q /\ q <= e /\ \A o \in p..(q - 1) : At(o) # "nl"
      BY <2>3, <2>5 DEF Agrees
    <3>2. /\ n \in 1..NulPos /\ q <= n /\ At(n) # "sp"
          /\ \A o \in q..(n - 1) : At(o) = "sp"
      BY <1>c, SkipIs
    <3>3. n <= e
      BY <1>c, <3>1, <3>2, UpTo
    <3>4. Within(n) /\ after(n - 1).mode = "gap"
      BY <1>c, <2>1, <3>1, SkipWithin
    <3>5. after(n - 1).line = args /\ after(n - 1).lines = directives
      BY <3>4 DEF Within
    <3>6. /\ q' \in 1..NulPos /\ n <= q' /\ q' <= e
          /\ \A o \in n..(q' - 1) : At(o) # "nl"
          /\ after(q' - 1).lines = directives
          /\ \/ after(q' - 1).mode = "gap" /\ after(q' - 1).line = args'
             \/ /\ after(q' - 1).mode = "word" /\ arg(after(q' - 1), q') = args'
                /\ At(q') \in {"sp", "nl", "nul"}
      BY <2>1, <2>2, <3>2, <3>3, <3>4, <3>5, ArgRead
    <3>7. Within(q)'
      BY <1>b, <2>3, <3>6 DEF Within, after, At
    <3>8. \A o \in p'..(q' - 1) : At(o)' # "nl"
      <4>1. p \in Nat /\ q \in Nat /\ n \in Nat /\ q' \in Nat
        BY <1>c, <3>2, <3>6
      <4>2. ASSUME NEW r \in Nat, r = q', NEW o \in p..(r - 1) PROVE At(o) # "nl"
        <5>1. o \in p..(q - 1) \/ o \in q..(n - 1) \/ o \in n..(r - 1)
          BY <4>1
        <5> QED
          BY <3>1, <3>2, <3>6, <4>2, <5>1
      <4> QED
        BY <1>b, <2>3, <4>1, <4>2 DEF At
    <3>9. p' <= q'
      BY <1>c, <2>3, <3>1, <3>2, <3>6
    <3> QED
      BY <2>3, <2>5, <3>6, <3>7, <3>8, <3>9 DEF Agrees
  <2> QED
    BY <2>4, <2>5
<1>5. CASE line_error
  BY <1>5 DEF line_error, Agrees
<1>6. CASE end_line
  <2>1. PICK n \in skip_whitespace(q) : At(n) \in {"nl", "nul"}
    BY <1>6 DEF end_line
  <2>2. PICK m \in scan(p, {"nl", "nul"}) : p' = after_line(m)
    BY <1>6 DEF end_line
  <2>3. pc = "line" /\ pc' = "config" /\ directives' = Append(directives, args)
    BY <1>6 DEF end_line
  <2>4. /\ m \in 1..NulPos /\ p <= m /\ At(m) \in {"nl", "nul"}
        /\ \A o \in p..(m - 1) : o \in 1..NulPos /\ o # NulPos /\ At(o) \notin {"nl", "nul"}
    BY <1>c, ScanIs
  <2>5. p' = (IF At(m) = "nl" THEN m + 1 ELSE m) /\ p <= p'
    BY <1>c, <2>2, <2>4 DEF after_line
  <2>6. CASE ~(p <= e)
    <3>1. Has(e)' /\ ~(p' <= e)
      BY <1>c, <1>e, <2>3, <2>4, <2>5, <2>6 DEF Agrees
    <3> QED
      BY <2>3, <3>1 DEF Agrees
  <2>7. CASE p <= e
    <3>1. Within(q) /\ p <= q /\ q <= e /\ \A o \in p..(q - 1) : At(o) # "nl"
      BY <2>3, <2>7 DEF Agrees
    <3>2. n \in 1..NulPos /\ q <= n /\ \A o \in q..(n - 1) : At(o) = "sp"
      BY <1>c, SkipIs
    <3>3. n <= e
      BY <1>c, <3>1, <3>2, UpTo
    <3>4. Within(n) /\ args # << >>
      BY <1>c, <2>1, <2>3, <3>1, SkipWithin, LineHasArg
    \* The newline that parse_config looks for is the one that ended the line.
    <3>5. m = n
      <4>1. ~(n < m)
        BY <1>c, <2>1, <2>4, <3>1, <3>2
      <4>2. ~(m < n)
        <5>1. SUFFICES ASSUME m < n PROVE FALSE
          OBVIOUS
        <5>2. m # NulPos /\ At(m) = "nl"
          BY <1>c, <2>4, <3>2, <5>1, CharAt
        <5>3. m \in p..(q - 1) \/ m \in q..(n - 1)
          BY <1>c, <2>4, <3>1, <3>2, <5>1
        <5> QED
          BY <3>1, <3>2, <5>2, <5>3
      <4> QED
        BY <1>c, <2>4, <3>2, <4>1, <4>2
    <3>6. after(n).mode = "gap" /\ after(n).line = << >> /\ after(n).lines = directives'
      BY <2>1, <2>3, <3>2, <3>4, LineEnds
    <3>7. directives' \in Seq(Seq(Span))
      BY <1>d, <2>3
    <3>8. CASE At(n) = "nl" /\ n + 1 <= e
      <4>1. p' = n + 1 /\ p' - 1 = n /\ p' <= e
        BY <1>c, <2>5, <3>2, <3>5, <3>8
      <4>2. Between(p - 1)'
        BY <1>b, <3>6, <4>1 DEF Between, after
      <4> QED
        BY <2>3, <4>1, <4>2 DEF Agrees
    <3>9. CASE At(n) = "nl" /\ ~(n + 1 <= e)
      <4>1. p' = n + 1 /\ ~(p' <= e) /\ n = e
        BY <1>c, <2>5, <3>2, <3>3, <3>5, <3>9
      <4>2. Has(e)'
        BY <1>f, <3>6, <3>7, <4>1
      <4> QED
        BY <2>3, <4>1, <4>2 DEF Agrees
    <3>10. CASE At(n) # "nl"
      <4>1. p' = n /\ n = NulPos /\ p' <= e
        BY <1>c, <2>1, <2>5, <3>2, <3>3, <3>5, <3>10, CharAt
      <4>2. Between(p)'
        BY <1>b, <3>6, <4>1 DEF Between, after
      <4> QED
        BY <1>b, <2>3, <4>1, <4>2 DEF Agrees
    <3> QED
      BY <3>8, <3>9, <3>10
  <2> QED
    BY <2>6, <2>7
<1>7. CASE UNCHANGED vars
  BY <1>7 DEF vars, Agrees, Between, Within, Has, after, At, NulPos, buffer
<1> QED
  BY <1>1, <1>2, <1>3, <1>4, <1>5, <1>6, <1>7 DEF Next

\* A quote that is open at the NUL was open at a newline, as the automaton sees it.
LEMMA OpenQuote ==
  ASSUME ParseTypeOK, ReadInv, pc = "line", NEW n \in skip_whitespace(q),
         At(n) \notin {"nl", "nul"}, next_arg(n) = {}
  PROVE  after(NulPos).crossed
<1>a. p \in 1..NulPos /\ q \in 1..NulPos /\ NulPos \in Nat \ {0} /\ NulPos \in 1..NulPos
  BY BufferType DEF ParseTypeOK
<1>1. SUFFICES ASSUME ~after(NulPos).crossed PROVE FALSE
  OBVIOUS
<1>2. Closed(NulPos) /\ char(buffer, NulPos) = "nl"
  BY <1>1, <1>a, CharAt DEF Closed
<1>3. Within(q)
  <2>1. Agrees(NulPos) /\ p <= NulPos
    BY <1>a, <1>2 DEF ReadInv
  <2> QED
    BY <2>1 DEF Agrees
<1>4. after(n - 1).mode = "gap" /\ n \in 1..NulPos
  BY <1>a, <1>3, SkipWithin, SkipIs
<1>5. At(n) = "q"
  <2>1. scan(n, {"sp", "nl", "nul"}) # {}
    BY <1>4, ScanEnds
  <2> QED
    BY <2>1 DEF next_arg, bare_arg
<1>6. /\ n \in Nat \ {0} /\ n - 1 \in Nat /\ n # NulPos /\ n + 1 \in 1..NulPos
      /\ n + 1 \in Nat \ {0} /\ (n + 1) - 1 = n
  BY <1>a, <1>4, <1>5, BufferType, CharAt
<1>7. PICK m : m \in scan(n + 1, {"q", "nul"})
  BY <1>6, ScanEnds
<1>8. /\ m \in 1..NulPos /\ At(m) \in {"q", "nul"}
      /\ \A o \in (n + 1)..(m - 1) : o \in 1..NulPos /\ o # NulPos /\ At(o) \notin {"q", "nul"}
  BY <1>6, <1>7, ScanIs
<1>9. m = NulPos
  <2>1. At(m) # "q"
    BY <1>5, <1>7 DEF next_arg, quoted_arg
  <2> QED
    BY <1>8, <2>1, CharAt
<1>10. after(n).mode = "quoted"
  <2>1. char(buffer, n) = "q"
    BY <1>4, <1>5, <1>6, CharAt
  <2> QED
    BY <1>4, <1>6, <2>1, After, OneRead
<1>11. after(NulPos - 1).mode = "quoted"
  <2>1. ASSUME NEW o \in (n + 1)..(NulPos - 1) PROVE Keeps("quoted", char(buffer, o))
    <3>1. char(buffer, o) # "q"
      BY <1>8, <1>9, CharAt
    <3> QED
      BY <3>1 DEF Keeps
  <2>2. Readings(buffer)[(n + 1) - 1].mode = "quoted" /\ n + 1 <= NulPos /\ NulPos \in Nat
    BY <1>a, <1>6, <1>10 DEF after
  <2>3. Same(Readings(buffer)[NulPos - 1], Readings(buffer)[(n + 1) - 1])
    BY <1>6, <2>1, <2>2, Stays
  <2> QED
    BY <2>2, <2>3 DEF Same, after
<1>12. after(NulPos).crossed
  <2>1. NulPos - 1 \in Nat
    BY <1>a
  <2> QED
    BY <1>a, <1>2, <1>11, <2>1, After, OneCrossed
<1> QED
  BY <1>1, <1>12

\* The parser starts as the automaton does.
LEMMA ReadInvInit == Init => ReadInv
<1> SUFFICES ASSUME Init PROVE ReadInv
  OBVIOUS
<1>1. NulPos \in Nat \ {0} /\ pc = "config" /\ p = 1 /\ directives = << >>
  BY ParseInvInit, BufferType DEF ParseInv, Init
<1>2. Between(0)
  BY <1>1, After DEF Between, start
<1>3. ASSUME NEW e \in 1..NulPos PROVE Agrees(e)
  <2>1. p <= e /\ p - 1 = 0
    BY <1>1
  <2> QED
    BY <1>1, <1>2, <2>1 DEF Agrees
<1> QED
  BY <1>1, <1>3 DEF ReadInv

LEMMA ReadInvStep == ParseInv /\ ReadInv /\ [Next]_vars => ReadInv'
<1> SUFFICES ASSUME ParseTypeOK, HeapInv, ReadInv, [Next]_vars PROVE ReadInv'
  BY DEF ParseInv
<1>a. UNCHANGED <<file, tail>>
  BY DEF Next, skip_blank_line, start_line, parse_done, parse_arg, line_error, end_line, vars
<1>b. buffer' = buffer /\ NulPos' = NulPos
  BY <1>a DEF NulPos, buffer
<1>1. ASSUME NEW e \in 1..NulPos', Closed(e)' PROVE Agrees(e)'
  <2>1. e \in 1..NulPos /\ Closed(e)
    BY <1>b, <1>1 DEF Closed, after
  <2>2. Agrees(e)
    BY <2>1 DEF ReadInv
  <2> QED
    BY <2>1, <2>2, AgreesStep
<1>2. ASSUME pc' = "err" PROVE oom' \/ after(NulPos)'.crossed
  <2>1. CASE start_line
    BY <1>2, <2>1 DEF start_line
  <2>2. CASE line_error
    <3>1. PICK n \in skip_whitespace(q) : At(n) \notin {"nl", "nul"} /\ oom' = (next_arg(n) # {})
      BY <2>2 DEF line_error
    <3>2. pc = "line"
      BY <2>2 DEF line_error
    <3>3. CASE next_arg(n) = {}
      <4>1. after(NulPos).crossed
        BY <3>1, <3>2, <3>3, OpenQuote
      <4> QED
        BY <1>b, <4>1 DEF after
    <3>4. CASE next_arg(n) # {}
      BY <3>1, <3>4
    <3> QED
      BY <3>3, <3>4
  <2>3. CASE UNCHANGED vars
    <3>1. pc = "err" /\ oom' = oom
      BY <1>2, <2>3 DEF vars
    <3>2. oom \/ after(NulPos).crossed
      BY <3>1 DEF ReadInv
    <3> QED
      BY <1>b, <3>1, <3>2 DEF after
  <2>4. CASE skip_blank_line \/ parse_done \/ parse_arg \/ end_line
    BY <1>2, <2>4 DEF skip_blank_line, parse_done, parse_arg, end_line
  <2> QED
    BY <2>1, <2>2, <2>3, <2>4 DEF Next
<1> QED
  BY <1>1, <1>2 DEF ReadInv

\* ReadInv holds in every state of the parser.
LEMMA ReadInductive == Spec => [](ParseInv /\ ReadInv)
BY ParseInvInit, ParseInvStep, ReadInvInit, ReadInvStep, PTL DEF Spec

\* For every file, and every memory behind it, parse_config returns exactly the directives
\* and arguments that a single pass over the text finds, if every quote is closed on its
\* line.
THEOREM ParserIsAutomaton == Spec => []ParsesAsAutomaton
<1>1. ParseInv /\ ReadInv => ParsesAsAutomaton
  <2>1. SUFFICES ASSUME ParseTypeOK, ReadInv, pc = "ok", ~Automaton(buffer).crossed
                 PROVE  directives = Automaton(buffer).lines
    BY DEF ParseInv, ParsesAsAutomaton
  <2>2. Automaton(buffer) = after(NulPos)
    BY DEF Automaton, after, NulPos
  <2>3. NulPos \in 1..NulPos
    BY <2>1, BufferType
  <2>4. Closed(NulPos)
    BY <2>1, <2>2, <2>3, CharAt DEF Closed
  <2>5. Agrees(NulPos)
    BY <2>1, <2>3, <2>4 DEF ReadInv
  <2>6. after(NulPos).lines = directives
    BY <2>1, <2>5 DEF Agrees
  <2> QED
    BY <2>2, <2>6
<1> QED
  BY <1>1, ReadInductive, PTL

\* parse_config returns an error only when memory ran out or some quote is not closed on
\* its line.
THEOREM FailuresHaveReasons == Spec => []FailsForAReason
<1>1. ReadInv => FailsForAReason
  BY DEF ReadInv, FailsForAReason, Automaton, after, NulPos
<1> QED
  BY <1>1, ReadInductive, PTL

\* Over a text and over one that continues it the automaton goes through the same states.
LEMMA SameBeginning ==
  ASSUME NEW s \in Seq(Chars), NEW t \in Seq(Chars)
  PROVE  \A k \in Nat : k <= Len(s) => Readings(s)[k] = Readings(s \o t)[k]
<1> DEFINE a == Readings(s)  b == Readings(s \o t)
           G == {k \in Nat : k <= Len(s) => a[k] = b[k]}
<1>1. /\ a[0] = b[0]
      /\ \A k \in Nat \ {0} : a[k] = read(a[k - 1], k, char(s, k))
      /\ \A k \in Nat \ {0} : b[k] = read(b[k - 1], k, char(s \o t, k))
  BY ReadingsDef
<1> HIDE DEF a, b
<1>2. 0 \in G
  BY <1>1
<1>3. ASSUME NEW k \in Nat, k \in G PROVE k + 1 \in G
  <2>1. SUFFICES ASSUME k + 1 <= Len(s) PROVE a[k + 1] = b[k + 1]
    OBVIOUS
  <2>2. k + 1 \in Nat \ {0} /\ (k + 1) - 1 = k /\ k <= Len(s)
    BY <2>1
  <2>3. char(s, k + 1) = char(s \o t, k + 1)
    BY <2>1, <2>2 DEF char
  <2>4. a[k] = b[k]
    BY <1>3, <2>2
  <2> QED
    BY <1>1, <2>2, <2>3, <2>4
<1> HIDE DEF G
<1>4. \A k \in Nat : k \in G
  BY <1>2, <1>3, Induction
<1> QED
  BY <1>4 DEF G, a, b

\* Whatever lies in memory behind a file that ends with a newline and closes its quotes,
\* the directives of the file come first and unchanged.
THEOREM TailsOnlyAppend == Spec => []TailOnlyAppends
<1>1. ParseInv /\ ReadInv => TailOnlyAppends
  <2> DEFINE l == Len(file)
             r == Readings(file)
  <2>1. SUFFICES ASSUME ParseTypeOK, ReadInv, pc = "ok", file # << >>, Last(file) = "nl",
                        ~Automaton(file).crossed
                 PROVE  IsPrefix(Automaton(file).lines, directives)
    BY DEF ParseInv, TailOnlyAppends
  <2>2. file \in Seq(Chars) /\ tail \in Seq(Chars)
    BY <2>1, ParseAssumption DEF ParseTypeOK
  <2>3. l \in Nat \ {0} /\ l - 1 \in Nat /\ l + 1 \in Nat \ {0} /\ (l + 1) - 1 = l /\ l <= l + 1
    BY <2>1, <2>2
  <2>4. l \in 1..NulPos /\ char(buffer, l) = "nl" /\ char(file, l) = "nl" /\ char(file, l + 1) = "nl"
    BY <2>1, <2>2, <2>3 DEF NulPos, buffer, char, Last
  <2>5. r[l] = after(l)
    BY <2>2, <2>3, SameBeginning DEF after, buffer
  <2>6. /\ r \in [Nat -> State]
        /\ \A n \in Nat \ {0} : r[n] = read(r[n - 1], n, char(file, n))
    BY ReadingsDef
  <2>7. Automaton(file) = r[l + 1]
    BY DEF Automaton
  <2>8. ~r[l].crossed
    BY <2>1, <2>3, <2>7, CrossedStays
  <2> HIDE DEF l, r
  <2>9. r[l].mode = "gap" /\ r[l].line = << >>
    <3>1. r[l] = read(r[l - 1], l, "nl") /\ r[l - 1] \in State
      BY <2>3, <2>4, <2>6
    <3>2. r[l - 1].mode # "quoted"
      BY <2>3, <2>8, <3>1, OneCrossed
    <3>3. r[l - 1].mode \in {"gap", "word"}
      BY <3>1, <3>2 DEF State
    <3> QED
      BY <2>3, <3>1, <3>3, OneRead
  <2>10. r[l + 1].lines = r[l].lines
    <3>1. r[l + 1] = read(r[l], l + 1, "nl") /\ r[l] \in State
      BY <2>3, <2>4, <2>6
    <3>2. r[l + 1].lines = close(r[l], r[l].line)
      BY <2>3, <2>9, <3>1, OneRead
    <3> QED
      BY <2>9, <3>2 DEF close
  <2>11. Closed(l)
    BY <2>4, <2>5, <2>8 DEF Closed
  <2>12. IsPrefix(after(l).lines, directives)
    BY <2>1, <2>4, <2>11 DEF ReadInv, Agrees, Has
  <2> QED
    BY <2>5, <2>7, <2>10, <2>12
<1> QED
  BY <1>1, ReadInductive, PTL

=============================================================================
