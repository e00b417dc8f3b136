------------------------------ MODULE InitTable ------------------------------
(***************************************************************************)
(* The name tables of init (init/src/table.c, init/include/init/table.h)   *)
(* and the evaluation of configuration arguments (eval and eval_entry of   *)
(* init/src/interpreter.c).                                                *)
(*                                                                         *)
(* A name or an argument is a sequence of text segments: just enough of    *)
(* its spelling to tell when one name begins with another ("env" and       *)
(* "enable" share the segment "en").  The '$' that marks a reference to a  *)
(* table is a segment of its own.                                          *)
(*                                                                         *)
(* A lookup or an evaluation is the SET of its results: one element when   *)
(* the C function returns LOOKUP_FOUND or EVAL_OK, empty for every error   *)
(* code (no caller tells the error codes apart).                           *)
(***************************************************************************)
EXTENDS Naturals, Sequences, SequencesExt

TTY_TEXT  == 1
TTY_GFX   == 2
OPT_CLEAR == 1

g_values ==
  << [name |-> <<"TTY_", "TEXT_MODE">>, type |-> "int", value |-> TTY_TEXT],
     [name |-> <<"TTY_", "GFX_MODE">>,  type |-> "int", value |-> TTY_GFX],
     [name |-> <<"OPT_CLEAR">>,         type |-> "int", value |-> OPT_CLEAR] >>

g_directives ==
  << [name |-> <<"en", "v">>,    type |-> "function", value |-> "cb_env"],
     [name |-> <<"tty">>,        type |-> "function", value |-> "cb_tty"],
     [name |-> <<"en", "able">>, type |-> "function", value |-> "cb_enable"] >>

-----------------------------------------------------------------------------

\* strncmp(name, entry.name, namelen) = 0: name begins entry.name.  The
\* parser's arguments hold no NUL, so no shorter entry can match.
matches(name, entry) == IsPrefix(name, entry.name)

\* The first entry of the wanted type whose name begins with the one given.
table_lookup(table, name, type) ==
  LET found == {n \in DOMAIN table : /\ matches(name, table[n])
                                     /\ table[n].type = type \/ type = "any"}
  IN  {table[n] : n \in {m \in found : \A o \in found : m <= o}}

-----------------------------------------------------------------------------

is_reference(value) == value # << >> /\ value[1] = "$"

\* eval without a table, as eval_entry calls it: a reference is EVAL_NOTABLE,
\* and there is no integer literal ("TODO: add int type").
eval_literal(value, exp_type) ==
  IF ~is_reference(value) /\ exp_type = "string" THEN {value} ELSE {}

eval_entry(e) ==
  CASE e.type = "string" -> eval_literal(e.value, e.type)
    [] e.type = "int"    -> {e.value}
    [] OTHER             -> {}

eval(value, table, exp_type) ==
  IF is_reference(value)
    THEN UNION {eval_entry(e) : e \in table_lookup(table, Tail(value), exp_type)}
    ELSE eval_literal(value, exp_type)

eval_string(value) == eval(value, g_values, "string")
eval_int(value)    == eval(value, g_values, "int")

\* interpret_directive: the callback that a directive's first argument names.
callback(d) ==
  IF d = << >> THEN {}
  ELSE {e.value : e \in table_lookup(g_directives, d[1], "function")}
=============================================================================
