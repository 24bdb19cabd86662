------------------------------- MODULE Options -------------------------------
(***************************************************************************)
(* The options database (options.c) as main() uses it: the command line,   *)
(* the configuration files it names, to any depth, and -dumpconfig, whose  *)
(* file a second run may be given with -config.                            *)
(*                                                                         *)
(* A word is a string; Parses and Shows say what strtol(), strtod() and     *)
(* printf() make of it.  A line of a file is its words; a word with blanks *)
(* in it, which only a shell can pass, comes apart in a file (Pieces).     *)
(* Directories are left out.                                               *)
(***************************************************************************)
EXTENDS Integers, Sequences

CONSTANTS
  Options,       \* the registered options, by name
  Order,         \* their names in the order of registration
  CommandLines,  \* what the program may be called with, argv[0] left out
  Dashed,        \* the words that begin with "-",
  Negative,      \* those of them that go on with a digit
  Parses, Shows,  \* [class -> [word -> value]], [class -> [value -> word]]
  Pieces,        \* what a file makes of the words that hold blanks
  Files,         \* the configuration files there are
  MaxOpen        \* file descriptors

VARIABLES
  odb,           \* the variables the options are bound to
  stack,         \* the calls of __opt_process_options(), innermost first
  files,         \* the files, the dumped one among them
  exec_index,    \* the first word of the simulated program
  verdict,       \* of the run: "options", then how main() goes on
  run, saved     \* the first run or the second; what was dumped in the first

optVars == <<odb, stack, files, exec_index, verdict, run, saved>>

NULL == "NULL"
Numeric == {"int", "float", "double"}

\* bind_to_enum(), bind_to_str(): by position, or by a table of values.
ValueAt(o, k) == IF o.eval = <<>> THEN k - 1 ELSE o.eval[k]
bind_to_enum(o, w) ==
  LET hits == {k \in DOMAIN o.emap : o.emap[k] = w}
  IN  {ValueAt(o, k) : k \in {j \in hits : \A l \in hits : j <= l}}
bind_to_str(o, val) ==
  LET hits == {k \in DOMAIN o.emap : ValueAt(o, k) = val}
  IN  {o.emap[k] : k \in {j \in hits : \A l \in hits : j <= l}}

\* A freshly registered variable: the default where there is one, whatever it
\* was, zero here, in the rest of an array.
Bound(o, defs, none) ==
  [v |-> [k \in 1 .. o.nvars |-> IF k <= Len(defs) THEN defs[k] ELSE none],
   n |-> Len(defs)]
opt_reg_int(o) == Bound(o, o.def, 0)
opt_reg_float(o) == Bound(o, o.def, 0)
opt_reg_enum(o) ==
  Bound(o, [k \in DOMAIN o.def |-> CHOOSE v \in bind_to_enum(o, o.def[k]) : TRUE], 0)
opt_reg_flag(o) == Bound(o, o.def, 0)
opt_reg_string(o) == Bound(o, o.def, NULL)
Registered(o) ==
  CASE o.oc \in {"int", "uint"} -> opt_reg_int(o)
    [] o.oc \in {"float", "double"} -> opt_reg_float(o)
    [] o.oc = "enum" -> opt_reg_enum(o)
    [] o.oc = "flag" -> opt_reg_flag(o)
    [] o.oc = "string" -> opt_reg_string(o)

-----------------------------------------------------------------------------
(* process_option().                                                       *)

IsArgument(o, w) == w \notin Dashed \/ (o.oc \in Numeric /\ w \in Negative)

\* The value of a word, or none.
ReadWord(o, w) ==
  CASE o.oc \in {"enum", "flag"} -> bind_to_enum(o, w)
    [] o.oc = "string" -> {w}
    [] o.oc = "float" -> {v \in {Parses.float[u] : u \in {w} \cap DOMAIN Parses.float} : v > 0}
    [] OTHER -> {Parses[o.oc][u] : u \in {w} \cap DOMAIN Parses[o.oc]}

\* How many of the words from i on an option with room for m takes: those up to
\* the next option, and for a flag up to the next word that is no truth value.
RECURSIVE Taken(_, _, _, _)
Taken(o, words, i, m) ==
  IF m = 0 \/ i > Len(words) THEN 0
  ELSE IF ~IsArgument(o, words[i]) \/ (o.oc = "flag" /\ ReadWord(o, words[i]) = {}) THEN 0
  ELSE 1 + Taken(o, words, i + 1, m - 1)

\* The variable after the option, and the words used up; "fatal" otherwise.
\* A flag with nothing to read is true, and leaves the word to others.
ProcessOption(o, val, words, i) ==
  LET first == IF o.accrue THEN val.n ELSE 0
      k == Taken(o, words, i, IF o.accrue THEN 1 ELSE o.nvars)
      args == [j \in 1 .. k |-> words[i + j - 1]]
      Read(j) == CHOOSE v \in ReadWord(o, args[j]) : TRUE
      bare == i > Len(words) \/ words[i] \in Dashed
      stuck == o.oc = "flag" /\ ~bare /\ k < (IF o.accrue THEN 1 ELSE o.nvars)
               /\ i + k <= Len(words) /\ words[i + k] \notin Dashed
      new == [v |-> [j \in DOMAIN val.v |->
                       IF j > first /\ j <= first + k THEN Read(j - first)
                       ELSE IF stuck /\ j = first + k + 1 THEN 1 ELSE val.v[j]],
              n |-> IF o.list THEN first + k ELSE val.n]
  IN  CASE o.oc = "flag" /\ bare -> [fatal |-> FALSE, val |-> [val EXCEPT !.v[1] = 1], used |-> 0]
        [] /\ ~(o.oc = "flag" /\ bare)
           /\ \/ k = 0 /\ o.oc # "flag"
              \/ o.accrue /\ first >= o.nvars
              \/ \E j \in 1 .. k : ReadWord(o, args[j]) = {} ->
             [fatal |-> TRUE, val |-> val, used |-> 0]
        [] OTHER -> [fatal |-> FALSE, val |-> new, used |-> k]

-----------------------------------------------------------------------------
(* Printing: opt_null_string(), opt_print_option(), opt_print_options().   *)

Count(o, val) == IF o.list THEN val.n ELSE 1
opt_null_string_Never(o, val) == FALSE
opt_null_string(o, val) ==
  o.oc = "string" /\ IF o.list THEN val.n = 0 ELSE val.v[1] = NULL
ShowWord(o, v) ==
  CASE o.oc \in {"enum", "flag"} -> CHOOSE w \in bind_to_str(o, v) : TRUE
    [] o.oc = "string" -> IF v = NULL THEN "<null>" ELSE v
    [] OTHER -> Shows[o.oc][v]
InFile(w) == IF w \in DOMAIN Pieces THEN Pieces[w] ELSE <<w>>
RECURSIVE Printed(_, _, _)
Printed(o, val, k) ==
  IF k > Count(o, val) THEN <<>>
  ELSE InFile(ShowWord(o, val.v[k])) \o Printed(o, val, k + 1)
opt_print_option(name, val) ==
  LET o == Options[name]
  IN  (IF ~o.print \/ opt_null_string(o, val) THEN <<"#">> ELSE <<>>)
      \o <<name>> \o Printed(o, val, 1)
dump_config(vals) == [k \in DOMAIN Order |-> opt_print_option(Order[k], vals[Order[k]])]

-----------------------------------------------------------------------------
(* __opt_process_options() and process_file(): a call is its words, the    *)
(* next of them, the file it is to dump to and the lines of the file it is *)
(* reading for -config.                                                    *)

Call(words, depth) == [words |-> words, i |-> 1, depth |-> depth, dump |-> NULL, lines |-> <<>>]
Top == Head(stack)
Word == Top.words[Top.i]
OptionsGoOn == verdict = "options" /\ stack # <<>>
AtWord == OptionsGoOn /\ Top.lines = <<>> /\ Top.i <= Len(Top.words)
Die == verdict' = "fatal" /\ UNCHANGED <<odb, stack, files, exec_index, run, saved>>
Step(call) == stack' = <<call>> \o Tail(stack)

OptInit ==
  /\ odb = [o \in DOMAIN Options |-> Registered(Options[o])]
  /\ \E words \in CommandLines :
       stack = IF words = <<>> THEN <<>> ELSE <<Call(words, 0)>>
  /\ files = Files
  /\ exec_index = 0 /\ run = 1 /\ saved = <<>>
  /\ verdict = IF stack = <<>> THEN "usage" ELSE "options"

\* An orphan is the simulated program, which ends the options; not in a file.
Orphan ==
  /\ AtWord /\ Word \notin Dashed
  /\ IF Top.depth > 0 THEN Die
     ELSE /\ exec_index' = Top.i
          /\ Step([Top EXCEPT !.i = Len(Top.words) + 1])
          /\ UNCHANGED <<odb, files, verdict, run, saved>>

\* -config: the file is opened, or the simulator dies.
ReadConfig ==
  /\ AtWord /\ Word = "-config"
  /\ LET named == Top.i < Len(Top.words)
         name == Top.words[Top.i + 1]
     IN  IF ~named \/ (named /\ (name \in Dashed \/ name \notin DOMAIN files))
            \/ Len(stack) > MaxOpen
         THEN Die
         ELSE /\ Step([Top EXCEPT !.i = @ + 2, !.lines = files[name]])
              /\ UNCHANGED <<odb, files, exec_index, verdict, run, saved>>

\* The next line of the file; a word that begins with "#" ends it.
Comment(line) == {k \in DOMAIN line : line[k] = "#"}
Uncommented(line) ==
  IF Comment(line) = {} THEN line
  ELSE SubSeq(line, 1, (CHOOSE k \in Comment(line) : \A l \in Comment(line) : k <= l) - 1)
ReadLine ==
  /\ OptionsGoOn /\ Top.lines # <<>>
  /\ LET line == Uncommented(Head(Top.lines))
         rest == [Top EXCEPT !.lines = Tail(@)]
     IN  stack' = (IF line = <<>> THEN <<rest>> ELSE <<Call(line, Top.depth + 1), rest>>)
                  \o Tail(stack)
  /\ UNCHANGED <<odb, files, exec_index, verdict, run, saved>>

\* -dumpconfig is put off to the end of the call.
AskDump ==
  /\ AtWord /\ Word = "-dumpconfig"
  /\ IF Top.i = Len(Top.words) \/ (Top.i < Len(Top.words) /\ Top.words[Top.i + 1] \in Dashed \ {"-"})
     THEN Die
     ELSE /\ Step([Top EXCEPT !.dump = Top.words[Top.i + 1], !.i = @ + 2])
          /\ UNCHANGED <<odb, files, exec_index, verdict, run, saved>>

TakeOption ==
  /\ AtWord /\ Word \in Dashed \ {"-config", "-dumpconfig"}
  /\ IF Word \notin DOMAIN Options THEN Die
     ELSE LET done == ProcessOption(Options[Word], odb[Word], Top.words, Top.i + 1)
          IN  IF done.fatal THEN Die
              ELSE /\ odb' = [odb EXCEPT ![Word] = done.val]
                   /\ Step([Top EXCEPT !.i = @ + 1 + done.used])
                   /\ UNCHANGED <<files, exec_index, verdict, run, saved>>

\* The end of a call; "-" is standard error.
EndCall ==
  /\ OptionsGoOn /\ Top.lines = <<>> /\ Top.i > Len(Top.words)
  /\ IF Top.dump = NULL
     THEN UNCHANGED <<files, saved>>
     ELSE /\ files' = IF Top.dump = "-" THEN files
                      ELSE [f \in DOMAIN files \cup {Top.dump} |->
                              IF f = Top.dump THEN dump_config(odb) ELSE files[f]]
          /\ saved' = IF run = 1 THEN odb ELSE saved
  /\ stack' = Tail(stack)
  /\ UNCHANGED <<odb, exec_index, verdict, run>>

\* What main() makes of it.
Main ==
  /\ verdict = "options" /\ stack = <<>>
  /\ verdict' = IF odb["-h"].v[1] # 0 THEN "usage"
                ELSE IF exec_index = 0 THEN "no executable" ELSE "simulates"
  /\ UNCHANGED <<odb, stack, files, exec_index, run, saved>>

\* A second run, with the dumped file alone.
Again ==
  /\ run = 1 /\ verdict \notin {"options", "fatal"} /\ saved # <<>> /\ "dumped" \in DOMAIN files
  /\ run' = 2
  /\ odb' = [o \in DOMAIN Options |-> Registered(Options[o])]
  /\ stack' = <<Call(<<"-config", "dumped", "prog">>, 0)>>
  /\ exec_index' = 0 /\ verdict' = "options"
  /\ UNCHANGED <<files, saved>>

OptNext ==
  Orphan \/ ReadConfig \/ ReadLine \/ AskDump \/ TakeOption \/ EndCall \/ Main \/ Again
OptSpec == OptInit /\ [][OptNext]_optVars

-----------------------------------------------------------------------------
\* What does not survive the file: an option given more than once, where each
\* may add one value; an array that has none; a number printf() rounds, or a
\* float, which may not be zero; a string of blanks, or one that looks like an
\* option or a comment, or a hole in an array of strings.
Words(o, val) == {val.v[k] : k \in 1 .. Count(o, val)}
Lost(name) ==
  LET o == Options[name]
      val == saved[name]
      Back(v) == Parses[o.oc][Shows[o.oc][v]]
  IN  \/ o.accrue /\ val.n > 1
      \/ Count(o, val) = 0 /\ o.oc \notin {"string", "flag"}
      \/ o.oc \in {"float", "double"} /\ \E v \in Words(o, val) : Back(v) # v
      \/ o.oc = "float" /\ \E v \in Words(o, val) : Back(v) <= 0
      \/ o.oc = "string" /\ ~opt_null_string(o, val)
           /\ \E w \in Words(o, val) : w \in Dashed \cup {"#", NULL} \cup DOMAIN Pieces
      \/ o.oc = "flag" /\ o.list /\ val.n = 0

\* "-dumpconfig" is there to repeat a simulation: a run with the dumped file has
\* every printed option as the first had it, when no option is lost; and dies or
\* differs when one is.
DumpRestores ==
  run = 2 /\ verdict # "options" =>
    LET kept == {name \in DOMAIN Options : Options[name].print}
        lost == {name \in kept : Lost(name)}
        Held(name, val) == [k \in 1 .. Count(Options[name], val) |-> val.v[k]]
    IN  /\ lost = {} => verdict # "fatal"
        /\ verdict # "fatal" =>
             /\ \A name \in kept \ lost : Held(name, odb[name]) = Held(name, saved[name])
             /\ \A name \in lost : odb[name] # saved[name]
=============================================================================
