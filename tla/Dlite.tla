-------------------------------- MODULE Dlite ---------------------------------
(***************************************************************************)
(* DLite!, the debugger (dlite.c), with the execution ranges (range.c) its *)
(* breakpoints are kept as.  A simulator asks __check_break() after every  *)
(* instruction and calls dlite_main(), which reads commands until one lets *)
(* the program go on.                                                      *)
(*                                                                         *)
(* A command line is the name of the command and the characters after it.  *)
(* Printing is reduced to what is printed: which bytes, or which value in  *)
(* which width and format.                                                 *)
(***************************************************************************)
EXTENDS Eval

CONSTANTS
  DebugCommands,     \* [name, rest]
  LineBytes, ScreenLines, MaxCount,   \* 16, 4 and 1024 in the program
  InstSize, ScreenInsts,              \* 4 and 16
  Registers,        \* [name -> value], the pc left out
  HelpWords, DatabaseEntries,   \* commands, and options and statistics, by name
  MaxCommands       \* bound on the commands given

VARIABLES
  regs_PC, regs_NPC, sim_num_insn,    \* of the simulator
  dlite_active,
  prompt,           \* dlite_main() runs
  dlite_bps, break_id, break_access,
  typed,              \* the last command line
  dump_addr, dis_addr,
  shown,            \* what the last command printed
  given             \* commands so far

bpVars == <<dlite_bps, break_id>>
viewVars == <<dump_addr, dis_addr>>
dliteVars == <<dlite_active, prompt, bpVars, break_access, typed, viewVars, shown, given>>

Blank == {" ", "\t"}
MaxPos == (Wide \div 2) - 1

-----------------------------------------------------------------------------
(* Ranges.                                                                 *)

ptypes == [c \in {"@", "#"} |-> IF c = "@" THEN "addr" ELSE "cycle"]
\* A number, or a fraction cut off; nothing at all is zero.
range_parse_pos(s) ==
  LET marked == s # <<>> /\ s[1] \in DOMAIN ptypes
      digits == IF marked THEN Tail(s) ELSE s
  IN  IF digits # <<>> /\ digits \notin DOMAIN Numerals THEN [ptype |-> "bad", pos |-> 0]
      ELSE [ptype |-> IF marked THEN ptypes[s[1]] ELSE "inst",
            pos |-> IF digits = <<>> THEN 0
                    ELSE Quot(Numerals[digits].n, Numerals[digits].d) % Wide]
\* start ":" end; "+" before the end counts from the start.
range_parse_range(s) ==
  LET colons == {i \in DOMAIN s : s[i] = ":"}
      c == First(colons)
      a == SubSeq(s, 1, c - 1)
      b == SubSeq(s, c + 1, Len(s))
      start == IF a = <<>> THEN [ptype |-> "inst", pos |-> 0] ELSE range_parse_pos(a)
      delta == range_parse_pos(Tail(b))
      end == IF b = <<>> THEN [start EXCEPT !.pos = MaxPos]
             ELSE IF b[1] = "+" THEN [ptype |-> IF delta.ptype = "inst" THEN start.ptype ELSE "bad",
                                      pos |-> start.pos + Signed(delta.pos, Reg)]
             ELSE range_parse_pos(b)
  IN  IF colons = {} THEN [start |-> [ptype |-> "bad", pos |-> 0], end |-> [ptype |-> "bad", pos |-> 0]]
      ELSE [start |-> start, end |-> end]
BadRange(r) == "bad" \in {r.start.ptype, r.end.ptype}
range_cmp_range(r, val) == IF val < r.start.pos THEN -1 ELSE IF val <= r.end.pos THEN 0 ELSE 1
Within(r, val) == range_cmp_range(r, val) = 0

-----------------------------------------------------------------------------
(* The command line: dlite_exec().                                         *)

A(t) == [type |-> t, opt |-> FALSE]
Opt(t) == [type |-> t, opt |-> TRUE]
cmd_db(name) ==
  CASE name \in {"cont"} -> <<Opt("expr")>>
    [] name \in {"print", "display"} -> <<Opt("mods"), A("expr")>>
    [] name \in {"dump", "dis"} -> <<Opt("expr"), Opt("expr")>>
    [] name \in {"break", "delete", "whatis"} -> <<A("expr")>>
    [] name = "dbreak" -> <<A("expr"), Opt("access")>>
    [] name = "rbreak" -> <<A("string"), Opt("access")>>
    [] name \in {"option", "stat", "symbol"} -> <<A("string")>>
    [] name \in {"help", "mstate"} -> <<Opt("string")>>
    [] OTHER -> <<>>

\* The names in an expression: a register, or a statistic of the simulator.
ident_evaluator ==
  [w \in DOMAIN Registers \cup {<<"p", "c">>, <<"n">>} |->
     [error |-> "NOERR",
      val |-> CASE w = <<"p", "c">> -> Val("addr", regs_PC)
                [] w = <<"n">> -> Val("qword", sim_num_insn)
                [] OTHER -> Registers[w]]]

WordEnd(line, p) == First({i \in p .. Len(line) + 1 : i > Len(line) \/ line[i] \in Blank})
Chars(line, p, q) == {line[i] : i \in p .. q - 1}
Modifiers == {"b", "h", "w", "q", "d", "u", "o", "x", "1", "F", "f", "c", "s"}
modifier_parser(line, p) ==
  LET e == IF line[p] = "/" THEN WordEnd(line, p) ELSE p
      mods == Chars(line, p + 1, e)
  IN  [error |-> IF mods \subseteq Modifiers THEN "NOERR" ELSE "bad modifier", arg |-> mods, p |-> e]

ExprArg(value, p) == [error |-> value.error, arg |-> value.val, p |-> p + value.endp - 1]
ReadArg(type, line, p) ==
  LET e == WordEnd(line, p)
  IN  CASE type = "mods" -> modifier_parser(line, p)
        [] type = "expr" -> ExprArg(eval_expr(SubSeq(line, p, Len(line)), ident_evaluator), p)
        [] type = "access" ->
             [error |-> IF Chars(line, p, e) \subseteq {"r", "w", "x"} THEN "NOERR" ELSE "bad access",
              arg |-> Chars(line, p, e), p |-> e]
        [] type = "string" -> [error |-> "NOERR", arg |-> SubSeq(line, p, e - 1), p |-> e]

Parsed(e, args) == [error |-> e, args |-> args]
RECURSIVE ReadArgs(_, _, _, _)
ReadArgs(pattern, line, from, args) ==
  LET p == First({i \in from .. Len(line) + 1 : i > Len(line) \/ line[i] \notin Blank})
      Next(this) == IF this.error # "NOERR" THEN Parsed(this.error, <<>>)
                    ELSE ReadArgs(Tail(pattern), line, this.p, Append(args, this.arg))
  IN  CASE pattern = <<>> -> Parsed(IF p > Len(line) THEN "NOERR" ELSE "too many arguments", args)
        [] pattern # <<>> /\ p > Len(line) ->
             Parsed(IF pattern[1].opt THEN "NOERR" ELSE "missing an argument", args)
        [] OTHER -> Next(ReadArg(pattern[1].type, line, p))

EVAL_INTEGRAL(v) == v.t \notin {"float", "double", "symbol"}
Addr(v) == AsWide(v, "addr")

\* The width a value is printed in and the format; none or one of each may be asked.
Sizes == {"b", "h", "w", "q", "F", "f", "c", "s"}
print_val(mods, v) ==
  LET sizes == mods \cap Sizes
      formats == mods \ Sizes
      size == IF sizes = {} THEN CASE v.t \in {"int", "uint"} -> "w" [] v.t = "float" -> "F"
                                   [] v.t = "double" -> "f" [] OTHER -> "q"
              ELSE CHOOSE s \in sizes : TRUE
      format == IF formats = {} THEN CASE v.t \in {"int", "sqword"} -> "d" [] v.t \in {"uint", "qword"} -> "u"
                                       [] v.t = "addr" -> "x" [] OTHER -> "none"
                ELSE CHOOSE f \in formats : TRUE
  IN  IF Cardinality(sizes) > 1 \/ Cardinality(formats) > 1 THEN [error |-> "multiple specifiers"]
      ELSE IF size = "s" \/ (format = "1" /\ size \in {"b", "h", "w", "q"})
           THEN [error |-> "not yet implemented"]
      ELSE IF size \in {"b", "h", "w", "q"} /\ format = "none" THEN [error |-> "panic"]
      ELSE [error |-> "NOERR", size |-> size, format |-> format,
            n |-> IF size = "q" THEN AsWide(v, "qword")
                  ELSE IF size \in {"F", "f"} THEN AsReal(v) ELSE AsNarrow(v, "uint")]

-----------------------------------------------------------------------------
(* The commands.  Each is given its arguments and says what it prints.     *)

Says(what) == shown' = what
Error(e) == Says([error |-> e]) /\ UNCHANGED <<regs_PC, dlite_active, prompt, bpVars, viewVars>>
Looks(what) == Says(what) /\ UNCHANGED <<regs_PC, dlite_active, prompt, bpVars>>

dlite_cont(args) ==
  IF args # <<>> /\ (args # <<>> => ~EVAL_INTEGRAL(args[1])) THEN Error("type")
  ELSE /\ regs_PC' = IF args = <<>> THEN regs_PC ELSE Addr(args[1])
       /\ dlite_active' = FALSE /\ prompt' = FALSE
       /\ Says([error |-> "NOERR"]) /\ UNCHANGED <<bpVars, viewVars>>
dlite_step ==
  /\ dlite_active' = TRUE /\ prompt' = FALSE
  /\ Says([error |-> "NOERR"]) /\ UNCHANGED <<regs_PC, bpVars, viewVars>>
\* terminate prints the statistics, quit does not; neither comes back.
dlite_terminate ==
  /\ prompt' = FALSE /\ Says([error |-> "exit"])
  /\ UNCHANGED <<regs_PC, dlite_active, bpVars, viewVars>>
dlite_print(args) == Looks(print_val(args[1], args[2])) /\ UNCHANGED viewVars
dlite_whatis(args) == Looks([error |-> "NOERR", type |-> args[1].t]) /\ UNCHANGED viewVars
\* What only prints: the databases, whole or one entry of them, the registers,
\* the symbols, of which none is ever loaded, and the help.
dlite_help(args) ==
  Looks([error |-> IF args = <<>> \/ (args # <<>> => args[1] \in HelpWords) THEN "NOERR" ELSE "command unknown"])
dlite_stats(args) ==
  Looks([error |-> IF args = <<>> \/ (args # <<>> => args[1] \in DatabaseEntries) THEN "NOERR" ELSE "not defined"])
dlite_regs == Looks([error |-> "NOERR", pc |-> regs_PC, npc |-> regs_NPC])
dlite_symbols(args) == Looks([error |-> IF args = <<>> THEN "NOERR" ELSE "symbol is not defined"])
\* A quad word is read as a double.
dlite_display(args) ==
  LET mods == args[1]
      kind == CASE mods \cap {"b", "c"} # {} -> [bytes |-> 1, t |-> "int"]
                [] mods \cap {"b", "c"} = {} /\ "h" \in mods -> [bytes |-> 2, t |-> "int"]
                [] mods \cap {"b", "c", "h"} = {} /\ mods \cap {"q", "f"} # {} -> [bytes |-> 8, t |-> "double"]
                [] OTHER -> [bytes |-> 4, t |-> "uint"]
      form == print_val(mods, Val(kind.t, 0))
  IN  IF ~EVAL_INTEGRAL(args[2]) THEN Error("type")
      ELSE Looks([error |-> form.error, at |-> Addr(args[2]), bytes |-> kind.bytes]) /\ UNCHANGED viewVars

\* The first line starts at a multiple of its length; a single line shows its
\* bytes from there, more than one from the address, and one byte too many.
dlite_dump(args) ==
  LET addr == IF args = <<>> THEN dump_addr ELSE Addr(args[1])
      count == IF Len(args) < 2 THEN LineBytes * ScreenLines ELSE AsNarrow(args[2], "uint")
      fmt == (addr \div LineBytes) * LineBytes
      lines == (count + LineBytes - 1) \div LineBytes
      room == lines * LineBytes - (addr - fmt)
      n == IF count + 1 < room THEN count + 1 ELSE room
  IN  IF args # <<>> /\ (args # <<>> => ~EVAL_INTEGRAL(args[1])) THEN Error("type")
      ELSE IF (Len(args) = 2 /\ (Len(args) = 2 => ~EVAL_INTEGRAL(args[2]))) \/ count > MaxCount \/ lines = 0
      THEN Looks([error |-> IF lines = 0 THEN "panic" ELSE "bad count"]) /\ dump_addr' = addr /\ UNCHANGED dis_addr
      ELSE /\ Looks([error |-> "NOERR", asked |-> [at |-> addr, n |-> count],
                     dump |-> IF lines = 1 THEN fmt .. fmt + count - 1 ELSE addr .. addr + n - 1])
           /\ dump_addr' = addr + (IF lines = 1 THEN count ELSE n)
           /\ UNCHANGED dis_addr
dlite_dis(args) ==
  LET addr == IF args = <<>> THEN dis_addr ELSE Addr(args[1])
      count == IF Len(args) < 2 THEN ScreenInsts ELSE AsNarrow(args[2], "uint")
  IN  IF args # <<>> /\ (args # <<>> => ~EVAL_INTEGRAL(args[1])) THEN Error("type")
      ELSE /\ IF count > MaxCount \/ addr % InstSize # 0
              THEN Looks([error |-> "bad"]) /\ dis_addr' = addr
              ELSE /\ Looks([error |-> "NOERR", dis |-> [at |-> addr, n |-> count]])
                   /\ dis_addr' = addr + count * InstSize
           /\ UNCHANGED dump_addr

\* The newest breakpoint comes first; one without an access dies printing it.
set_break(class, range) ==
  /\ dlite_bps' = <<[id |-> break_id, class |-> class, range |-> range]>> \o dlite_bps
  /\ break_id' = break_id + 1
  /\ Says([error |-> IF class = {} THEN "panic" ELSE "NOERR"])
  /\ UNCHANGED <<regs_PC, dlite_active, prompt, viewVars>>
delete_break(id) ==
  LET hit == {i \in DOMAIN dlite_bps : dlite_bps[i].id = id}
  IN  IF hit = {} THEN Error(IF dlite_bps = <<>> THEN "no breakpoints set" ELSE "breakpoint not found")
      ELSE /\ dlite_bps' = [i \in 1 .. Len(dlite_bps) - 1 |->
                              IF i < First(hit) THEN dlite_bps[i] ELSE dlite_bps[i + 1]]
           /\ Says([error |-> "NOERR"])
           /\ UNCHANGED <<regs_PC, dlite_active, prompt, break_id, viewVars>>
Here(addr) == [start |-> [ptype |-> "addr", pos |-> addr], end |-> [ptype |-> "addr", pos |-> addr + 1]]
dlite_break(args) ==
  IF EVAL_INTEGRAL(args[1]) THEN set_break({"x"}, Here(Addr(args[1]))) ELSE Error("type")
dlite_dbreak(args) ==
  IF EVAL_INTEGRAL(args[1])
  THEN set_break(IF Len(args) = 1 THEN {"r", "w"} ELSE args[2], Here(Addr(args[1])))
  ELSE Error("type")
dlite_rbreak(args) ==
  \E r \in {range_parse_range(args[1])} :
    IF BadRange(r) \/ r.start.ptype # r.end.ptype \/ r.start.pos > r.end.pos THEN Error("bad range")
    ELSE set_break(IF Len(args) = 1 THEN {"r", "w", "x"} ELSE args[2], r)
dlite_breaks == Looks([error |-> "NOERR", breaks |-> dlite_bps]) /\ UNCHANGED viewVars
dlite_delete(args) ==
  IF EVAL_INTEGRAL(args[1]) THEN delete_break(AsNarrow(args[1], "uint")) ELSE Error("type")
dlite_clear ==
  /\ dlite_bps' = <<>> /\ Says([error |-> "NOERR"])
  /\ UNCHANGED <<regs_PC, dlite_active, prompt, break_id, viewVars>>

Perform(name, args) ==
  \/ name = "cont" /\ dlite_cont(args)
  \/ name = "step" /\ dlite_step
  \/ name \in {"terminate", "quit"} /\ dlite_terminate
  \/ name = "print" /\ IF Len(args) = 2 THEN dlite_print(args) ELSE Error("wrong number of arguments")
  \/ name = "whatis" /\ dlite_whatis(args)
  \/ name = "display" /\ IF Len(args) = 2 THEN dlite_display(args) ELSE Error("wrong number of arguments")
  \/ name = "help" /\ dlite_help(args) /\ UNCHANGED viewVars
  \/ name \in {"options", "option", "stats", "stat"} /\ dlite_stats(args) /\ UNCHANGED viewVars
  \/ name \in {"regs", "iregs", "fpregs", "cregs", "mstate"} /\ dlite_regs /\ UNCHANGED viewVars
  \/ name \in {"symbols", "symbol"} /\ dlite_symbols(args) /\ UNCHANGED viewVars
  \/ name = "dump" /\ dlite_dump(args)
  \/ name = "dis" /\ dlite_dis(args)
  \/ name = "break" /\ dlite_break(args)
  \/ name = "dbreak" /\ dlite_dbreak(args)
  \/ name = "rbreak" /\ dlite_rbreak(args)
  \/ name = "breaks" /\ dlite_breaks
  \/ name = "delete" /\ dlite_delete(args)
  \/ name = "clear" /\ dlite_clear

dlite_exec(line) ==
  \E parsed \in {ReadArgs(cmd_db(line.name), line.rest, 1, <<>>)} :
    IF line.name = "none" THEN Looks([error |-> "NOERR"]) /\ UNCHANGED viewVars
    ELSE IF parsed.error # "NOERR" THEN Error(parsed.error)
    ELSE Perform(line.name, parsed.args)

-----------------------------------------------------------------------------
(* dlite_main() and __check_break().                                       *)


\* What a check finds: the access of the breakpoint, if any, that stops.
StopsAt(bp, next_PC, access, addr, count) ==
  CASE bp.range.start.ptype = "addr" ->
         IF "x" \in bp.class /\ Within(bp.range, next_PC) THEN "x"
         ELSE IF access \in bp.class \cap {"r", "w"} /\ Within(bp.range, addr) THEN access
         ELSE "none"
    [] OTHER -> IF Within(bp.range, count) THEN "x" ELSE "none"
Hits(next_PC, access, addr, count) ==
  {i \in DOMAIN dlite_bps : StopsAt(dlite_bps[i], next_PC, access, addr, count) # "none"}
dlite_check_break(next_PC, access, addr, count) ==
  LET hits == Hits(next_PC, access, addr, count)
      stops == dlite_active \/ hits # {}
  IN  /\ break_access' = IF dlite_active \/ hits = {} THEN "none"
                         ELSE StopsAt(dlite_bps[First(hits)], next_PC, access, addr, count)
      /\ prompt' = stops
      /\ dlite_active' = stops

\* An empty line repeats the last command.
Command ==
  /\ prompt /\ given < MaxCommands
  /\ \E line \in DebugCommands :
       LET todo == IF line.name = "" THEN typed ELSE line
       IN  typed' = todo /\ dlite_exec(todo)
  /\ given' = given + 1
  /\ UNCHANGED <<regs_NPC, sim_num_insn, break_access>>

dlite_init ==
  /\ dlite_active \in BOOLEAN
  /\ prompt = FALSE
  /\ dlite_bps = <<>> /\ break_id = 1 /\ break_access = "none"
  /\ typed = [name |-> "none", rest |-> <<>>]
  /\ dump_addr = 0 /\ dis_addr = 0 /\ shown = [error |-> "none"] /\ given = 0
=============================================================================
