---------------------------- MODULE ReorderWindow ----------------------------
(***************************************************************************)
(* What the out-of-order core promises about instructions, whatever it does *)
(* inside: a window of instructions in program order.  Instructions enter   *)
(* at the young end.  Those of the correct path, numbered 1, 2, 3, ... as   *)
(* the program executes them, leave at the old end, each exactly once and   *)
(* in that order, and only when done.  Those of a mispredicted path may     *)
(* only disappear, youngest first.                                          *)
(***************************************************************************)
EXTENDS Naturals, Sequences

CONSTANT Width                 \* how many instructions fit in the window

VARIABLES window,              \* sequence of [num, spec, done]
          fetched,             \* correct-path instructions that entered
          retired              \* correct-path instructions that left

winVars == <<window, fetched, retired>>

WinInit == window = <<>> /\ fetched = 0 /\ retired = 0

Enter(spec) ==
  /\ Len(window) < Width
  /\ fetched' = IF spec THEN fetched ELSE fetched + 1
  /\ window' = Append(window, [num |-> IF spec THEN 0 ELSE fetched + 1,
                               spec |-> spec, done |-> FALSE])
  /\ UNCHANGED retired

Finish(k) ==
  /\ ~window[k].done
  /\ window' = [window EXCEPT ![k].done = TRUE]
  /\ UNCHANGED <<fetched, retired>>

Retire ==
  /\ window # <<>>
  /\ Head(window) = [num |-> retired + 1, spec |-> FALSE, done |-> TRUE]
  /\ window' = Tail(window)
  /\ retired' = retired + 1
  /\ UNCHANGED fetched

Squash ==
  /\ window # <<>>
  /\ window[Len(window)].spec
  /\ window' = SubSeq(window, 1, Len(window) - 1)
  /\ UNCHANGED <<fetched, retired>>

WinNext ==
  \/ \E spec \in BOOLEAN : Enter(spec)
  \/ \E k \in 1 .. Len(window) : Finish(k)
  \/ Retire
  \/ Squash

WinSpec == WinInit /\ [][WinNext]_winVars
=============================================================================
