----------------------------- MODULE MCPipeline -----------------------------
(* Small programs and small machines for model checking PipelineProps.     *)
EXTENDS PipelineProps

CONSTANTS r1, r2, dtmp, a, b, alu1, mul1, port1, port2

MCReg == {r1, r2, dtmp}

i(kind, in2, in3, out, addr) ==
  [kind |-> kind, ins |-> <<in2, in3>>, out |-> out, addr |-> addr]

\* Register dependences under misprediction: producers of either register,
\* a slow producer, and branches.
InstDeps == {i("alu", r1, NA, r1, a), i("mul", NA, NA, r1, a),
             i("alu", r1, r2, r2, a), i("ctrl", r1, NA, NA, a)}

\* Loads, stores and an atomic on two addresses, and a slow operation for
\* the address of the atomic.
InstMem == {i("load", r1, NA, r1, a), i("mul", NA, NA, r2, a),
            i("store", NA, r1, NA, a), i("amo", r2, r1, r2, b),
            i("ctrl", r1, NA, NA, a)}

\* Instructions that drain the machine.
InstSync == {i("sync", NA, NA, NA, a), i("trap", NA, NA, NA, a),
             i("load", r1, NA, r1, a), i("ctrl", r1, NA, NA, a),
             i("alu", r1, NA, r1, a)}

u(unit, oplat, issuelat) == [unit |-> unit, oplat |-> oplat, issuelat |-> issuelat]

OneEach ==
  [IntALU |-> <<u(alu1, 1, 1)>>, IntMULT |-> <<u(mul1, 3, 2)>>,
   RdPort |-> <<u(port1, 1, 1)>>, WrPort |-> <<u(port1, 1, 1)>>,
   AMOPort |-> <<u(port1, 1, 1)>>]
=============================================================================
