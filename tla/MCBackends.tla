------------------------------ MODULE MCBackends ------------------------------
(* Instructions of up to three bytes; addresses of three bits, reported in   *)
(* two.  The second page is at 4, so 0 and 4 look the same.                  *)
EXTENDS Backends

On(signum, addr) == [signum |-> signum, addr |-> addr]

X86(length, faults) == [length |-> length, faults |-> faults]

MCX86 == {X86(1, {On("TRAP", 0)}), X86(3, {On("TRAP", 0), On("SEGV", 5)}),
          X86(2, {On("ILL", 0)}), X86(2, {}), X86(1, {On("BUS", 2)}),
          X86(2, {On("TRAP", 0), On("SEGV", 4)}), X86(3, {On("SEGV", 0)})}

MCArm == {"falls", "returns", "blocks", "ILL", "SEGV", "SYS"}

AllHosts == {"linux", "macos", "android", "ios"}
===============================================================================
