------------------------------ MODULE UnitPool ------------------------------
(***************************************************************************)
(* What run_one_round may rely on when it calls ensure_/pause_/stop_active *)
(* _round_fuzzer: the promise of a worker pool, without its processes.     *)
(* A call sets a cap on the units that may run (0 for a pause or a stop).  *)
(* While the call works the pool may be one unit above the cap; when it    *)
(* returns it is not, and the answer tells whether anything runs.  Workers *)
(* are lost at any time.                                                   *)
(***************************************************************************)
EXTENDS Integers

CONSTANT ResourceUnits    \* resource_unit_number

VARIABLES busy,     \* a call is in progress
          cap,      \* units the scheduler lets this pool run
          running,  \* units whose workers run
          granted   \* the answer of the last call

vars == <<busy, cap, running, granted>>

Begin(c) ==
  /\ ~busy /\ busy' = TRUE
  /\ cap' = c
  /\ UNCHANGED <<running, granted>>

\* A call may exceed its cap by one: the AFL pool starts a worker before it
\* pauses one.  A pause only ever lowers what runs.
Work ==
  /\ busy
  /\ running' \in 0..(IF cap = 0 THEN running ELSE cap + 1)
  /\ UNCHANGED <<busy, cap, granted>>

Finish ==
  /\ busy /\ busy' = FALSE
  /\ running' \in 0..cap
  /\ granted' = (running' > 0)
  /\ cap' \in {0, cap}
  /\ cap' = 0 => running' = 0

Lose ==
  /\ running' \in 0..(running - 1)
  /\ UNCHANGED <<busy, cap, granted>>

Init == busy = FALSE /\ cap = 0 /\ running = 0 /\ granted = FALSE

\* QSYM runs one unit more than its allocation.
Next ==
  \/ \E c \in 0..(ResourceUnits + 1) : Begin(c)
  \/ Work \/ Finish \/ Lose

Spec == Init /\ [][Next]_vars
=============================================================================
