------------------------------ MODULE StreamGate ------------------------------
(***************************************************************************)
(* What the stream blocker of a memcpy operation promises.  Every copy of  *)
(* a sample queues behind a gate.  The gate is opened once per sample,     *)
(* nothing passes it while it is closed, and it is closed again only when  *)
(* every copy is through: a release is never taken back from a copy that   *)
(* still waits for it, and no release outlives its sample.                 *)
(*                                                                         *)
(* NodeHelperSingle implements it with one word of pinned host memory,     *)
(* NodeHelperMulti with a host word on one rank and a device word that all *)
(* ranks share.  MemcpyCore refines this module.                           *)
(***************************************************************************)

CONSTANT Copies     \* the copies of the operation, over all processes

VARIABLES
  open,             \* the gate lets copies through
  through           \* the copies that passed it in this sample

vars == <<open, through>>

TypeOK ==
  /\ open \in BOOLEAN
  /\ through \subseteq Copies

\* The memory of the gate is allocated and not initialised.  An open gate
\* that nobody waits at counts as one that everybody has passed.
Init ==
  \/ open = FALSE /\ through = {}
  \/ open = TRUE /\ through = Copies

Open ==
  /\ ~open
  /\ open' = TRUE
  /\ through' = {}

Pass(c) ==
  /\ open
  /\ c \notin through
  /\ through' = through \union {c}
  /\ UNCHANGED open

Close ==
  /\ open
  /\ through = Copies
  /\ open' = FALSE
  /\ through' = {}

Next == Open \/ Close \/ \E c \in Copies : Pass(c)

Spec == Init /\ [][Next]_vars

===============================================================================
