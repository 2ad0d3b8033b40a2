----------------------------- MODULE MCMemcpyCore -----------------------------
(***************************************************************************)
(* Small instances of MemcpyCore: which rank executes which copy.          *)
(***************************************************************************)
EXTENDS MemcpyCore, TLC

CONSTANTS r0, r1, r2

\* The first rank executes one copy, the second two, the third none.
OneAndTwo == 1 :> r0 @@ 2 :> r1 @@ 3 :> r1

\* The first rank executes two copies, the second one.
TwoAndOne == 1 :> r0 @@ 2 :> r1 @@ 3 :> r0
===============================================================================
