------------------------------ MODULE MCRunner ------------------------------
(***************************************************************************)
(* Three ranks placed round-robin on two hosts, and command lines.          *)
(***************************************************************************)
EXTENDS Runner

RoundRobin == 0 :> "a" @@ 1 :> "b" @@ 2 :> "a"

\* Enough GPUs for --json, which wants one per rank of the job on every host,
\* and fewer GPUs than ranks.
ManyOrOne == {"a" :> 3 @@ "b" :> 3, "a" :> 1 @@ "b" :> 1}

Base == <<"device_local_copy">>
Multi == <<"multinode_read", "multinode_bisect">>

\* By name, by prefix, everything, and nothing at all.
Commands ==
  { [kind |-> "ids",
     ids |-> <<Name("device_local_copy"), Name("multinode_read"), Name("unknown")>>],
    [kind |-> "prefixes", matched |-> {"multinode_read", "multinode_bisect"}],
    [kind |-> "all"], [kind |-> "list"], [kind |-> "invalid"] }

\* The first testcase of the list, by its index.
ByIndex == {[kind |-> "ids", ids |-> <<Index(0)>>]}
===============================================================================
