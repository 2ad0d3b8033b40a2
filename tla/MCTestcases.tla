----------------------------- MODULE MCTestcases -----------------------------
(***************************************************************************)
(* Three GPUs: all peers, one pair, a GPU that is no peer in return, none. *)
(***************************************************************************)
EXTENDS Testcases

All == {p \in Gpus \X Gpus : p[1] # p[2]}
OnePair == {<<0, 2>>, <<2, 0>>}
OneWay == OnePair \union {<<1, 0>>}

Make(peers, old, copyWords, chaseWords, stride) ==
  [peers |-> peers, old |-> old, smCopyWords |-> copyWords, ptrChaseWords |-> chaseWords,
   stride |-> stride]

SmallMachines ==
  {Make(All, {}, 2, 1, 1), Make(All, {2}, 4, 4, 2), Make(OnePair, {}, 4, 2, 5),
   Make(OnePair, {2}, 4, 4, 3), Make(OneWay, {}, 2, 1, 13), Make({}, Gpus, 4, 4, 4)}

\* Every testcase, alone, after one that leaves peer access enabled, and after
\* one that may throw with its buffers on the heap.
SmallPlans ==
  {<<k>> : k \in Keys}
  \union {<<k, "device_to_device_latency_sm">> :
            k \in {"all_to_one_read_sm", "all_to_host_memcpy_sm",
                   "device_to_device_memcpy_write_sm"}}
  \union {<<"host_device_bandwidth_sm", k>> :
            k \in {"one_to_all_write_ce", "host_device_latency_sm"}}
===============================================================================
