----------------------------- MODULE Declarations -----------------------------
(***************************************************************************)
(* What testcase.h declares of the testcases of a single process: the key, *)
(* whether filter() wants accessible peers, and what the description that  *)
(* --list prints says of the measurement:                                  *)
(*                                                                         *)
(*   reports   the traffic the reported bandwidth is that of               *)
(*   load      the traffic that runs at the same time                      *)
(*   launches  "reader": copies use the context of their destination,      *)
(*             "writer": of their source, "any": nothing said              *)
(***************************************************************************)
\* The entries of two tables.
f ++ g == [k \in DOMAIN f \union DOMAIN g |-> IF k \in DOMAIN f THEN f[k] ELSE g[k]]

Declare(peers, reports, load, launches) ==
  [peers |-> peers, reports |-> reports, load |-> load, launches |-> launches]

HostCopies ==
  [host_to_device_memcpy_ce |-> Declare(FALSE, "to_device", "none", "any"),
   device_to_host_memcpy_ce |-> Declare(FALSE, "to_host", "none", "any"),
   host_to_device_bidirectional_memcpy_ce |-> Declare(FALSE, "to_device", "to_host", "any"),
   device_to_host_bidirectional_memcpy_ce |-> Declare(FALSE, "to_host", "to_device", "any"),
   host_to_device_bidirectional_memcpy_sm |-> Declare(FALSE, "to_device", "to_host", "any"),
   device_to_host_bidirectional_memcpy_sm |-> Declare(FALSE, "to_host", "to_device", "any")]

PairsCE ==
  [device_to_device_memcpy_read_ce |-> Declare(TRUE, "from_peer", "none", "reader"),
   device_to_device_memcpy_write_ce |-> Declare(TRUE, "to_peer", "none", "writer"),
   device_to_device_bidirectional_memcpy_read_ce |->
     Declare(TRUE, "from_peer", "to_peer", "reader"),
   device_to_device_bidirectional_memcpy_write_ce |->
     Declare(TRUE, "to_peer", "from_peer", "writer")]

LocalAndAllCE ==
  [device_local_copy |-> Declare(FALSE, "local", "none", "any"),
   all_to_host_memcpy_ce |-> Declare(FALSE, "to_host", "others_to_host", "any"),
   all_to_host_bidirectional_memcpy_ce |-> Declare(FALSE, "to_host", "all_both_ways", "any"),
   host_to_all_memcpy_ce |-> Declare(FALSE, "to_device", "host_to_others", "any"),
   host_to_all_bidirectional_memcpy_ce |-> Declare(FALSE, "to_device", "all_both_ways", "any")]

OneAndAllCE ==
  [all_to_one_write_ce |-> Declare(TRUE, "inbound", "none", "writer"),
   all_to_one_read_ce |-> Declare(TRUE, "outbound", "none", "reader"),
   one_to_all_write_ce |-> Declare(TRUE, "outbound", "none", "writer"),
   one_to_all_read_ce |-> Declare(TRUE, "inbound", "none", "reader")]

HostAccessSM ==
  [host_device_latency_sm |-> Declare(FALSE, "to_device", "none", "any"),
   host_device_bandwidth_sm |-> Declare(FALSE, "to_device", "none", "any"),
   host_to_device_memcpy_sm |-> Declare(FALSE, "to_device", "none", "any"),
   device_to_host_memcpy_sm |-> Declare(FALSE, "to_host", "none", "any")]

PairsSM ==
  [device_to_device_memcpy_read_sm |-> Declare(TRUE, "from_peer", "none", "reader"),
   device_to_device_latency_sm |-> Declare(TRUE, "from_peer", "none", "reader"),
   device_to_device_memcpy_write_sm |-> Declare(TRUE, "to_peer", "none", "writer"),
   device_to_device_bidirectional_memcpy_read_sm |->
     Declare(TRUE, "both_ways", "none", "reader"),
   device_to_device_bidirectional_memcpy_write_sm |->
     Declare(TRUE, "both_ways", "none", "writer")]

AllHostSM ==
  [all_to_host_memcpy_sm |-> Declare(FALSE, "to_host", "others_to_host", "any"),
   all_to_host_bidirectional_memcpy_sm |-> Declare(FALSE, "to_host", "all_both_ways", "any"),
   host_to_all_memcpy_sm |-> Declare(FALSE, "to_device", "host_to_others", "any"),
   host_to_all_bidirectional_memcpy_sm |-> Declare(FALSE, "to_device", "all_both_ways", "any")]

OneAndAllSM ==
  [all_to_one_write_sm |-> Declare(TRUE, "inbound", "none", "writer"),
   all_to_one_read_sm |-> Declare(TRUE, "outbound", "none", "reader"),
   one_to_all_write_sm |-> Declare(TRUE, "outbound", "none", "writer"),
   one_to_all_read_sm |-> Declare(TRUE, "inbound", "none", "reader")]

Declared == HostCopies ++ PairsCE ++ LocalAndAllCE ++ OneAndAllCE
            ++ HostAccessSM ++ PairsSM ++ AllHostSM ++ OneAndAllSM

Keys == DOMAIN Declared
===============================================================================
