---------------------------- MODULE MCPlatformNode ----------------------------
(* Every placement without a proxy, as run_experiments.py configures it,   *)
(* with two CPUs; one CPU with two rounds and two inputs; proxies.         *)
EXTENDS PlatformNode

Config(n, p, c, r, m) ==
  [container_count |-> n, proxies |-> p, cpus |-> c, rounds |-> r, input_messages_per_round |-> m]

\* Two nodes, every request through the second one.
OneProxy == {Config(2, <<2>>, {0}, 1, 1)}

SmallConfigs ==
  {Config(n, << >>, {0, 3}, 1, 1) : n \in {1, 2, 4, 8}}
    \cup {Config(n, << >>, {0}, 2, 2) : n \in {2, 8}}
    \cup {Config(n, <<2, 1>>, {0}, 2, 2) : n \in {2, 4}}
    \cup {Config(2, <<1>>, {0, 3}, 1, 0)}
===============================================================================
