SPECIFICATION Spec
CONSTANTS
  Nodes = 9
  NextHop <- LineRoutes
  Benches <- MixedAndContending
  cycle_ns = 2
  flit_bytes = 2
  max_datagram_bytes = 4
  queue_packets = 3
  link_delay_ns = 1
  link_rate = 2
  header_bytes = 2
  worker_slots <- TwoWorkers
INVARIANTS AckNeverEarly FailureExplained ReportExact
