SPECIFICATION FairSpec
CONSTANTS
  None = None
  Unknown = Unknown
  Empty = Empty
  Default = u
  Values = {u, v}
  Kinds = {"vpc_network", "vpc_subnet", "disk", "load_balancer", "firewall_rule", "project",
           "ib_partition", "transport_partition", "instance_template", "kubernetes_cluster",
           "registry_repository", "vm_by_template"}
  MaxFaults = 1
  MaxEdits = 2
INVARIANTS
  TypeOK
  RecordTracksObject
  OrphansNeedFaults
PROPERTIES
  ReplacesForCause
  KeepsItsPromise
  GoneIsNoticed
  Converges
