------------------------------ MODULE MCScanners ------------------------------
(* Instances of Scanners for TLC: two scans of one adapter beside an import and *)
(* a check, after an earlier scan whose failure may have been recorded, in      *)
(* every world in which the adapter's paths are one of the layouts of Paths.    *)
EXTENDS Scanners, TLC

CONSTANTS s0, s1, s2, c1, i1

MCAdapterOf == s0 :> "syft" @@ s1 :> "syft" @@ s2 :> "syft" @@ c1 :> "syft"
MCSourceOf == i1 :> "trivy"

Paths ==
  [target : {"safe", "absent", "rejected"}, reports : {"safe", "unwritable"},
   output : {"absent", "present", "rejected"}, staging : {"directory", "file"},
   overlap : BOOLEAN]

Machines ==
  [environment : Environments, docker : Engines, podman : {"absent", "sick", "stocked"},
   credentials : BOOLEAN, remote : BOOLEAN, runsc : BOOLEAN]

Requests ==
  { [profile |-> "container", policy |-> "disabled"], [profile |-> "gvisor", policy |-> "disabled"],
    [profile |-> "vm", policy |-> "explicit-allow"], [profile |-> "source-only", policy |-> "disabled"] }

MCWorlds == {r @@ m @@ p : r \in Requests, m \in Machines, p \in Paths}
===============================================================================
