--------------------------- MODULE ScannerReadiness ---------------------------
(***************************************************************************)
(* What gra-scan finds out about a run and its machine before it starts a   *)
(* scanner container: the layout checks of lib/scanner_adapters.py, the     *)
(* readiness report of lib/scanner_readiness.py, the validator every report *)
(* has to pass before it is used, and the gate in front of an execution.    *)
(* A world is what these functions read; the two registered adapters need   *)
(* no network and have pinned images, so no world varies in that.           *)
(***************************************************************************)
EXTENDS Naturals, Sequences, FiniteSets

ProfileIds == {"source-only", "local-test", "container", "gvisor", "vm"}
PlanningProfiles == {"container", "gvisor", "vm"}
ExecutionProfiles == {"container", "gvisor"}
Policies == {"disabled", "explicit-allow"}

Environments == {"linux", "wsl2", "wsl-unknown", "macos", "native-windows", "unsupported"}

Support(environment) ==
  CASE environment \in {"linux", "wsl2"} -> "supported"
    [] environment \in {"macos", "native-windows"} -> "experimental"
    [] OTHER -> "unsupported"

(* An engine is not installed, does not answer, answers, or also has the     *)
(* image.  A path is "rejected" when it leaves the run, has a symbolic link  *)
(* in it or is no directory; an output also when its directory is read-only. *)
Engines == {"absent", "sick", "healthy", "stocked"}

World ==
  [profile : ProfileIds, policy : Policies, environment : Environments,
   target : {"safe", "absent", "rejected"}, reports : {"safe", "unwritable", "rejected"},
   output : {"absent", "present", "rejected"}, staging : {"absent", "directory", "file"},
   overlap : BOOLEAN, credentials : BOOLEAN, remote : BOOLEAN,
   docker : Engines, podman : Engines, runsc : BOOLEAN]

(* Each path is judged on its own, but without a safe reports directory, or  *)
(* once the output path raises, what follows it keeps its initial False.     *)
Layout(w) ==
  [target_safe |-> w.target = "safe",
   reports_safe |-> w.reports = "safe",
   output_safe |-> w.reports = "safe" /\ w.output = "absent",
   staging_safe |-> w.reports = "safe" /\ w.output # "rejected" /\ w.staging # "file",
   overlap |-> w.overlap /\ w.target # "rejected" /\ w.reports # "rejected"]

Separate(layout) ==
  /\ layout.target_safe /\ layout.reports_safe
  /\ layout.output_safe /\ layout.staging_safe
  /\ ~layout.overlap

(* The controls of the container are configured, not observed.               *)
Controls(profile, environment) ==
  /\ profile \in ExecutionProfiles
  /\ profile = "gvisor" => environment \in {"linux", "wsl2"}

(* Docker first; Podman counts on a Linux kernel only.                       *)
Candidates(w) ==
  { e \in {"docker", "podman"} :
      /\ w[e] # "absent"
      /\ e = "podman" => w.environment \in {"linux", "wsl2", "wsl-unknown"} }

Healthy(w) == {e \in Candidates(w) : w[e] \in {"healthy", "stocked"}}
Stocked(w) == {e \in Candidates(w) : w[e] = "stocked"}

(* The engines are asked only where everything else allows an execution.     *)
Probing(w) ==
  /\ Support(w.environment) # "unsupported"
  /\ Controls(w.profile, w.environment)
  /\ ~w.remote /\ ~w.credentials
  /\ w.policy = "disabled"
  /\ Separate(Layout(w))

Selected(w) ==
  CASE ~Probing(w) \/ Stocked(w) = {} -> "none"
    [] Probing(w) /\ "docker" \in Stocked(w) -> "docker"
    [] OTHER -> "podman"

\* Mutant of RuntimeReasons: without the branch for engines that are not asked.
RuntimeReasonsProbed(w) ==
  CASE Probing(w) /\ Candidates(w) = {} -> {"runtime_missing"}
    [] Probing(w) /\ Candidates(w) # {} /\ Healthy(w) = {} -> {"runtime_unavailable"}
    [] Probing(w) /\ Healthy(w) # {} /\ Stocked(w) = {} -> {"image_not_local"}
    [] OTHER -> {}

RuntimeReasons(w) ==
  CASE Candidates(w) = {} -> {"runtime_missing"}
    [] Probing(w) /\ Candidates(w) # {} /\ Healthy(w) = {} -> {"runtime_unavailable"}
    [] Probing(w) /\ Healthy(w) # {} /\ Stocked(w) = {} -> {"image_not_local"}
    [] OTHER -> {}

If(condition, reason) == IF condition THEN {reason} ELSE {}

Reasons(w) ==
  LET layout == Layout(w)
      controls == Controls(w.profile, w.environment)
  IN  If(Support(w.environment) = "unsupported", "platform_unsupported")
      \cup If(~controls, "sandbox_unsupported")
      \cup If(w.policy # "disabled", "network_policy_unsupported")
      \cup If(~layout.target_safe, "target_unsafe")
      \cup If(~layout.reports_safe, "reports_path_unsafe")
      \cup If(~layout.output_safe, "output_path_unsafe")
      \cup If(~layout.staging_safe, "staging_path_unsafe")
      \cup If(layout.overlap, "path_overlap")
      \cup If(w.credentials, "credential_environment_present")
      \cup If(w.remote, "runtime_remote")
      \cup RuntimeReasons(w)
      \cup If(w.profile = "gvisor" /\ ~w.runsc, "gvisor_missing")
      \cup If(~controls, "resource_limits_unavailable")

ReadyStates == {"ready", "experimental"}

State(w) ==
  CASE Support(w.environment) = "unsupported" -> "unsupported"
    [] Support(w.environment) # "unsupported" /\ Reasons(w) # {} -> "blocked"
    [] Support(w.environment) = "experimental" /\ Reasons(w) = {} -> "experimental"
    [] OTHER -> "ready"

(* The codes are a set: the report lists them in one fixed order.            *)
Report(w) ==
  [profile |-> w.profile, policy |-> w.policy, state |-> State(w),
   reasons |-> IF Reasons(w) = {} THEN {"ready"} ELSE Reasons(w),
   environment |-> w.environment, support |-> Support(w.environment),
   candidate_available |-> Candidates(w) # {},
   healthy_available |-> Probing(w) /\ Healthy(w) # {},
   selected |-> Selected(w), local_only |-> ~w.remote,
   probe_executed |-> Probing(w) /\ Candidates(w) # {},
   local_available |-> Selected(w) # "none",
   paths |-> Layout(w), network_disabled |-> w.policy = "disabled",
   controls |-> Controls(w.profile, w.environment), gvisor_available |-> w.runsc,
   environment_present |-> w.credentials]

(* The reasons a report must give, by its other fields.                      *)
ExpectedReasons(r) ==
  If(r.support = "unsupported", "platform_unsupported")
  \cup If(~r.controls, "sandbox_unsupported")
  \cup If(r.profile = "gvisor" /\ ~r.gvisor_available, "gvisor_missing")
  \cup If(~r.paths.target_safe, "target_unsafe")
  \cup If(~r.paths.reports_safe, "reports_path_unsafe")
  \cup If(~r.paths.output_safe, "output_path_unsafe")
  \cup If(~r.paths.staging_safe, "staging_path_unsafe")
  \cup If(r.paths.overlap, "path_overlap")
  \cup If(~r.controls, "resource_limits_unavailable")
  \cup If(r.environment_present, "credential_environment_present")
  \cup If(~r.network_disabled, "network_policy_unsupported")
  \cup If(~r.local_only, "runtime_remote")
  \cup If(~r.candidate_available, "runtime_missing")
  \cup If(r.probe_executed /\ r.candidate_available /\ ~r.healthy_available, "runtime_unavailable")
  \cup If(r.probe_executed /\ r.healthy_available /\ ~r.local_available, "image_not_local")

(* validate_scanner_readiness_report, the fields' own shapes apart.          *)
Accepted(r) ==
  /\ r.state \in ReadyStates => r.reasons = {"ready"}
  /\ r.state \notin ReadyStates => "ready" \notin r.reasons
  /\ r.support = Support(r.environment)
  /\ r.healthy_available => r.candidate_available
  /\ r.probe_executed => r.candidate_available
  /\ r.controls = Controls(r.profile, r.environment)
  /\ r.network_disabled = (r.policy = "disabled")
  /\ r.state \in ReadyStates => r.network_disabled /\ r.controls
  /\ r.reasons \ {"ready"} = ExpectedReasons(r)
  /\ (r.selected # "none") = r.local_available
  /\ r.local_available => r.healthy_available
  /\ r.state \in ReadyStates =>
       /\ r.selected # "none" /\ r.candidate_available /\ r.probe_executed
       /\ r.local_only /\ r.local_available /\ Separate(r.paths)
       /\ ~r.environment_present
  /\ r.state \in {"unsupported", "experimental"} => r.support = r.state
  /\ r.state = "ready" => r.support = "supported"

(* Whether the report may be written into the run at all.                    *)
PersistenceSafe(w) ==
  LET layout == Layout(w) IN layout.target_safe /\ layout.reports_safe /\ ~layout.overlap

(* build_scan_plan raises for what cannot be planned, resolve_scan_layout    *)
(* for a path that is rejected; an execution also keeps target and reports   *)
(* apart.                                                                    *)
Plannable(w) ==
  /\ w.profile \in PlanningProfiles
  /\ Support(w.environment) # "unsupported"
  /\ w.profile = "gvisor" => w.environment \in {"linux", "wsl2"}
  /\ w.target # "rejected" /\ w.reports # "rejected" /\ w.output # "rejected"

ExecutionLayout(w) ==
  w.profile \in ExecutionProfiles /\ Plannable(w) /\ ~w.overlap

(* The gate of execute_scan: the report is made afresh, whatever an earlier  *)
(* one said.                                                                 *)
Executable(w) ==
  /\ ExecutionLayout(w)
  /\ w.policy = "disabled"
  /\ Accepted(Report(w)) /\ Report(w).state \in ReadyStates
  /\ Selected(w) # "none"
===============================================================================
