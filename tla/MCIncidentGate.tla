----------------------------- MODULE MCIncidentGate ----------------------------
(* Two threads that each run one probe, which names a rule.                    *)
EXTENDS IncidentGate, TLC

MCProbes == <<TRUE>>

Held == [expected |-> TRUE, other |-> "none", executed |-> TRUE, isolated |-> TRUE,
         purged |-> TRUE, loss |-> "none"]

Plain == [root |-> FALSE, lacks |-> {"cgroup_v2", "kvm", "firecracker_runtime"},
          snapshot |-> "good"]

\* Contained; another rule than the expected one; got through; cut short by the
\* event budget; never executed; killed by the clock before it executed; not isolated.
MCOutcomes ==
  {Held, [Held EXCEPT !.expected = FALSE, !.other = "known_bad"],
   [Held EXCEPT !.expected = FALSE], [Held EXCEPT !.loss = "overflow"],
   [Held EXCEPT !.expected = FALSE, !.executed = FALSE],
   [Held EXCEPT !.expected = FALSE, !.executed = FALSE, !.other = "anomalous"],
   [Held EXCEPT !.expected = FALSE, !.executed = FALSE, !.isolated = FALSE, !.loss = "rule"]}

\* Two that the doctor calls unfit and where a run can hold all the same, without the
\* snapshot or without unprivileged user namespaces, and hosts where no detonation
\* can be isolated or no run can start.
MCHosts ==
  {[root |-> TRUE, lacks |-> {}, snapshot |-> "missing"],
   [root |-> TRUE, lacks |-> {"user_namespaces"}, snapshot |-> "good"],
   [Plain EXCEPT !.lacks = @ \cup {"user_namespaces"}],
   [Plain EXCEPT !.snapshot = "altered"]}

MCSymmetry == Permutations(Runs)
===============================================================================
