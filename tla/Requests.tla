------------------------------ MODULE Requests ------------------------------
(***************************************************************************)
(* control/model.rs and the routing of control/service.rs: what a headless *)
(* request may ask for and which of its flags may stand together.  Words   *)
(* and values are abstracted to what validation tells apart: an operation  *)
(* keeps its name, an option is given or not, and `sound' says that every  *)
(* given value has its format (timeout, tail, names, paths, resources).    *)
(***************************************************************************)

VmReads     == {"vm list", "vm status", "vm env"}
VmRecorded  == {"vm start", "vm stop", "vm reset", "vm up", "vm down"}
VmConfigs   == {"vm create", "vm configure", "vm apply", "vm delete", "vm diagnostics"}
Vm          == VmReads \cup VmRecorded \cup VmConfigs
DockerLists == {"docker containers list", "docker images list",
                "docker volumes list", "docker networks list"}
Confirmed   == {"docker containers start", "docker containers stop",
                "docker containers restart"}
DockerMutations == Confirmed \cup {"docker containers delete"}
Docker      == DockerLists \cup DockerMutations
                 \cup {"docker containers inspect", "docker containers logs",
                       "docker containers stats"}
K8sMutations == {"k8s pods delete", "k8s deployments scale", "k8s deployments restart",
                 "k8s statefulsets scale", "k8s statefulsets restart",
                 "k8s daemonsets restart"}
K8sLists    == {"k8s contexts list", "k8s namespaces list", "k8s pods list",
                "k8s deployments list", "k8s statefulsets list", "k8s daemonsets list",
                "k8s services list", "k8s nodes list", "k8s events list",
                "k8s jobs list", "k8s cronjobs list", "k8s ingresses list",
                "k8s pvcs list"}
K8sInspects == {"k8s namespaces inspect", "k8s pods inspect", "k8s deployments inspect",
                "k8s statefulsets inspect", "k8s daemonsets inspect",
                "k8s services inspect", "k8s nodes inspect", "k8s events inspect",
                "k8s jobs inspect", "k8s cronjobs inspect", "k8s ingresses inspect",
                "k8s pvcs inspect"}
K8s         == K8sMutations \cup K8sLists \cup K8sInspects \cup {"k8s pods logs"}
Lists       == {"vm list"} \cup DockerLists \cup K8sLists
Logs        == {"docker containers logs", "k8s pods logs"}
Operations  == Vm \cup Docker \cup K8s \cup {"system upgrade", "system uninstall"}

Workspaced  == {"vm up", "vm down"}
Starting    == {"vm start", "vm up"}
(* The operations on one named resource. *)
Named       == (Docker \cup K8s) \ Lists

Flags == {"profile", "context", "workspace", "namespace", "allNamespaces",
          "name", "uid", "yes", "check", "dryRun", "watch", "follow", "sound"}
Request == [op : STRING, flags : SUBSET Flags]

Has(r, f) == f \in r.flags

Mutates(r) ==
    /\ r.op \in VmRecorded \cup VmConfigs \cup DockerMutations \cup K8sMutations
                 \cup {"system upgrade", "system uninstall"}
    /\ ~(Has(r, "check") /\ r.op = "system upgrade")
    /\ ~(Has(r, "dryRun") /\ r.op = "vm apply")

(* The first half of validate: the operation is known, confirmed and says  *)
(* which VM, daemon or cluster it is about.                                *)
ValidTarget(r) ==
    /\ r.op \in Operations /\ Has(r, "sound")
    /\ Mutates(r) => Has(r, "yes")
    /\ IF r.op \in Workspaced
         THEN Has(r, "workspace") /\ ~Has(r, "profile")
         ELSE ~Has(r, "workspace")
    /\ r.op \in Vm \ (Workspaced \cup {"vm list"}) => Has(r, "profile")
    /\ r.op \in Docker => (Has(r, "profile") # Has(r, "context"))
    /\ Has(r, "check") => r.op = "system upgrade"

(* The second half: the options that may not stand together.              *)
ValidOptions(r) ==
    /\ Has(r, "dryRun") => r.op = "vm apply"
    /\ r.op = "vm apply" => ~Has(r, "watch") /\ ~Has(r, "follow")
    /\ r.op \in K8s \ {"k8s contexts list"} => Has(r, "context")
    /\ Has(r, "allNamespaces") => ~Mutates(r) /\ r.op \in Lists
    /\ Mutates(r) => ~Has(r, "watch") /\ ~Has(r, "follow")
    /\ Has(r, "follow") => ~Has(r, "watch") /\ r.op \in Logs
    /\ Mutates(r) /\ r.op \in K8s => Has(r, "namespace")
    /\ r.op \in Named => Has(r, "name")

Valid(r) == ValidTarget(r) /\ ValidOptions(r)

(* Its worker owns a transaction: cancelling waits for the worker's result. *)
Managed(r) == (r.op \in Vm /\ Mutates(r)) \/ r.op = "system upgrade"
=============================================================================
