-------------------------- MODULE MCControlRequest --------------------------
(* ControlRequest for TLC: every operation with the flags it needs, and     *)
(* those requests with one flag more or less, valid or not.                 *)
EXTENDS ControlRequest

Base(op) ==
    [op |-> op, flags |-> {"sound", "yes"}
        \cup (IF op \in Vm \ Workspaced \/ op \in Docker THEN {"profile"} ELSE {})
        \cup (IF op \in Workspaced THEN {"workspace"} ELSE {})
        \cup (IF op \in K8s THEN {"context", "namespace"} ELSE {})
        \cup (IF op \in Named THEN {"name"} ELSE {})]

Toggle(r, f) == [r EXCEPT !.flags = IF f \in @ THEN @ \ {f} ELSE @ \cup {f}]

OverContext(r) == [r EXCEPT !.flags = (@ \ {"profile"}) \cup {"context"}]

MCRequests ==
    {Base(op) : op \in {"vm start", "vm reset", "vm apply", "system uninstall",
        "docker containers stop", "capabilities", "k8s contexts list"}}
    \cup {OverContext(Base(op)) : op \in {"docker containers logs", "docker containers delete"}}
    \cup {Toggle(Base("vm list"), "watch"), Toggle(Base("vm start"), "watch"),
          Base("k8s pods list"), Toggle(Base("k8s deployments scale"), "uid")}
=============================================================================
