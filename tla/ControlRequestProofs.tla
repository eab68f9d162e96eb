------------------------ MODULE ControlRequestProofs ------------------------
(***************************************************************************)
(* Proofs about headless requests, for any set of requests, any number of  *)
(* calls and any sizes of the event channel and the log pipe.              *)
(***************************************************************************)
EXTENDS ControlRequest, TLAPS

Working   == {"write", "waiting", "stopping"}
Connected == {"read", "logs", "send", "sent", "confirm"}
(* The request is under way and nothing was asked of anybody yet.          *)
Asking    == {"parsed", "spawn", "dial", "auth", "credential", "read", "logs",
              "send"}
Ended     == {"idle", "draining", "sleep"}

(* Which requests come to which stage.                                     *)
NoWatch == Mutates(req) => ~Has(req, "watch")
Lanes ==
    /\ pc # "idle" => call > 0
    /\ pc \notin Ended \cup {"parsed"} => NoWatch
    /\ pc = "draining" /\ code = "ok" => NoWatch
    /\ pc = "sleep" => ~Mutates(req)
    /\ pc \in {"auth", "credential"} => req.op \in K8s
    /\ pc = "dial" => req.op \in Docker
    /\ pc \in {"send", "sent", "confirm"} => Mutates(req)
    /\ pc = "logs" => ~Mutates(req)

(* The processes of a request.                                             *)
Owned ==
    /\ Alive => pc \in Working
    /\ group.leader \in {"alive", "zombie"} =>
          /\ pc \in Connected \cup {"dial", "credential"}
          /\ req.op \in Docker => Has(req, "context")
    /\ group.leader = "none" => ~group.helper
    /\ group.leader = "reaped" /\ req.op \in Docker => ~group.helper
    /\ pc \in Connected /\ req.op \in Docker /\ Has(req, "context") => responded

(* Nothing of the call c took effect, or will.                             *)
Clean(c) == c \notin applied /\ \A f \in flights : f.by # c

(* What the call under way has done, by its stage.                         *)
Effects ==
    /\ pc \in Asking => Clean(call)
    /\ pc \in Asking \cup Working => target[call] = 0 /\ reply = "none"
    /\ pc \in Working =>
          /\ \A f \in flights : f.by # call
          /\ worker.st \in {"boot", "ready", "begun", "mended"} => call \notin applied
          /\ req.op \in Docker => call \notin applied
          /\ worker.result \in NoEffect => call \notin applied
          /\ worker.result = "ok" /\ Mutates(req) /\ req.op \notin Docker
                => call \in applied
    /\ pc = "sent" =>
          /\ reply \in {"none"} \cup Rejections => call \notin applied
          /\ reply # "none" => \A f \in flights : f.by # call
          /\ reply = "done" => call \in applied
    /\ pc = "confirm" => call \in applied
    /\ pc = "draining" /\ code \in NoEffect => Clean(call)
    /\ pc = "draining" /\ code = "ok" /\ Mutates(req) => call \in applied
    /\ call > 0 /\ ~Mutates(req) => Clean(call) /\ target[call] = 0

(* Calls that were answered, and calls still to come.                      *)
Answers ==
    /\ \A c \in Calls : c > call => Clean(c) /\ answers[c] = "none" /\ target[c] = 0
    /\ \A c \in Calls : answers[c] \in NoEffect => Clean(c) /\ (c = call => pc = "idle")
    /\ pc = "idle" /\ call > 0 /\ Mutates(req) /\ answers[call] = "ok"
          => call \in applied

(* A mutation under way is the only one of its call, and is about what the *)
(* call read.                                                              *)
Flights ==
    /\ object.uid # 0
    /\ pc = "send" => seen[call].uid # 0
    /\ \A f \in flights : f.uid # 0 /\ f.uid = seen[f.by].uid
    /\ \A f, g \in flights : f.by = g.by => f = g
    /\ \A c \in Calls : target[c] \in {0, seen[c].uid}

(* The record of the operation on a VM.                                    *)
Recorded ==
    /\ worker.st \in {"begun", "mended", "changed"} =>
          record.status = "running" /\ req.op \in VmRecorded
    /\ Unsettled # {} => record.status \in {"running", "outcomeUnknown"} \/ record.recovery
    /\ worker.st = "begun" /\ Unsettled # {} => worker.unknown
    /\ worker.st = "mended" /\ Unsettled \ {call} # {} => worker.unknown
    /\ worker.st \in {"boot", "ready", "begun", "mended", "changed"} =>
          worker.result = "none"
    /\ worker.st = "changed" => call \in applied

Drains == tail <= pipe

(* Calls that changed something on the way: only a start or a reset, and   *)
(* none that is told that nothing was changed.                             *)
Served == Connected \cup {"parsed", "dial", "auth", "credential"}
Halfway == Starting \cup {"vm reset"}
Parts ==
    /\ call \in ledger.partly => req.op \in Halfway
    /\ pc \in Served => call \notin ledger.partly
    /\ worker.result \in Untouched => call \notin ledger.partly
    /\ pc = "draining" /\ code \in Untouched => call \notin ledger.partly
    /\ \A c \in Calls : answers[c] \in Untouched \/ c > call => c \notin ledger.partly

IInv == TypeOK /\ Lanes /\ Owned /\ Effects /\ Answers /\ Flights /\ Recorded
        /\ Drains /\ Parts

-----------------------------------------------------------------------------
(* What the registry says about the operations.                            *)
LEMMA Registry ==
    /\ Docker \cap K8s = {} /\ Docker \cap VmRecorded = {}
    /\ Docker \cap (VmConfigs \cup {"vm down", "system upgrade", "system uninstall"}) = {}
    /\ \A r : Valid(r) /\ Mutates(r) => ~Has(r, "watch")
    /\ \A r : r.op \in VmRecorded => Mutates(r)
    /\ \A r : r.op \in VmReads \cup Logs \cup Lists \cup {"capabilities"} => ~Mutates(r)
    /\ Docker \cap K8s = {} /\ Lists \cap Named = {}
    /\ (Docker \cup K8s) \ Named \subseteq Lists
    /\ \A r : Local(r) => r.op \in Lists \cup {"capabilities"}
    /\ \A r : r.op \in Halfway => Mutates(r) /\ r.op \notin Docker \cup K8s
    /\ Halfway \cap (VmConfigs \cup {"vm down", "system upgrade", "system uninstall"}) = {}
<1>1. /\ Docker \cap K8s = {} /\ Docker \cap VmRecorded = {}
      /\ Docker \cap (VmConfigs \cup {"vm down", "system upgrade", "system uninstall"}) = {}
      BY DEF Docker, DockerLists, DockerMutations, Confirmed, K8s, K8sMutations,
             K8sLists, K8sInspects, VmRecorded, VmConfigs
<1>2. \A r : Valid(r) /\ Mutates(r) => ~Has(r, "watch")
      BY DEF Valid, ValidOptions
<1>3. \A r : r.op \in VmRecorded => Mutates(r)
      BY DEF VmRecorded, Mutates
<1>4. \A r : r.op \in VmReads \cup Logs \cup Lists \cup {"capabilities"} => ~Mutates(r)
      BY DEF VmReads, Logs, Lists, DockerLists, K8sLists, Mutates, VmRecorded, VmConfigs,
             DockerMutations, Confirmed, K8sMutations
<1>5. Lists \cap Named = {} /\ (Docker \cup K8s) \ Named \subseteq Lists
      BY DEF Named
<1>6. \A r : Local(r) => r.op \in Lists \cup {"capabilities"}
      BY DEF Local, Lists, K8sLists
<1>7. Halfway \subseteq VmRecorded \ {"vm down"}
      BY DEF Halfway, Starting, VmRecorded
<1>8. VmRecorded \cap K8s = {} /\ VmRecorded \cap VmConfigs = {}
      /\ "system upgrade" \notin VmRecorded /\ "system uninstall" \notin VmRecorded
      BY DEF VmRecorded, K8s, K8sMutations, K8sLists, K8sInspects, VmConfigs
<1> QED BY <1>1, <1>2, <1>3, <1>4, <1>5, <1>6, <1>7, <1>8

(* The answers of a worker are codes of the table.                         *)
LEMMA FailureCodes ==
    /\ \A rc : apply_failure_code(rc) \in Codes \ {"ok"}
    /\ \A op, rc, u : control_failure_code(op, rc, u) \in Codes \ {"ok"}
    /\ apply_failure_code("fail") \notin NoEffect
    /\ apply_failure_code("uncertain") \notin NoEffect
    /\ \A op, u : control_failure_code(op, "fail", u) \notin NoEffect
    /\ \A op, u : control_failure_code(op, "uncertain", u) \notin NoEffect
BY DEF apply_failure_code, control_failure_code, Codes, NoEffect

(* A recorded operation never says that nothing at all was changed.        *)
Results == {"ok", "fail", "refused", "damaged", "cancelled", "restart"}
LEMMA PartialCodes ==
    /\ \A rc \in Results : apply_failure_code(rc) \notin Untouched
    /\ \A rc \in Results : \A op, u : control_failure_code(op, rc, u) \notin Untouched
    /\ {"ok", "profileUnavailable", "none", "unread"} \cap Untouched = {}
    /\ {"coreUnavailable", "coreProtocol", "outcomeUnknown", "cancelled", "timeout"}
          \cap Untouched = {}
BY DEF Results, apply_failure_code, control_failure_code, NoEffect, Untouched

(* A worker that replies keeps the rest of what it is.                     *)
LEMMA ReplyTypes ==
    ASSUME worker \in Workers, NEW rc, NEW rec, Replies(rc, rec)
    PROVE  /\ worker' \in Workers /\ worker'.st = "reply"
           /\ worker'.result = "ok" => rc = "ok"
           /\ rc \in {"ok", "fail", "uncertain"} => worker'.result \notin NoEffect
           /\ worker'.id = worker.id
           /\ rc \in Results => worker'.result \notin Untouched
<1>1. PICK ans \in Codes :
          /\ worker' = [worker EXCEPT !.st = "reply", !.result = ans]
          /\ ans = "ok" => rc = "ok"
          /\ rc \in {"ok", "fail", "uncertain"} => ans \notin NoEffect
          /\ rc \in Results => ans \notin Untouched
  <2>1. CASE rc = "ok"
        BY <2>1, PartialCodes DEF Replies, Codes, NoEffect
  <2>2. CASE rc # "ok"
    <3>1. CASE req.op = "vm apply"
          BY <2>2, <3>1, FailureCodes, PartialCodes DEF Replies
    <3>2. CASE req.op # "vm apply"
          BY <2>2, <3>2, FailureCodes, PartialCodes DEF Replies
    <3> QED BY <3>1, <3>2
  <2> QED BY <2>1, <2>2
<1> QED BY <1>1 DEF Workers

(* The record is closed and the worker answers for it, or it stays open and *)
(* the worker fails.                                                       *)
Statuses == {"none", "running", "completed", "outcomeUnknown", "cancelled",
             "failed", "restartRequired"}
LEMMA FinishRecord ==
    ASSUME worker \in Workers, record \in Records, NEW rc,
           NEW status \in Statuses, NEW recovery \in BOOLEAN,
           finish_record(rc, status, recovery)
    PROVE  /\ worker' \in Workers /\ worker'.st = "reply" /\ record' \in Records
           /\ \/ record' = record
              \/ record'.status = status /\ record'.recovery = recovery
           /\ worker'.result = "ok" => rc = "ok"
           /\ worker'.result \in NoEffect => rc \notin {"ok", "fail", "uncertain"}
           /\ rc \in Results => worker'.result \notin Untouched
<1>r. "fail" \in Results
      BY DEF Results
<1>1. CASE UNCHANGED record /\ Replies("fail", record)
      BY <1>1, <1>r, ReplyTypes
<1>2. CASE /\ record' = [record EXCEPT !.status = status, !.recovery = recovery]
           /\ \/ Replies(rc, [record EXCEPT !.status = status, !.recovery = recovery])
              \/ Replies("fail", [record EXCEPT !.status = status, !.recovery = recovery])
  <2>1. record' \in Records /\ record'.status = status /\ record'.recovery = recovery
        BY <1>2 DEF Records, Statuses
  <2> QED BY <1>2, <1>r, <2>1, ReplyTypes
<1> QED BY <1>1, <1>2 DEF finish_record

LEMMA OperationFinish ==
    ASSUME worker \in Workers, record \in Records, NEW result,
           NEW restored \in BOOLEAN, operation_finish(result, restored)
    PROVE  /\ worker' \in Workers /\ worker'.st = "reply" /\ record' \in Records
           /\ \/ record' = record
              \/ result = "ok"
              \/ ~restored /\ record'.status = "outcomeUnknown"
              \/ result # "ok" /\ restored
           /\ worker'.result = "ok" => result = "ok"
           /\ ~restored /\ worker'.result \in NoEffect => result \notin {"ok", "fail"}
           /\ result = "ok" => worker'.result \notin NoEffect
           /\ result \in Results => worker'.result \notin Untouched
<1> DEFINE rc == IF result # "ok" /\ restored /\ worker.cancelled THEN "cancelled"
                                                                 ELSE result
           status == CASE rc = "ok"        -> "completed"
                       [] rc # "ok" /\ ~restored -> "outcomeUnknown"
                       [] rc = "cancelled" /\ restored -> "cancelled"
                       [] OTHER            -> "failed"
<1>1. status \in Statuses /\ (rc # "ok" /\ ~restored => status = "outcomeUnknown")
      BY DEF Statuses
<1>2. finish_record(rc, status, FALSE)
      BY DEF operation_finish
<1>3. /\ result = "ok" <=> rc = "ok"
      /\ ~restored => rc = result
      /\ result \in Results => rc \in Results
      BY DEF Results
<1> HIDE DEF rc, status
<1>4. /\ worker' \in Workers /\ worker'.st = "reply" /\ record' \in Records
      /\ \/ record' = record
         \/ record'.status = status /\ record'.recovery = FALSE
      /\ worker'.result = "ok" => rc = "ok"
      /\ worker'.result \in NoEffect => rc \notin {"ok", "fail", "uncertain"}
      /\ rc \in Results => worker'.result \notin Untouched
      BY <1>1, <1>2, FinishRecord
<1> QED BY <1>1, <1>3, <1>4

-----------------------------------------------------------------------------
(* Types.                                                                  *)

Groups == [leader : {"none", "alive", "zombie", "reaped"}, helper : BOOLEAN]
LEMMA FinishTypes ==
    ASSUME group \in Groups, NEW c, Finish(c)
    PROVE  group' \in Groups /\ code' = c /\ pc' = "draining"
BY DEF Finish, TerminateGroup, Groups

LEMMA FrontTypes ==
    ASSUME IInv, Front PROVE TypeOK'
<1> USE DEF vars, core, remote, Groups
<1>a. TypeOK /\ Lanes /\ Drains
      BY DEF IInv
<1>b. group \in Groups
      BY <1>a DEF TypeOK
<1>c. NoWorker \in Workers /\ NoGroup \in Groups
      BY DEF NoWorker, NoGroup, Workers, Codes
<1>d. \A c : Finish(c) => group' \in Groups /\ code' = c /\ pc' = "draining"
      BY <1>b, FinishTypes
<1>e. {"ok", "invalidRequest", "configurationInvalid", "cancelled", "outcomeUnknown",
       "coreUnavailable", "coreProtocol", "dockerUnavailable", "contextNotFound",
       "authenticationRequired", "authenticationFailed", "responseTooLarge",
       "invalidResponse", "streamDisconnected", "conflict"} \subseteq Codes
      /\ ReadFailures \subseteq Codes /\ "none" \in Codes /\ Rejections \subseteq Codes
      BY DEF Codes, NoEffect, ReadFailures, Rejections
<1>f. pc # "idle" => call \in Calls
      BY <1>a DEF TypeOK, Lanes, Calls
<1>g. /\ [leader |-> "alive", helper |-> FALSE] \in Groups
      /\ [group EXCEPT !.leader = "reaped"] \in Groups
      BY <1>b
<1> HIDE DEF Groups
<1>1. CASE Accept
  <2>1. /\ call' \in 0..MaxCalls /\ queued' \in 0..EventCap
        /\ pipe' \in 0..PipeCap /\ tail' \in -1..PipeCap
        BY <1>1, <1>a, CallsAssumption DEF TypeOK, Accept
  <2>2. /\ req' \in RequestSet /\ pc' = "parsed" /\ code' \in Codes
        /\ cancel' \in BOOLEAN /\ reader' \in BOOLEAN /\ responded' \in BOOLEAN
        /\ worker' \in Workers /\ group' \in Groups /\ reply' = "none"
        BY <1>1, <1>c, <1>e DEF Accept
  <2> QED BY <1>1, <1>a, <2>1, <2>2 DEF TypeOK, Accept, Groups
<1>2. CASE Route
  <2>1. /\ group' \in Groups /\ code' \in Codes
        /\ pc' \in {"draining", "dial", "auth", "spawn"}
    <3>1. CASE \E c \in Codes : Finish(c)
          BY <3>1, <1>d
    <3>2. CASE ~\E c \in Codes : Finish(c)
      <4>1. /\ pc' = CASE req.op \in Docker /\ Has(req, "context") -> "dial"
                        [] req.op \in K8s -> "auth"
                        [] OTHER -> "spawn"
            /\ UNCHANGED <<code, group>>
            BY <1>2, <1>e, <3>2 DEF Route
      <4>2. ~(req.op \in Docker /\ req.op \in K8s)
            BY Registry
      <4> QED BY <1>a, <4>1, <4>2 DEF TypeOK, Groups
    <3> QED BY <3>1, <3>2
  <2> QED BY <1>2, <1>a, <2>1 DEF TypeOK, Route, Groups
<1>3. CASE WriteResult
      BY <1>3, <1>a, <1>f DEF TypeOK, WriteResult
<1>4. CASE WatchAgain
      BY <1>4, <1>a, <1>c, <1>e, <1>f DEF TypeOK, WatchAgain, Groups
<1>5. CASE SpawnWorker
  <2>1. [NoWorker EXCEPT !.st = "boot", !.id = 2 * call + worker.attempt,
                         !.attempt = worker.attempt] \in Workers
    <3>1. 2 * call + worker.attempt \in Nat /\ worker.attempt \in 1..2
          BY <1>a, CallsAssumption DEF TypeOK, Workers
    <3> QED BY <1>c, <3>1 DEF Workers
  <2>2. worker' \in Workers /\ group' \in Groups /\ code' \in Codes
        /\ pipe' \in 0..PipeCap /\ tail' \in -1..PipeCap
        BY <1>5, <1>a, <1>d, <1>e, <2>1, CallsAssumption
        DEF SpawnWorker, TypeOK, Groups
  <2> QED BY <1>5, <1>a, <1>d, <2>2 DEF TypeOK, SpawnWorker, Groups
<1>6. CASE WriteRequest
  <2>1. worker' \in Workers
        BY <1>6, <1>a DEF WriteRequest, TypeOK, Workers
  <2> QED BY <1>6, <1>a, <1>d, <1>e, <2>1 DEF TypeOK, WriteRequest, Groups
<1>7. CASE WorkerDone
  <2>1. worker' \in Workers /\ worker.result \in Codes
        BY <1>7, <1>a, <1>c DEF WorkerDone, TypeOK, Workers
  <2>2. /\ group' \in Groups /\ code' \in Codes
        /\ pc' \in {"draining", "spawn", "dial"}
        BY <1>7, <1>a, <1>d, <1>e, <2>1 DEF TypeOK, WorkerDone, Groups
  <2> QED BY <1>7, <1>a, <2>1, <2>2 DEF TypeOK, WorkerDone, Groups
<1>20. CASE ReplyCut
  <2>1. [NoWorker EXCEPT !.st = "cut"] \in Workers
        BY <1>c DEF Workers
  <2>2. worker' \in Workers /\ Finish("coreProtocol")
        BY <1>20, <1>c, <2>1 DEF ReplyCut
  <2> QED BY <1>20, <1>a, <1>d, <1>e, <2>2 DEF TypeOK, ReplyCut, Groups
<1>8. CASE DialContext
  <2>1. CASE Finish("dockerUnavailable")
        BY <1>8, <2>1, <1>a, <1>d, <1>e DEF TypeOK, DialContext, Groups
  <2>2. CASE group' = [leader |-> "alive", helper |-> FALSE] /\ UNCHANGED <<pc, code>>
        BY <1>8, <2>2, <1>a, <1>g DEF TypeOK, DialContext, Groups
  <2> QED BY <1>8, <2>1, <2>2 DEF DialContext
<1>9. CASE Negotiate
  <2>1. Has(req, "context") \in BOOLEAN
        BY DEF Has
  <2>2. responded' \in BOOLEAN
        BY <1>9, <1>a, <2>1, Zenon DEF Negotiate, TypeOK
  <2>3. group' \in Groups /\ code' \in Codes /\ pc' \in {"read", "draining"}
        BY <1>9, <1>a, <1>d, <1>e DEF Negotiate, TypeOK, Groups
  <2> QED BY <1>9, <1>a, <2>2, <2>3 DEF TypeOK, Negotiate, Groups
<1>10. CASE LoadClient
      BY <1>10, <1>a, <1>d, <1>e DEF TypeOK, LoadClient, Groups
<1>11. CASE ResolveCredential
  <2>1. group' \in Groups /\ code' \in Codes
        /\ pc' \in {"read", "credential", "draining"}
    <3>1. CASE Finish("authenticationFailed")
          BY <3>1, <1>d, <1>e
    <3>2. CASE ~Finish("authenticationFailed")
          BY <1>11, <3>2, <1>a, <1>b, <1>g DEF TypeOK, ResolveCredential
    <3> QED BY <3>1, <3>2
  <2> QED BY <1>11, <1>a, <2>1 DEF TypeOK, ResolveCredential, Groups
<1>12. CASE ReadContainer
  <2>1. seen' \in [Calls -> Resources]
        BY <1>12, <1>a, <1>f DEF ReadContainer, TypeOK
  <2> QED BY <1>12, <1>a, <1>d, <1>e, <2>1 DEF TypeOK, ReadContainer, Groups
<1>13. CASE ListObjects
  <2>1. \E c \in Codes : Finish(c)
        BY <1>13, <1>e DEF ListObjects
  <2> QED BY <1>13, <1>a, <1>d, <2>1 DEF TypeOK, ListObjects, Groups
<1>14. CASE ReadObject
  <2>1. seen' \in [Calls -> Resources]
        BY <1>14, <1>a, <1>f DEF ReadObject, TypeOK
  <2>2. \/ UNCHANGED <<code, group>> /\ pc' \in {"send", "logs"}
        \/ \E c \in Codes : Finish(c)
        BY <1>14, <1>e DEF ReadObject
  <2> QED BY <1>14, <1>a, <1>d, <2>1, <2>2 DEF TypeOK, ReadObject, Groups
<1>15. CASE LogEnd
  <2>1. \E c \in Codes : Finish(c)
        BY <1>15, <1>e DEF LogEnd
  <2> QED BY <1>15, <1>a, <1>d, <2>1 DEF TypeOK, LogEnd, Groups
<1>16. CASE Send
  <2>1. seen[call] \in Resources
        BY <1>16, <1>a, <1>f DEF Send, TypeOK
  <2>2. flights' \subseteq [by : Calls, uid : Nat, rv : Nat]
        BY <1>16, <1>a, <1>f, <2>1
        DEF Send, TypeOK, ContainerCall, ObjectPatch, Resources
  <2> QED BY <1>16, <1>a, <2>2 DEF TypeOK, Send
<1>17. CASE Answered
  <2>1. mutation_failure(reply) \in Codes
        BY <1>e DEF mutation_failure
  <2>2. /\ group' \in Groups /\ code' \in Codes /\ pc' \in {"confirm", "draining"}
    <3>1. CASE \E c \in Codes : Finish(c)
          BY <3>1, <1>d
    <3>2. CASE ~\E c \in Codes : Finish(c)
          BY <1>17, <3>2, <2>1, <1>a, <1>b, <1>e DEF TypeOK, Answered
    <3> QED BY <3>1, <3>2
  <2> QED BY <1>17, <1>a, <2>2 DEF TypeOK, Answered, Groups
<1>18. CASE Confirm
      BY <1>18, <1>a, <1>d, <1>e DEF TypeOK, Confirm, Groups
<1>19. CASE TransportFailed
      BY <1>19, <1>a, <1>d, <1>e DEF TypeOK, TransportFailed, Groups
<1> QED BY <1>1, <1>2, <1>3, <1>4, <1>5, <1>6, <1>7, <1>8, <1>9, <1>10, <1>11,
           <1>12, <1>13, <1>14, <1>15, <1>16, <1>17, <1>18, <1>19, <1>20 DEF Front

Ledgers == [open : SUBSET Calls, covered : SUBSET Calls, partly : SUBSET Calls]
LEMMA CoreTypes ==
    ASSUME IInv, Core PROVE TypeOK'
<1> USE DEF vars, core, remote
<1>a. TypeOK /\ Lanes /\ Owned
      BY DEF IInv
<1>l. ledger \in Ledgers
      BY <1>a DEF TypeOK, Ledgers
<1>b. worker \in Workers /\ record \in Records /\ applied \subseteq Calls
      BY <1>a DEF TypeOK
<1>c. Alive => call \in Calls
      BY <1>a DEF TypeOK, Lanes, Owned, Working, Calls
<1>d. \A rc, rec : Replies(rc, rec) => worker' \in Workers
      BY <1>b, ReplyTypes
<1>1. CASE CoreQuery
  <2>1. worker' \in Workers
        BY <1>1, <1>b DEF CoreQuery, Workers, Codes
  <2> QED BY <1>1, <1>a, <2>1 DEF TypeOK, CoreQuery
<1>2. CASE CoreUnrecorded
  <2>1. worker' \in Workers
        BY <1>2, <1>d DEF CoreUnrecorded
  <2>2. applied' \subseteq Calls
        BY <1>2, <1>b, <1>c DEF CoreUnrecorded, Executes, Alive
  <2>3. UNCHANGED <<call, req, pc, code, cancel, queued, reader, group, responded,
                    answers, core, object, flights, reply, seen, target>>
        BY <1>2 DEF CoreUnrecorded
  <2> QED BY <1>a, <2>1, <2>2, <2>3 DEF TypeOK
<1>3. CASE operation_begin
  <2>1. CASE \E rec : Replies("fail", rec) /\ UNCHANGED record
        BY <1>3, <1>a, <1>d, <2>1 DEF TypeOK, operation_begin
  <2>2. CASE /\ record' = [status |-> "running", owner |-> worker.id, recovery |-> FALSE]
             /\ worker' = [worker EXCEPT !.st = "begun",
                   !.unknown = Snapshot.status = "outcomeUnknown" \/ Snapshot.recovery]
    <3>0. (Snapshot.status = "outcomeUnknown" \/ Snapshot.recovery) \in BOOLEAN
          OBVIOUS
    <3>1. PICK b \in BOOLEAN : worker' = [worker EXCEPT !.st = "begun", !.unknown = b]
          BY <2>2, <3>0, Zenon
    <3>2. worker' \in Workers
          BY <1>b, <3>1 DEF Workers
    <3>3. record' \in Records
          BY <2>2, <1>b DEF Workers, Records
    <3> QED BY <1>3, <1>a, <3>2, <3>3 DEF TypeOK, operation_begin
  <2>3. CASE /\ record' = [status |-> "outcomeUnknown", owner |-> worker.id,
                           recovery |-> FALSE]
             /\ Replies("fail", record')
    <3>1. worker' \in Workers
          BY <2>3, <1>d
    <3>2. record' \in Records
          BY <2>3, <1>b DEF Workers, Records
    <3> QED BY <1>3, <1>a, <3>1, <3>2 DEF TypeOK, operation_begin
  <2> QED BY <1>3, <2>1, <2>2, <2>3 DEF operation_begin
<1>4. CASE CoreRefuse
  <2>1. worker.unknown \in BOOLEAN
        BY <1>b DEF Workers
  <2>2. worker' \in Workers /\ record' \in Records
        BY <1>4, <1>b, <2>1, OperationFinish DEF CoreRefuse, operation_finish_unchanged
  <2> QED BY <1>4, <1>a, <2>2 DEF TypeOK, CoreRefuse
<1>5. CASE CoreRestart
  <2>1. worker.unknown \in BOOLEAN /\ "restartRequired" \in Statuses
        BY <1>b DEF Workers, Statuses
  <2>2. worker' \in Workers /\ record' \in Records
        BY <1>5, <1>b, <2>1, FinishRecord DEF CoreRestart, operation_restart_required
  <2>3. ledger' \in Ledgers
        BY <1>5, <1>l DEF CoreRestart, Ledgers
  <2> QED BY <1>5, <1>a, <2>2, <2>3 DEF TypeOK, CoreRestart, Ledgers
<1>9. CASE CoreMend
  <2>1. worker' \in Workers
        BY <1>9, <1>b DEF CoreMend, Workers
  <2>2. ledger' \in Ledgers
        BY <1>9, <1>l, <1>c DEF CoreMend, Alive, Ledgers
  <2> QED BY <1>9, <1>a, <2>1, <2>2 DEF TypeOK, CoreMend, Ledgers
<1>6. CASE CoreChange
  <2>1. worker' \in Workers
        BY <1>6, <1>b DEF CoreChange, Workers
  <2>2. applied' \subseteq Calls /\ ledger' \in Ledgers
        BY <1>6, <1>b, <1>c, <1>l DEF CoreChange, Alive, Ledgers
  <2> QED BY <1>6, <1>a, <2>1, <2>2 DEF TypeOK, CoreChange, Ledgers
<1>7. CASE CoreSucceed
  <2>1. worker' \in Workers /\ record' \in Records
        BY <1>7, <1>b, OperationFinish DEF CoreSucceed
  <2>2. ledger' \in Ledgers /\ applied' \subseteq Calls
        BY <1>7, <1>b, <1>c, <1>l DEF CoreSucceed, Alive, Ledgers
  <2> QED BY <1>7, <1>a, <2>1, <2>2 DEF TypeOK, CoreSucceed, Ledgers
<1>8. CASE CoreFail
  <2>1. PICK restored \in BOOLEAN, rc \in {"fail", "damaged", "refused"} :
            /\ operation_finish(rc, restored)
            /\ IF restored
                 THEN /\ applied' = applied \ {call}
                      /\ \E part \in {{}, {call}} :
                           ledger' = [open |-> ledger.open \ {call},
                                      covered |-> ledger.covered \cup (ledger.open \ {call}),
                                      partly |-> ledger.partly \cup part]
                 ELSE UNCHANGED <<ledger, applied>>
        BY <1>8 DEF CoreFail, Restorable
  <2>2. worker' \in Workers /\ record' \in Records
        BY <1>b, <2>1, OperationFinish
  <2>3. ledger' \in Ledgers /\ applied' \subseteq Calls
    <3>1. call \in Calls
          BY <1>8, <1>c DEF CoreFail, Alive
    <3>2. CASE restored
          BY <1>b, <1>l, <2>1, <3>1, <3>2 DEF Ledgers
    <3>3. CASE ~restored
          BY <1>b, <1>l, <2>1, <3>3
    <3> QED BY <3>2, <3>3
  <2>4. UNCHANGED <<call, req, pc, code, cancel, queued, reader, group, responded,
                    answers, image, pipe, tail, object, flights, reply, seen, target>>
        BY <1>8 DEF CoreFail
  <2> QED BY <1>a, <2>2, <2>3, <2>4 DEF TypeOK, Ledgers
<1> QED BY <1>1, <1>2, <1>3, <1>4, <1>5, <1>6, <1>7, <1>8, <1>9 DEF Core

(* Everything else: signals, the output, deaths, and the servers.          *)
Environment ==
    Cancel \/ ReaderLeaves \/ Deliver \/ Interrupted \/ Deadline
    \/ StopWorker \/ WorkerReady \/ WorkerDies \/ WorkerExits \/ Helper \/ LeaderExits
    \/ LogLine \/ LogWritten \/ live_error \/ ServerApplies \/ ServerRefuses \/ Others

LEMMA EnvironmentTypes ==
    ASSUME IInv, Environment PROVE TypeOK' /\ Drains'
<1> USE DEF vars, core, remote
<1>a. TypeOK /\ Lanes /\ Drains
      BY DEF IInv
<1>b. worker \in Workers /\ group \in Groups
      BY <1>a DEF TypeOK, Groups
<1>1. CASE Cancel
      BY <1>1, <1>a DEF TypeOK, Drains, Cancel
<1>2. CASE ReaderLeaves
  <2>1. reader' \in BOOLEAN
        BY <1>2 DEF ReaderLeaves
  <2> QED BY <1>2, <1>a, <2>1 DEF TypeOK, Drains, ReaderLeaves
<1>3. CASE Deliver
  <2>1. queued' \in 0..EventCap
        BY <1>3, <1>a, CallsAssumption DEF TypeOK, Deliver
  <2>2. cancel' \in BOOLEAN
        BY <1>3, <1>a DEF TypeOK, Deliver
  <2> QED BY <1>3, <1>a, <2>1, <2>2 DEF TypeOK, Drains, Deliver
<1>4. ASSUME NEW c \in {"cancelled", "timeout"}, Dropped(c)
      PROVE  TypeOK' /\ Drains'
  <2>1. worker' \in Workers
        BY <1>4, <1>b DEF Dropped, Workers
  <2>2. \E d \in Codes : Finish(d)
        BY <1>4 DEF Dropped, Codes, NoEffect
  <2>3. group' \in Groups /\ code' \in Codes /\ pc' = "draining"
        BY <1>b, <2>2, FinishTypes
  <2> QED BY <1>4, <1>a, <2>1, <2>3 DEF TypeOK, Drains, Dropped, Groups
<1>5. CASE StopWorker
  <2>1. worker' \in Workers
        BY <1>5, <1>b DEF StopWorker, Workers
  <2> QED BY <1>5, <1>a, <2>1 DEF TypeOK, Drains, StopWorker
<1>6. CASE WorkerReady
  <2>1. worker' \in Workers
        BY <1>6, <1>b DEF WorkerReady, Workers
  <2> QED BY <1>6, <1>a, <2>1 DEF TypeOK, Drains, WorkerReady
<1>7. CASE WorkerDies
  <2>1. worker' \in Workers
        BY <1>7, <1>b DEF WorkerDies, Workers, Codes
  <2> QED BY <1>7, <1>a, <2>1 DEF TypeOK, Drains, WorkerDies
<1>8. CASE WorkerExits
  <2>1. worker' \in Workers
        BY <1>8, <1>b DEF WorkerExits, Workers
  <2> QED BY <1>8, <1>a, <2>1 DEF TypeOK, Drains, WorkerExits
<1>9. CASE Helper
  <2>1. group' \in Groups
        BY <1>9, <1>b DEF Helper, Groups
  <2> QED BY <1>9, <1>a, <2>1 DEF TypeOK, Drains, Helper, Groups
<1>10. CASE LeaderExits
  <2>1. group' \in Groups
        BY <1>10, <1>b DEF LeaderExits, Groups
  <2> QED BY <1>10, <1>a, <2>1 DEF TypeOK, Drains, LeaderExits, Groups
<1>11. CASE LogLine
  <2>1. queued' \in 0..EventCap
        BY <1>11, <1>a, CallsAssumption DEF TypeOK, LogLine, HasRoom
  <2> QED BY <1>11, <1>a, <2>1 DEF TypeOK, Drains, LogLine
<1>12. CASE LogWritten
  <2>1. pipe' \in 0..PipeCap /\ tail <= pipe'
        BY <1>12, <1>a, CallsAssumption DEF TypeOK, Drains, LogWritten
  <2> QED BY <1>12, <1>a, <2>1 DEF TypeOK, Drains, LogWritten
<1>13. CASE live_error
  <2>1. pipe' \in 0..PipeCap /\ tail' \in -1..PipeCap /\ tail' <= pipe'
        BY <1>13, <1>a, CallsAssumption DEF TypeOK, Drains, live_error
  <2> QED BY <1>13, <1>a, <2>1 DEF TypeOK, Drains, live_error
<1>14. ASSUME NEW f \in flights, NEW answer \in {"done", "broken"} \cup Rejections,
              Decide(f, answer), object' \in Resources, applied' \subseteq Calls,
              target' \in [Calls -> Nat]
       PROVE  TypeOK' /\ Drains'
  <2>1. flights' \subseteq [by : Calls, uid : Nat, rv : Nat]
        BY <1>14, <1>a DEF Decide, TypeOK
  <2>2. reply' \in {"none", "done", "broken"} \cup Rejections
        BY <1>14, <1>a DEF Decide, TypeOK
  <2> QED BY <1>14, <1>a, <2>1, <2>2 DEF TypeOK, Drains, Decide
<1>15. CASE ServerApplies
  <2>1. PICK f \in flights, answer \in {"done", "broken"} :
          /\ object' = [object EXCEPT !.rv = @ + 1]
          /\ applied' = applied \cup {f.by}
          /\ target' = [target EXCEPT ![f.by] = object.uid]
          /\ Decide(f, answer)
        BY <1>15 DEF ServerApplies
  <2>2. f.by \in Calls /\ object \in Resources
        BY <1>a DEF TypeOK
  <2>3. object.uid \in Nat /\ object.rv + 1 \in Nat
        BY <2>2 DEF Resources
  <2>4. object' \in Resources
        BY <2>1, <2>2, <2>3 DEF Resources
  <2>5. applied' \subseteq Calls /\ target' \in [Calls -> Nat]
        BY <1>a, <2>1, <2>2, <2>3 DEF TypeOK
  <2> QED BY <1>14, <2>1, <2>4, <2>5
<1>16. CASE ServerRefuses
  <2>1. PICK f \in flights, answer \in Rejections \cup {"broken"} :
          UNCHANGED <<object, applied, target>> /\ Decide(f, answer)
        BY <1>16 DEF ServerRefuses
  <2> QED BY <1>14, <1>a, <2>1 DEF TypeOK
<1>17. CASE Others
  <2>1. PICK n \in {0, 1} : object' = [uid |-> object.uid + n, rv |-> object.rv + 1]
        BY <1>17 DEF Others
  <2>2. object' \in Resources
        BY <1>a, <2>1 DEF TypeOK, Resources
  <2> QED BY <1>17, <1>a, <2>2 DEF TypeOK, Drains, Others
<1> QED BY <1>1, <1>2, <1>3, <1>4, <1>5, <1>6, <1>7, <1>8, <1>9, <1>10, <1>11,
           <1>12, <1>13, <1>15, <1>16, <1>17
        DEF Environment, Interrupted, Deadline

-----------------------------------------------------------------------------
(* The other parts of the invariant, by what a step may change.            *)
Rest == Lanes /\ Owned /\ Effects /\ Answers /\ Flights /\ Recorded

(* Output, signals and logs.                                               *)
LEMMA QuietStep ==
    ASSUME Rest,
           UNCHANGED <<call, req, pc, code, worker, group, responded, answers,
                       record, ledger, remote>>
    PROVE  Rest'
BY DEF Rest, remote, Lanes, NoWatch, Owned, Alive, Effects, Clean, Answers,
       Flights, Recorded, Unsettled

(* A request ends: what it owned is gone, and its answer is true.          *)
LEMMA FinishStep ==
    ASSUME IInv, pc \notin Ended, NEW c, Finish(c), ~Alive',
           UNCHANGED <<call, req, answers, applied, flights, target, object,
                       record, ledger>>,
           seen' = seen \/ (Clean(call) /\ target[call] = 0
                              /\ \A d \in Calls \ {call} : seen'[d] = seen[d]),
           c \in NoEffect => Clean(call),
           c = "ok" => NoWatch /\ (Mutates(req) => call \in applied)
    PROVE  Rest'
<1>1. TypeOK /\ Lanes /\ Owned /\ Effects /\ Answers /\ Flights /\ Recorded
      BY DEF IInv
<1>2. pc' = "draining" /\ code' = c
      BY DEF Finish
<1>3. /\ group'.leader \notin {"alive", "zombie"}
      /\ group'.leader = "none" => ~group'.helper
      /\ group'.leader = "reaped" /\ req.op \in Docker => ~group'.helper
      BY <1>1 DEF Finish, TerminateGroup, Owned
<1>4. Lanes'
      BY <1>1, <1>2 DEF Lanes, NoWatch, Ended
<1>5. Owned'
      BY <1>2, <1>3 DEF Owned, Connected, Working
<1>6. Effects'
      BY <1>1, <1>2 DEF Effects, Clean, Asking, Working
<1>7. Answers'
      BY <1>1, <1>2 DEF Answers, Clean, Ended
<1>8. Flights'
  <2>1. CASE seen' = seen
        BY <1>1, <1>2, <2>1 DEF Flights
  <2>2. CASE seen' # seen
    <3>1. \A f \in flights : f.by \in Calls \ {call}
          BY <1>1, <2>2 DEF Clean, TypeOK
    <3>2. \A f \in flights : seen'[f.by] = seen[f.by]
          BY <2>2, <3>1
    <3>3. \A d \in Calls : target[d] \in {0, seen'[d].uid}
          BY <1>1, <2>2 DEF Flights
    <3> QED BY <1>1, <1>2, <3>2, <3>3 DEF Flights
  <2> QED BY <2>1, <2>2
<1>9. Recorded'
      BY <1>1 DEF Recorded, Unsettled, Alive
<1> QED BY <1>4, <1>5, <1>6, <1>7, <1>8, <1>9 DEF Rest

(* A step of the worker, or of what it does to the VM.                     *)
LEMMA WorkerStep ==
    ASSUME IInv, Alive, pc' \in Working,
           UNCHANGED <<call, req, code, group, responded, answers, object,
                       flights, reply, seen, target>>,
           \A d \in Calls \ {call} : d \in applied' <=> d \in applied,
           worker'.st \in {"boot", "ready", "begun", "mended"} => call \notin applied',
           req.op \in Docker \/ ~Mutates(req) => call \notin applied',
           worker'.result \in NoEffect => call \notin applied',
           worker'.result = "ok" /\ Mutates(req) /\ req.op \notin Docker
               => call \in applied',
           Recorded'
    PROVE  Rest'
<1>1. TypeOK /\ Lanes /\ Owned /\ Effects /\ Answers /\ Flights /\ Recorded
      BY DEF IInv
<1>2. pc \in Working /\ call \in Calls
      BY <1>1 DEF Owned, Lanes, Working, TypeOK, Calls
<1>3. Lanes'
      BY <1>1, <1>2 DEF Lanes, NoWatch, Ended, Working
<1>4. Owned'
      BY <1>1, <1>2 DEF Owned, Connected, Working
<1>5. Effects'
      BY <1>1, <1>2 DEF Effects, Clean, Asking, Working
<1>6. Answers'
  <2>1. \A d \in Calls : answers[d] \in NoEffect => d # call
        BY <1>1, <1>2 DEF Answers, Working
  <2>2. \A d \in Calls : d > call => d # call
        BY <1>2 DEF Calls
  <2> QED BY <1>1, <1>2, <2>1, <2>2 DEF Answers, Clean, Working
<1>7. Flights'
      BY <1>1, <1>2 DEF Flights, Working
<1> QED BY <1>3, <1>4, <1>5, <1>6, <1>7 DEF Rest

LEMMA CoreRest ==
    ASSUME IInv, Core PROVE Rest'
<1> USE DEF vars, core, remote
<1>a. TypeOK /\ Lanes /\ Owned /\ Effects /\ Recorded
      BY DEF IInv
<1>b. /\ worker \in Workers /\ record \in Records /\ applied \subseteq Calls
      BY <1>a DEF TypeOK
<1>c. Alive => pc \in Working /\ call \in Calls
      BY <1>a DEF TypeOK, Lanes, Owned, Working, Calls
<1>l. ledger \in Ledgers
      BY <1>a DEF TypeOK, Ledgers
<1>d. /\ worker.st \in {"boot", "ready", "begun", "mended"} /\ pc \in Working =>
             call \notin applied
      /\ worker.st \in {"ready", "begun", "mended", "changed"} => Alive
      BY <1>a DEF Effects, Alive
<1>r. \A rc, rec : Replies(rc, rec) =>
          /\ worker'.st = "reply"
          /\ worker'.result = "ok" => rc = "ok"
          /\ rc \in {"ok", "fail", "uncertain"} => worker'.result \notin NoEffect
      BY <1>b, ReplyTypes
<1>1. CASE CoreQuery
  <2>1. worker'.st = "reply" /\ worker'.result \in {"ok", "profileUnavailable"}
        BY <1>1, <1>b DEF CoreQuery, Workers
  <2>2. Recorded'
        BY <1>1, <1>a, <2>1 DEF CoreQuery, Recorded, Unsettled
  <2>3. Alive /\ call \notin applied
        BY <1>1, <1>c, <1>d DEF CoreQuery, Executes
  <2>4. worker'.result \notin NoEffect
        BY <2>1 DEF NoEffect
  <2>5. Mutates(req) => req.op \in Docker
        BY <1>1, Registry DEF CoreQuery
  <2>6. pc' \in Working
        BY <1>1, <2>3, <1>c DEF CoreQuery
  <2> QED BY <1>1, <2>1, <2>2, <2>3, <2>4, <2>5, <2>6, WorkerStep DEF CoreQuery
<1>2. CASE CoreUnrecorded
  <2>1. PICK rc \in {"ok", "fail", "invalid", "conflict", "uncertain", "cancelled"} :
         /\ Replies(rc, Snapshot)
         /\ \/ (rc = "ok" => ~Mutates(req)) /\ UNCHANGED applied
            \/ /\ rc \in {"ok", "fail", "uncertain"} /\ Mutates(req)
               /\ applied' = applied \cup {call}
        BY <1>2 DEF CoreUnrecorded
  <2>2. /\ worker'.st = "reply" /\ worker'.result = "ok" => rc = "ok"
        /\ rc \in {"ok", "fail", "uncertain"} => worker'.result \notin NoEffect
        BY <2>1, <1>r
  <2>a. worker'.st = "reply"
        BY <2>1, <1>r
  <2>3. UNCHANGED <<call, req, pc, code, group, responded, answers, object,
                    flights, reply, seen, target, record, ledger>>
        BY <1>2 DEF CoreUnrecorded
  <2>4. Recorded'
        BY <1>a, <2>a, <2>3 DEF Recorded, Unsettled
  <2>5. Alive /\ call \notin applied /\ pc' \in Working
        BY <1>2, <1>c, <1>d, <2>3 DEF CoreUnrecorded, Executes
  <2>6. req.op \notin Docker
        BY <1>2, Registry DEF CoreUnrecorded
  <2>7. \A d \in Calls \ {call} : d \in applied' <=> d \in applied
        BY <2>1
  <2>8. /\ ~Mutates(req) => call \notin applied'
        /\ worker'.result \in NoEffect => call \notin applied'
        /\ worker'.result = "ok" /\ Mutates(req) => call \in applied'
        BY <1>r, <2>1, <2>5
  <2> QED BY <2>a, <2>3, <2>4, <2>5, <2>6, <2>7, <2>8, WorkerStep
<1>3. CASE operation_begin
  <2>1. /\ UNCHANGED <<call, req, pc, code, group, responded, answers, object,
                       flights, reply, seen, target, ledger, applied>>
        /\ Alive /\ call \notin applied /\ pc' \in Working
        /\ req.op \in VmRecorded
        BY <1>3, <1>c, <1>d DEF operation_begin, Executes
  <2>2. req.op \notin Docker /\ Mutates(req)
        BY <2>1, Registry
  <2>3. CASE \E rec : Replies("fail", rec) /\ UNCHANGED record
    <3>1. /\ worker'.st = "reply" /\ worker'.result # "ok"
          /\ worker'.result \notin NoEffect
          BY <2>3, <1>r
    <3>2. Recorded'
          BY <1>a, <2>1, <2>3, <3>1 DEF Recorded, Unsettled
    <3> QED BY <2>1, <2>2, <3>1, <3>2, WorkerStep
  <2>4. CASE /\ record' = [status |-> "running", owner |-> worker.id, recovery |-> FALSE]
             /\ worker' = [worker EXCEPT !.st = "begun",
                   !.unknown = Snapshot.status = "outcomeUnknown" \/ Snapshot.recovery]
             /\ Snapshot.status # "running"
    <3>1. /\ worker'.st = "begun" /\ worker'.result = worker.result
          /\ worker'.unknown = (Snapshot.status = "outcomeUnknown" \/ Snapshot.recovery)
          BY <1>b, <2>4 DEF Workers
    <3>2. Unsettled # {} => Snapshot.status = "outcomeUnknown" \/ Snapshot.recovery
          BY <1>a, <1>b, <2>4 DEF Recorded, Snapshot, Records
    <3>5. worker.result = "none"
          BY <1>3, <1>a DEF operation_begin, Executes, Recorded
    <3>3. Recorded'
          BY <2>1, <2>4, <3>1, <3>2, <3>5 DEF Recorded, Unsettled
    <3>4. ~(worker'.result = "ok" /\ Mutates(req) /\ req.op \notin Docker)
          BY <1>a, <1>c, <2>1, <2>2, <3>1 DEF Effects
    <3> QED BY <2>1, <2>2, <3>1, <3>3, <3>4, WorkerStep
  <2>5. CASE /\ record' = [status |-> "outcomeUnknown", owner |-> worker.id,
                           recovery |-> FALSE]
             /\ Replies("fail", record')
    <3>1. /\ worker'.st = "reply" /\ worker'.result # "ok"
          /\ worker'.result \notin NoEffect
          BY <2>5, <1>r
    <3>2. Recorded'
          BY <2>1, <2>5, <3>1 DEF Recorded
    <3> QED BY <2>1, <2>2, <3>1, <3>2, WorkerStep
  <2> QED BY <1>3, <2>3, <2>4, <2>5 DEF operation_begin
<1>e. ASSUME worker.st \in {"begun", "mended", "changed"},
             UNCHANGED <<call, req, pc, code, group, responded, answers, object,
                         flights, reply, seen, target>>
      PROVE  /\ Alive /\ pc' \in Working /\ req.op \in VmRecorded
             /\ req.op \notin Docker /\ Mutates(req) /\ call \in Calls
             /\ record.status = "running"
      BY <1>e, <1>a, <1>c, Registry DEF Recorded, Alive
<1>4. CASE CoreRefuse
  <2>1. PICK rc \in {"fail", "refused", "damaged"} :
            operation_finish(rc, ~worker.unknown)
        BY <1>4 DEF CoreRefuse, operation_finish_unchanged
  <2>2. UNCHANGED <<call, req, pc, code, group, responded, answers, object,
                    flights, reply, seen, target, ledger, applied>>
        /\ worker.st = "begun"
        BY <1>4 DEF CoreRefuse
  <2>3. /\ worker'.st = "reply" /\ worker'.result # "ok"
        /\ record' = record \/ (worker.unknown /\ record'.status = "outcomeUnknown")
             \/ ~worker.unknown
        BY <1>b, <2>1, OperationFinish DEF Workers
  <2>4. Recorded'
        BY <1>a, <2>2, <2>3 DEF Recorded, Unsettled
  <2>5. call \notin applied
        BY <1>c, <1>d, <2>2
  <2> QED BY <1>e, <2>2, <2>3, <2>4, <2>5, WorkerStep
<1>9. CASE CoreMend
  <2>1. UNCHANGED <<call, req, pc, code, group, responded, answers, object,
                    flights, reply, seen, target, record, applied>>
        /\ worker.st = "begun" /\ req.op \in Starting
        BY <1>9 DEF CoreMend
  <2>2. /\ worker'.st = "mended" /\ worker'.result = worker.result
        /\ worker'.unknown = worker.unknown
        BY <1>9, <1>b DEF CoreMend, Workers
  <2>3. Unsettled' \ {call} \subseteq Unsettled
        BY <1>9, <1>l DEF CoreMend, Unsettled, Ledgers
  <2>4. Recorded'
        BY <1>a, <2>1, <2>2, <2>3 DEF Recorded
  <2>5. worker.result = "none" /\ call \notin applied
        BY <1>a, <1>c, <1>d, <2>1 DEF Recorded
  <2> QED BY <1>e, <2>1, <2>2, <2>4, <2>5, WorkerStep DEF NoEffect
<1>5. CASE CoreRestart
  <2>1. UNCHANGED <<call, req, pc, code, group, responded, answers, object,
                    flights, reply, seen, target, applied>>
        /\ worker.st \in {"begun", "mended"}
        BY <1>5 DEF CoreRestart
  <2>6. Unsettled' \subseteq Unsettled \ {call}
        BY <1>5, <1>l DEF CoreRestart, Unsettled, Ledgers
  <2>7. Unsettled' # {} => worker.unknown
        BY <1>a, <2>1, <2>6 DEF Recorded
  <2>2. worker.unknown \in BOOLEAN /\ "restartRequired" \in Statuses
        BY <1>b DEF Workers, Statuses
  <2>8. finish_record("restart", "restartRequired", worker.unknown)
        BY <1>5 DEF CoreRestart, operation_restart_required
  <2>9. PICK b \in BOOLEAN : b = worker.unknown
        BY <2>2
  <2>10. /\ worker'.st = "reply" /\ worker'.result # "ok"
         /\ record' = record \/ record'.recovery = b
    <3>1. finish_record("restart", "restartRequired", b)
          BY <2>8, <2>9, Zenon
    <3> QED BY <1>b, <2>2, <3>1, FinishRecord
  <2>3. /\ worker'.st = "reply" /\ worker'.result # "ok"
        /\ record' = record \/ record'.recovery = worker.unknown
        BY <2>9, <2>10, Zenon
  <2>4. Recorded'
        BY <1>a, <1>e, <2>1, <2>3, <2>7 DEF Recorded
  <2>5. call \notin applied
        BY <1>c, <1>d, <2>1
  <2> QED BY <1>e, <2>1, <2>3, <2>4, <2>5, WorkerStep
<1>6. CASE CoreChange
  <2>1. UNCHANGED <<call, req, pc, code, group, responded, answers, object,
                    flights, reply, seen, target, record>>
        /\ worker.st \in {"begun", "mended"} /\ applied' = applied \cup {call}
        BY <1>6 DEF CoreChange
  <2>2. worker'.st = "changed" /\ worker'.result = worker.result
        BY <1>6, <1>b DEF CoreChange, Workers
  <2>3. Recorded'
        BY <1>a, <2>1, <2>2 DEF Recorded
  <2>4. worker.result = "none"
        BY <1>a, <2>1 DEF Recorded
  <2>5. \A d \in Calls \ {call} : d \in applied' <=> d \in applied
        BY <2>1
  <2> QED BY <1>e, <2>1, <2>2, <2>3, <2>4, <2>5, WorkerStep DEF NoEffect
<1>7. CASE CoreSucceed
  <2>1. UNCHANGED <<call, req, pc, code, group, responded, answers, object,
                    flights, reply, seen, target>>
        /\ worker.st \in {"mended", "changed"} /\ applied' = applied \cup {call}
        BY <1>7 DEF CoreSucceed
  <2>5. Unsettled' = {}
        BY <1>7, <1>l DEF CoreSucceed, Unsettled, Ledgers
  <2>6. \A d \in Calls \ {call} : d \in applied' <=> d \in applied
        BY <2>1
  <2>2. worker'.st = "reply" /\ worker'.result \notin NoEffect
        BY <1>7, <1>b, OperationFinish DEF CoreSucceed
  <2>3. Recorded'
        BY <2>2, <2>5 DEF Recorded
  <2>4. call \in applied'
        BY <2>1
  <2> QED BY <1>e, <2>1, <2>2, <2>3, <2>4, <2>6, WorkerStep
<1>8. CASE CoreFail
  <2>7. PICK restored \in BOOLEAN, rc \in {"fail", "damaged", "refused"} :
            /\ rc = "damaged" => restored
            /\ rc = "refused" => ~restored /\ worker.st # "changed"
            /\ operation_finish(rc, restored)
            /\ IF restored
                 THEN /\ applied' = applied \ {call}
                      /\ \E part \in {{}, {call}} :
                           ledger' = [open |-> ledger.open \ {call},
                                      covered |-> ledger.covered \cup (ledger.open \ {call}),
                                      partly |-> ledger.partly \cup part]
                 ELSE UNCHANGED <<ledger, applied>>
        BY <1>8 DEF CoreFail, Restorable
  <2>1. /\ rc = "damaged" => restored
        /\ rc = "refused" => ~restored /\ worker.st # "changed"
        /\ operation_finish(rc, restored)
        /\ IF restored
             THEN /\ applied' = applied \ {call}
                  /\ ledger'.open = ledger.open \ {call}
                  /\ ledger'.covered = ledger.covered \cup (ledger.open \ {call})
             ELSE UNCHANGED <<ledger, applied>>
        BY <2>7
  <2>2. UNCHANGED <<call, req, pc, code, group, responded, answers, object,
                    flights, reply, seen, target>>
        /\ worker.st \in {"begun", "mended", "changed"}
        BY <1>8 DEF CoreFail
  <2>3. /\ worker'.st = "reply" /\ worker'.result # "ok"
        /\ record' = record \/ (~restored /\ record'.status = "outcomeUnknown")
             \/ restored
        /\ ~restored /\ rc # "refused" => worker'.result \notin NoEffect
        BY <1>b, <2>1, OperationFinish
  <2>4. Recorded'
    <3>1. CASE restored
      <4>1. Unsettled' = {}
            BY <2>1, <3>1 DEF Unsettled
      <4> QED BY <2>3, <4>1 DEF Recorded
    <3>2. CASE ~restored
      <4>1. Unsettled' = Unsettled /\ record'.status \in {"running", "outcomeUnknown"}
            BY <1>e, <2>1, <2>2, <2>3, <3>2 DEF Unsettled
      <4> QED BY <2>3, <4>1 DEF Recorded
    <3> QED BY <3>1, <3>2
  <2>5. \A d \in Calls \ {call} : d \in applied' <=> d \in applied
        BY <2>1
  <2>6. restored \/ rc = "refused" => call \notin applied'
        BY <1>c, <1>d, <2>1, <2>2
  <2> QED BY <1>e, <2>1, <2>2, <2>3, <2>4, <2>5, <2>6, WorkerStep
<1> QED BY <1>1, <1>2, <1>3, <1>4, <1>5, <1>6, <1>7, <1>8, <1>9 DEF Core

(* The servers decide what was sent, once.                                 *)
LEMMA DecideRest ==
    ASSUME IInv, NEW f \in flights, NEW answer \in {"done", "broken"} \cup Rejections,
           Decide(f, answer), object'.uid = object.uid,
           \/ /\ applied' = applied \cup {f.by} /\ answer \in {"done", "broken"}
              /\ target' = [target EXCEPT ![f.by] = object.uid]
              /\ object.uid = f.uid
           \/ UNCHANGED <<applied, target>> /\ answer # "done"
    PROVE  Rest'
<1>1. TypeOK /\ Lanes /\ Owned /\ Effects /\ Answers /\ Flights /\ Recorded
      BY DEF IInv
<1>2. /\ flights' = flights \ {f}
      /\ reply' = IF f.by = call /\ pc = "sent" THEN answer ELSE reply
      /\ UNCHANGED <<call, req, pc, code, worker, group, responded, answers,
                     record, ledger, seen>>
      BY DEF Decide, core
<1>3. f.by \in Calls /\ call \in 0..MaxCalls
      BY <1>1 DEF TypeOK
<1>4. /\ \A g \in flights' : g \in flights /\ g.by # f.by
      /\ \A d \in Calls \ {f.by} : d \in applied' <=> d \in applied
      /\ \A d \in Calls \ {f.by} : target'[d] = target[d]
      /\ target'[f.by] \in {target[f.by], seen[f.by].uid}
      /\ \A d \in Calls : d \in applied => d \in applied'
      BY <1>1, <1>2, <1>3 DEF Flights, TypeOK
<1>5. ~Clean(f.by) /\ \A d \in Calls \ {f.by} : Clean(d) => Clean(d)'
      BY <1>4 DEF Clean
<1>6. /\ ~(f.by > call) /\ answers[f.by] \notin NoEffect
      /\ f.by = call => /\ pc \notin Asking \cup Working /\ Mutates(req)
                        /\ pc = "draining" => code \notin NoEffect
                        /\ pc = "sent" => reply = "none" /\ call \notin applied
      BY <1>1, <1>3, <1>5, CallsAssumption DEF Answers, Effects, Clean, Calls
<1>7. Lanes' /\ Owned'
      BY <1>1, <1>2 DEF Lanes, NoWatch, Owned, Alive
<1>8. Effects'
  <2>1. CASE f.by = call
    <3>1. /\ pc = "sent" => /\ reply' = answer /\ \A g \in flights' : g.by # call
                            /\ answer = "done" => call \in applied'
                            /\ answer \in Rejections => call \notin applied'
          BY <1>2, <1>3, <1>4, <1>6, <2>1 DEF Rejections
    <3> QED BY <1>1, <1>2, <1>3, <1>4, <1>6, <2>1, <3>1 DEF Effects
  <2>2. CASE f.by # call
    <3>1. call > 0 => call \in Calls
          BY <1>3 DEF Calls
    <3>2. pc \in Asking \cup Working \cup {"sent", "confirm", "draining"} => call > 0
          BY <1>1 DEF Lanes, Asking, Working
    <3>3. call > 0 => /\ call \in applied' <=> call \in applied
                      /\ target'[call] = target[call]
                      /\ Clean(call) => Clean(call)'
          BY <1>2, <1>4, <2>2, <3>1 DEF Clean
    <3>4. (\A g \in flights : g.by # call) => \A g \in flights' : g.by # call
          BY <1>4
    <3>5. reply' = reply
          BY <1>2, <2>2
    <3> QED BY <1>1, <1>2, <3>2, <3>3, <3>4, <3>5 DEF Effects
  <2> QED BY <2>1, <2>2
<1>9. Answers'
      BY <1>1, <1>2, <1>3, <1>4, <1>5, <1>6 DEF Answers, Calls
<1>10. Flights'
      BY <1>1, <1>2, <1>3, <1>4 DEF Flights, TypeOK
<1>11. Recorded'
  <2>1. worker.st = "changed" => call \in Calls
        BY <1>1, <1>3 DEF Owned, Alive, Lanes, Working, Calls
  <2> QED BY <1>1, <1>2, <1>4, <2>1 DEF Recorded, Unsettled
<1> QED BY <1>7, <1>8, <1>9, <1>10, <1>11 DEF Rest

LEMMA EnvironmentRest ==
    ASSUME IInv, Environment PROVE Rest'
<1> USE DEF vars, core, remote
<1>a. TypeOK /\ Rest
      BY DEF IInv, Rest
<1>b. Lanes /\ Owned /\ Effects /\ Answers /\ Flights /\ Recorded
      BY <1>a DEF Rest
<1>c. worker \in Workers /\ group \in Groups
      BY <1>a DEF TypeOK, Groups
<1>d. Alive => pc \in Working
      BY <1>b DEF Owned
<1>1. CASE Cancel \/ ReaderLeaves \/ Deliver \/ LogLine \/ LogWritten \/ live_error
      BY <1>1, <1>a, QuietStep
      DEF Cancel, ReaderLeaves, Deliver, LogLine, LogWritten, live_error
<1>2. ASSUME NEW c \in {"cancelled", "timeout"}, Dropped(c) PROVE Rest'
  <2>1. PICK d \in {"outcomeUnknown", c} :
            Finish(d) /\ (Mutates(req) => d = "outcomeUnknown")
        BY <1>2 DEF Dropped
  <2>2. pc \notin Ended /\ call > 0
        BY <1>2, <1>b DEF Dropped, Running, Ended, Lanes
  <2>3. ~Alive'
        BY <1>2, <1>c DEF Dropped, Alive, Workers
  <2>4. d \in NoEffect => Clean(call)
        BY <1>b, <2>1, <2>2 DEF Effects, NoEffect
  <2> QED BY <1>2, <2>1, <2>2, <2>3, <2>4, FinishStep DEF Dropped
<1>3. ASSUME Alive, pc' \in Working,
             UNCHANGED <<call, req, code, group, responded, answers, record, ledger,
                         remote>>,
             worker'.result \in {worker.result, "none"},
             \/ worker'.st = worker.st
             \/ worker'.st = "exited"
             \/ worker.st = "boot" /\ worker'.st = "ready",
             worker'.unknown = worker.unknown
      PROVE  Rest'
  <2>1. pc \in Working /\ call > 0
        BY <1>3, <1>b, <1>d DEF Lanes, Working
  <2>2. Recorded'
        BY <1>3, <1>b DEF Recorded, Unsettled
  <2>3. /\ worker'.st \in {"boot", "ready", "begun", "mended"} => call \notin applied
        /\ req.op \in Docker \/ ~Mutates(req) => call \notin applied
        /\ worker'.result \in NoEffect => call \notin applied
        /\ worker'.result = "ok" /\ Mutates(req) /\ req.op \notin Docker
               => call \in applied
        BY <1>3, <1>b, <2>1 DEF Effects, Clean, NoEffect
  <2> QED BY <1>3, <2>2, <2>3, WorkerStep
<1>4. CASE StopWorker
  <2>1. /\ worker'.result = worker.result /\ worker'.unknown = worker.unknown
        /\ worker'.st = worker.st
        BY <1>4, <1>c DEF StopWorker, Workers
  <2>2. /\ Alive /\ pc' \in Working
        /\ UNCHANGED <<call, req, code, group, responded, answers, record, ledger,
                       remote>>
        BY <1>4 DEF StopWorker, Working
  <2> QED BY <1>3, <2>1, <2>2
<1>5. CASE WorkerReady
      BY <1>5, <1>3, <1>c, <1>d DEF WorkerReady, Workers, Alive
<1>6. CASE WorkerDies
  <2>1. /\ worker'.result = "none" /\ worker'.unknown = worker.unknown
        /\ worker'.st = "exited"
        BY <1>6, <1>c DEF WorkerDies, Workers
  <2>2. /\ Alive /\ pc' \in Working
        /\ UNCHANGED <<call, req, code, group, responded, answers, record, ledger,
                       remote>>
        BY <1>6, <1>d DEF WorkerDies
  <2> QED BY <1>3, <2>1, <2>2
<1>7. CASE WorkerExits
  <2>1. /\ worker'.result = worker.result /\ worker'.unknown = worker.unknown
        /\ worker'.st = "exited"
        BY <1>7, <1>c DEF WorkerExits, Workers
  <2>2. /\ Alive /\ pc' \in Working
        /\ UNCHANGED <<call, req, code, group, responded, answers, record, ledger,
                       remote>>
        BY <1>7, <1>d DEF WorkerExits, Alive
  <2> QED BY <1>3, <2>1, <2>2
<1>8. CASE Helper \/ LeaderExits
  <2>1. /\ group.leader = "alive" /\ group'.leader \in {"alive", "zombie"}
        /\ UNCHANGED <<call, req, pc, code, worker, responded, answers, record, ledger,
                       remote>>
        BY <1>8, <1>c DEF Helper, LeaderExits, Groups
  <2>2. Owned'
        BY <1>b, <2>1 DEF Owned, Alive
  <2> QED BY <1>b, <2>1, <2>2
          DEF Rest, Lanes, NoWatch, Effects, Clean, Answers, Flights, Recorded, Unsettled
<1>9. CASE ServerApplies
  <2>1. PICK f \in flights, answer \in {"done", "broken"} :
          /\ f.uid \in {0, object.uid}
          /\ object' = [object EXCEPT !.rv = @ + 1]
          /\ applied' = applied \cup {f.by}
          /\ target' = [target EXCEPT ![f.by] = object.uid]
          /\ Decide(f, answer)
        BY <1>9 DEF ServerApplies
  <2>2. object.uid = f.uid
        BY <1>b, <2>1 DEF Flights
  <2>3. object'.uid = object.uid
        BY <1>a, <2>1 DEF TypeOK, Resources
  <2> QED BY <2>1, <2>2, <2>3, DecideRest
<1>10. CASE ServerRefuses
  <2>1. PICK f \in flights, answer \in Rejections \cup {"broken"} :
          UNCHANGED <<object, applied, target>> /\ Decide(f, answer)
        BY <1>10 DEF ServerRefuses
  <2>2. answer # "done"
        BY DEF Rejections
  <2> QED BY <2>1, <2>2, DecideRest
<1>11. CASE Others
  <2>1. PICK n \in {0, 1} : object' = [uid |-> object.uid + n, rv |-> object.rv + 1]
        BY <1>11 DEF Others
  <2>2. object'.uid # 0
        BY <1>a, <1>b, <2>1 DEF TypeOK, Resources, Flights
  <2>3. UNCHANGED <<call, req, pc, code, worker, group, responded, answers, record,
                    ledger, flights, reply, applied, seen, target>>
        BY <1>11 DEF Others
  <2> QED BY <1>b, <2>2, <2>3
          DEF Rest, Lanes, NoWatch, Owned, Alive, Effects, Clean, Answers, Flights,
              Recorded, Unsettled
<1> QED BY <1>1, <1>2, <1>4, <1>5, <1>6, <1>7, <1>8, <1>9, <1>10, <1>11
        DEF Environment, Interrupted, Deadline

(* The request goes on, and has not asked for anything yet.                *)
LEMMA AskStep ==
    ASSUME IInv, pc \notin Ended, pc' \in Asking, ~Alive', Lanes', Owned',
           Clean(call), target[call] = 0, reply = "none",
           UNCHANGED <<call, req, answers, applied, flights, reply, target, object,
                       record, ledger>>,
           \A d \in Calls \ {call} : seen'[d] = seen[d],
           pc' = "send" => seen'[call].uid # 0
    PROVE  Rest'
<1>1. TypeOK /\ Effects /\ Answers /\ Flights /\ Recorded
      BY DEF IInv
<1>2. pc' \notin Working \cup Ended \cup {"sent", "confirm"}
      BY DEF Working, Asking, Ended
<1>3. Effects'
      BY <1>1, <1>2 DEF Effects, Clean, Ended
<1>4. Answers'
      BY <1>1, <1>2 DEF Answers, Clean, Ended
<1>5. Flights'
  <2>1. \A f \in flights : f.by \in Calls \ {call}
        BY <1>1 DEF Clean, TypeOK
  <2>2. \A f \in flights : seen'[f.by] = seen[f.by]
        BY <2>1
  <2>3. \A d \in Calls : target[d] \in {0, seen'[d].uid}
        BY <1>1 DEF Flights
  <2> QED BY <1>1, <2>2, <2>3 DEF Flights
<1>6. Recorded'
      BY <1>1 DEF Recorded, Unsettled, Alive
<1> QED BY <1>3, <1>4, <1>5, <1>6 DEF Rest

LEMMA FrontRest ==
    ASSUME IInv, Front PROVE Rest' /\ Drains'
<1> USE DEF vars, core, remote
<1>a. TypeOK /\ Lanes /\ Owned /\ Effects /\ Answers /\ Flights /\ Recorded /\ Drains
      BY DEF IInv
<1>b. /\ worker \in Workers /\ group \in Groups /\ call \in 0..MaxCalls
      /\ (pc # "idle" => call \in Calls)
      BY <1>a DEF TypeOK, Groups, Lanes, Calls
<1>c. /\ pc \in Asking => Clean(call) /\ target[call] = 0 /\ reply = "none"
      /\ pc \in Asking => pc \notin Ended \cup Working /\ ~Alive
      /\ Connected \cap Working = {} /\ Connected \cap Ended = {}
      BY <1>a DEF Effects, Asking, Ended, Working, Owned, Connected
<1>n. /\ NoWorker.st = "none" /\ NoGroup.leader = "none" /\ ~NoGroup.helper
      BY DEF NoWorker, NoGroup
<1>s. ASSUME UNCHANGED <<pipe, tail>> PROVE Drains'
      BY <1>s, <1>a DEF Drains
(* A request that has asked for nothing ends with any answer but success.  *)
<1>f. ASSUME pc \in Asking, NEW c, Finish(c), c # "ok" \/ (NoWatch /\ ~Mutates(req)),
             UNCHANGED <<call, req, answers, applied, flights, target, object,
                         record, ledger>>,
             worker' = worker,
             \A d \in Calls \ {call} : seen'[d] = seen[d]
      PROVE  Rest'
  <2>1. ~Alive'
        BY <1>c, <1>f DEF Alive
  <2> QED BY <1>c, <1>f, <2>1, FinishStep
<1>1. CASE Accept
  <2>1. /\ call' = call + 1 /\ pc' = "parsed" /\ worker' = NoWorker
        /\ group' = NoGroup /\ reply' = "none"
        /\ UNCHANGED <<answers, record, ledger, object, flights, applied, seen, target>>
        /\ pc = "idle" /\ call < MaxCalls
        BY <1>1 DEF Accept
  <2>2. /\ call' \in Calls /\ call' > call /\ call' > 0
        /\ \A d \in Calls : d > call' => d > call
        BY <1>b, <2>1, CallsAssumption DEF Calls
  <2>3. /\ call' \notin applied /\ (\A f \in flights : f.by # call')
        /\ answers[call'] = "none" /\ target[call'] = 0
        BY <1>a, <2>2 DEF Answers, Clean
  <2>4. Lanes'
        BY <2>1, <2>2 DEF Lanes, Ended
  <2>5. Owned'
        BY <1>n, <2>1 DEF Owned, Alive, Connected
  <2>6. Effects'
        BY <2>1, <2>3 DEF Effects, Clean, Working
  <2>7. Answers'
        BY <1>a, <2>1, <2>2, <2>3 DEF Answers, Clean, NoEffect
  <2>8. Flights' /\ Recorded'
        BY <1>a, <1>n, <2>1 DEF Flights, Recorded, Unsettled
  <2>9. Drains'
        BY <1>1 DEF Accept, Drains
  <2> QED BY <2>4, <2>5, <2>6, <2>7, <2>8, <2>9 DEF Rest
<1>2. CASE Route
  <2>1. /\ pc = "parsed" /\ pc \in Asking
        /\ UNCHANGED <<call, req, worker, responded, answers, core, remote>>
        BY <1>2 DEF Route, Asking
  <2>2. CASE \E c : Finish(c) /\ (c # "ok" \/ (NoWatch /\ ~Mutates(req)))
        BY <1>f, <1>s, <2>1, <2>2
  <2>3. CASE ~\E c : Finish(c) /\ (c # "ok" \/ (NoWatch /\ ~Mutates(req)))
    <3>1. /\ Valid(req) /\ UNCHANGED <<code, group>>
          /\ pc' = CASE req.op \in Docker /\ Has(req, "context") -> "dial"
                      [] req.op \in K8s -> "auth"
                      [] OTHER -> "spawn"
      <4>1. req.op = "capabilities" \/ Local(req) => ~Mutates(req) /\ NoWatch
            BY Registry DEF NoWatch
      <4> QED BY <1>2, <2>3, <4>1 DEF Route
    <3>2. /\ pc' \in {"dial", "auth", "spawn"}
          /\ pc' = "dial" => req.op \in Docker
          /\ pc' = "auth" => req.op \in K8s
          BY <3>1, Registry
    <3>3. Lanes'
          BY <1>a, <2>1, <3>1, <3>2, Registry DEF Lanes, NoWatch, Ended
    <3>4. Owned' /\ ~Alive'
          BY <1>a, <1>c, <2>1, <3>1, <3>2 DEF Owned, Alive, Connected
    <3> QED BY <1>c, <1>s, <2>1, <3>2, <3>3, <3>4, AskStep DEF Asking
  <2> QED BY <2>2, <2>3
<1>3. CASE WriteResult
  <2>1. /\ pc = "draining" /\ pc' \in {"idle", "sleep"}
        /\ pc' = "sleep" => code = "ok" /\ Has(req, "watch")
        /\ answers'[call] \in {code, "unread"}
        /\ answers'[call] = code \/ pc' = "idle"
        /\ \A d \in Calls \ {call} : answers'[d] = answers[d]
        /\ UNCHANGED <<call, req, code, worker, group, responded, record, ledger, pipe,
                       tail, remote>>
        BY <1>3, <1>a, <1>b DEF WriteResult, TypeOK
  <2>2. Lanes'
        BY <1>a, <2>1 DEF Lanes, NoWatch, Ended
  <2>3. Owned'
        BY <1>a, <2>1 DEF Owned, Alive, Connected, Working
  <2>4. Effects'
        BY <1>a, <2>1 DEF Effects, Clean, Asking, Working
  <2>5. Answers'
    <3>1. /\ call \in Calls
          /\ answers'[call] \in NoEffect => Clean(call) /\ pc' = "idle"
          /\ answers'[call] = "ok" /\ Mutates(req) => call \in applied
          BY <1>a, <1>b, <2>1 DEF Effects, NoEffect
    <3>2. \A d \in Calls : d > call => d # call
          BY <3>1 DEF Calls
    <3> QED BY <1>a, <2>1, <3>1, <3>2 DEF Answers, Clean
  <2>6. Flights' /\ Recorded'
        BY <1>a, <2>1 DEF Flights, Recorded, Unsettled
  <2> QED BY <1>s, <2>1, <2>2, <2>3, <2>4, <2>5, <2>6 DEF Rest
<1>4. CASE WatchAgain
  <2>1. /\ pc = "sleep" /\ pc' \in {"idle", "parsed"} /\ worker' = NoWorker
        /\ group' = NoGroup /\ reply' = "none"
        /\ pc' = "idle" => answers'[call] = "cancelled"
        /\ pc' = "parsed" => answers' = answers
        /\ \A d \in Calls \ {call} : answers'[d] = answers[d]
        /\ UNCHANGED <<call, req, code, record, ledger, pipe, tail, object, flights,
                       applied, seen, target>>
        BY <1>4, <1>a, <1>b DEF WatchAgain, TypeOK
  <2>2. /\ ~Mutates(req) /\ call > 0 /\ call \in Calls /\ Clean(call)
        /\ target[call] = 0
        BY <1>a, <1>b, <2>1 DEF Lanes, Effects
  <2>3. Lanes' /\ Owned'
        BY <1>n, <2>1, <2>2 DEF Lanes, Ended, Owned, Alive, Connected
  <2>4. Effects'
        BY <2>1, <2>2 DEF Effects, Clean, Asking, Working
  <2>5. \A d \in Calls : d > call => d # call
        BY <2>2 DEF Calls
  <2>6. Answers'
        BY <1>a, <2>1, <2>2, <2>5 DEF Answers, Clean
  <2>7. Flights' /\ Recorded'
        BY <1>a, <1>n, <2>1 DEF Flights, Recorded, Unsettled
  <2> QED BY <1>s, <2>1, <2>3, <2>4, <2>6, <2>7 DEF Rest
<1>5. CASE SpawnWorker
  <2>1. /\ pc = "spawn" /\ pc \in Asking
        /\ UNCHANGED <<call, req, responded, answers, record, ledger, remote>>
        BY <1>5 DEF SpawnWorker, Asking
  <2>2. CASE Finish("coreUnavailable") /\ UNCHANGED <<worker, pipe, tail>>
        BY <1>f, <1>s, <2>1, <2>2
  <2>3. CASE ~(Finish("coreUnavailable") /\ UNCHANGED <<worker, pipe, tail>>)
    <3>1. /\ pc' = "write" /\ worker'.st = "boot" /\ worker'.result = "none"
          /\ pipe' = 0 /\ tail' = -1 /\ UNCHANGED <<code, group>>
          BY <1>5, <2>3 DEF SpawnWorker, NoWorker
    <3>2. Lanes' /\ Owned'
          BY <1>a, <2>1, <3>1 DEF Lanes, NoWatch, Ended, Owned, Connected, Working
    <3>3. Effects'
          BY <1>a, <1>c, <2>1, <3>1 DEF Effects, Clean, Asking, Working, NoEffect
    <3>4. Answers' /\ Flights' /\ Recorded' /\ Drains'
          BY <1>a, <2>1, <3>1 DEF Answers, Clean, Flights, Recorded, Unsettled, Drains
    <3> QED BY <3>2, <3>3, <3>4 DEF Rest
  <2> QED BY <2>2, <2>3
<1>6. CASE WriteRequest
  <2>1. /\ pc = "write" /\ pc \in Working /\ pc \notin Ended
        /\ UNCHANGED <<call, req, responded, answers, core, remote>>
        BY <1>6 DEF WriteRequest, Working, Ended
  <2>2. CASE Alive
    <3>1. /\ pc' = "waiting" /\ worker'.st = worker.st /\ UNCHANGED <<code, group>>
          /\ worker'.result = worker.result /\ worker'.unknown = worker.unknown
          BY <1>6, <1>b, <2>2 DEF WriteRequest, Workers
    <3>2. /\ call > 0 /\ ~Mutates(req) => call \notin applied
          /\ pc' \in Working
          BY <1>a, <3>1 DEF Effects, Clean, Working
    <3>3. Recorded'
          BY <1>a, <2>1, <3>1 DEF Recorded, Unsettled
    <3>4. call > 0
          BY <1>a, <2>1 DEF Lanes
    <3> QED BY <1>a, <1>s, <2>1, <2>2, <3>1, <3>2, <3>3, <3>4, WorkerStep DEF Effects
  <2>3. CASE ~Alive
    <3>1. Finish("coreProtocol") /\ UNCHANGED worker
          BY <1>6, <2>3 DEF WriteRequest
    <3>2. ~Alive'
          BY <2>3, <3>1 DEF Alive
    <3> QED BY <1>s, <2>1, <3>1, <3>2, FinishStep DEF NoEffect
  <2> QED BY <2>2, <2>3
<1>7. CASE WorkerDone
  <2>1. /\ pc \in {"waiting", "stopping"} /\ pc \in Working /\ pc \notin Ended
        /\ worker.st = "exited" /\ call > 0
        /\ UNCHANGED <<call, req, responded, answers, core, remote>>
        BY <1>7, <1>a DEF WorkerDone, Working, Ended, Lanes
  <2>2. /\ NoWatch /\ target[call] = 0 /\ reply = "none"
        /\ \A f \in flights : f.by # call
        /\ req.op \in Docker => call \notin applied
        /\ worker.result \in NoEffect => call \notin applied
        /\ worker.result = "ok" /\ Mutates(req) /\ req.op \notin Docker
               => call \in applied
        /\ group.leader \notin {"alive", "zombie"}
        BY <1>a, <2>1 DEF Effects, Lanes, Owned, Working, Ended, Connected
  <2>3. ASSUME NEW c, Finish(c), worker' = NoWorker, c \in NoEffect => Clean(call),
               c = "ok" => (Mutates(req) => call \in applied)
        PROVE  Rest'
    <3>1. ~Alive'
          BY <1>n, <2>3 DEF Alive
    <3> QED BY <2>1, <2>2, <2>3, <3>1, FinishStep
  <2>4. Drains'
        BY <1>s, <2>1
  <2>5. CASE pc' = "spawn" /\ UNCHANGED <<code, group>> /\ worker.result = "restartRequired"
             /\ worker' = [worker EXCEPT !.attempt = 2]
    <3>1. worker'.st = "exited" /\ ~Alive'
          BY <1>b, <2>1, <2>5 DEF Workers, Alive
    <3>2. Clean(call)
          BY <2>2, <2>5 DEF Clean, NoEffect
    <3>3. Lanes' /\ Owned'
          BY <1>a, <2>1, <2>2, <2>5, <3>1 DEF Lanes, NoWatch, Ended, Owned, Connected
    <3> QED BY <2>4, <2>1, <2>2, <2>5, <3>1, <3>2, <3>3, AskStep DEF Asking
  <2>6. CASE pc' = "dial" /\ UNCHANGED <<code, group, worker>> /\ req.op \in Docker
    <3>1. ~Alive' /\ Clean(call)
          BY <2>1, <2>2, <2>6 DEF Alive, Clean
    <3>2. Lanes' /\ Owned'
          BY <1>a, <2>1, <2>2, <2>6, <3>1 DEF Lanes, NoWatch, Ended, Owned, Connected
    <3> QED BY <2>4, <2>1, <2>2, <2>6, <3>1, <3>2, AskStep DEF Asking
  <2>7. CASE Finish("outcomeUnknown") /\ worker' = NoWorker
        BY <2>4, <2>3, <2>7 DEF NoEffect
  <2>8. CASE Finish("coreProtocol") /\ worker' = NoWorker
        BY <2>4, <2>3, <2>8 DEF NoEffect
  <2>9. CASE /\ Finish(worker.result) /\ worker' = NoWorker
             /\ ~(worker.result = "ok" /\ req.op \in Docker)
        BY <2>4, <2>2, <2>3, <2>9 DEF Clean
  <2>10. \/ Finish("outcomeUnknown") /\ worker' = NoWorker
         \/ /\ pc' = "spawn" /\ UNCHANGED <<code, group>>
            /\ worker.result = "restartRequired"
            /\ worker' = [worker EXCEPT !.attempt = 2]
         \/ pc' = "dial" /\ UNCHANGED <<code, group, worker>> /\ req.op \in Docker
         \/ Finish("coreProtocol") /\ worker' = NoWorker
         \/ /\ Finish(worker.result) /\ worker' = NoWorker
            /\ ~(worker.result = "ok" /\ req.op \in Docker)
    <3>1. CASE ~worker.ok
          BY <1>7, <3>1 DEF WorkerDone
    <3>2. CASE worker.ok
          BY <1>7, <3>2 DEF WorkerDone
    <3> QED BY <3>1, <3>2
  <2> QED BY <2>5, <2>6, <2>7, <2>8, <2>9, <2>10
<1>20. CASE ReplyCut
  <2>1. /\ pc \in {"waiting", "stopping"} /\ pc \notin Ended
        /\ UNCHANGED <<call, req, responded, answers, core, remote>>
        /\ Finish("coreProtocol")
        BY <1>20 DEF ReplyCut, Ended
  <2>2. ~Alive'
        BY <1>20, <1>n DEF ReplyCut, Alive, NoWorker
  <2> QED BY <1>s, <2>1, <2>2, FinishStep DEF NoEffect
<1>8. CASE DialContext
  <2>1. /\ pc = "dial" /\ pc \in Asking /\ Has(req, "context")
        /\ UNCHANGED <<call, req, worker, responded, answers, core, remote>>
        BY <1>8 DEF DialContext, Asking
  <2>2. CASE Finish("dockerUnavailable")
        BY <1>f, <1>s, <2>1, <2>2
  <2>3. CASE group' = [leader |-> "alive", helper |-> FALSE] /\ UNCHANGED <<pc, code>>
    <3>1. Lanes' /\ Owned' /\ ~Alive'
          BY <1>a, <1>c, <2>1, <2>3 DEF Lanes, NoWatch, Owned, Alive, Connected
    <3> QED BY <1>c, <1>s, <2>1, <2>3, <3>1, AskStep
  <2> QED BY <1>8, <2>2, <2>3 DEF DialContext
<1>9. CASE Negotiate
  <2>1. /\ pc = "dial" /\ pc \in Asking
        /\ UNCHANGED <<call, req, worker, answers, core, remote>>
        BY <1>9 DEF Negotiate, Asking
  <2>2. CASE Finish("dockerUnavailable")
        BY <1>f, <1>s, <2>1, <2>2
  <2>3. CASE pc' = "read" /\ responded' = Has(req, "context") /\ UNCHANGED <<code, group>>
    <3>1. Lanes' /\ Owned' /\ ~Alive'
          BY <1>a, <1>c, <2>1, <2>3
          DEF Lanes, NoWatch, Owned, Alive, Connected, Working, Ended
    <3> QED BY <1>c, <1>s, <2>1, <2>3, <3>1, AskStep DEF Asking
  <2> QED BY <1>9, <2>2, <2>3 DEF Negotiate
<1>10. CASE LoadClient
  <2>1. /\ pc = "auth" /\ pc \in Asking
        /\ UNCHANGED <<call, req, worker, responded, answers, core, remote>>
        BY <1>10 DEF LoadClient, Asking
  <2>2. CASE \E c : Finish(c) /\ c # "ok"
        BY <1>f, <1>s, <2>1, <2>2
  <2>3. CASE pc' = "credential" /\ UNCHANGED <<code, group>>
    <3>1. Lanes' /\ Owned' /\ ~Alive'
          BY <1>a, <1>c, <2>1, <2>3
          DEF Lanes, NoWatch, Owned, Alive, Connected, Working, Ended
    <3> QED BY <1>c, <1>s, <2>1, <2>3, <3>1, AskStep DEF Asking
  <2> QED BY <1>10, <2>2, <2>3 DEF LoadClient
<1>11. CASE ResolveCredential
  <2>1. /\ pc = "credential" /\ pc \in Asking
        /\ UNCHANGED <<call, req, worker, responded, answers, core, remote>>
        BY <1>11 DEF ResolveCredential, Asking
  <2>2. CASE Finish("authenticationFailed")
        BY <1>f, <1>s, <2>1, <2>2
  <2>3. CASE ~Finish("authenticationFailed")
    <3>1. /\ req.op \in K8s /\ req.op \notin Docker
          BY <1>a, <2>1, Registry DEF Lanes
    <3>2. /\ pc' \in {"read", "credential"} /\ UNCHANGED code
          /\ group'.leader = "none" => ~group'.helper
          /\ group'.leader \in {"none", "alive", "reaped"}
          BY <1>11, <1>a, <1>b, <2>1, <2>3 DEF ResolveCredential, Groups, Owned
    <3>3. Lanes' /\ Owned' /\ ~Alive'
          BY <1>a, <1>c, <2>1, <3>1, <3>2
          DEF Lanes, NoWatch, Owned, Alive, Connected, Working, Ended
    <3> QED BY <1>c, <1>s, <2>1, <3>2, <3>3, AskStep DEF Asking
  <2> QED BY <2>2, <2>3
(* The object is read, and the request goes on to what it is for.          *)
<1>r. ASSUME pc = "read", pc' \in {"send", "logs"}, UNCHANGED <<code, group, worker>>,
             pc' = "send" => Mutates(req), pc' = "logs" => ~Mutates(req),
             seen' = [seen EXCEPT ![call] = object],
             UNCHANGED <<call, req, responded, answers, core, object, flights, reply,
                         applied, target>>
      PROVE  Rest'
  <2>1. pc \in Asking /\ pc' \in Asking
        BY <1>r DEF Asking
  <2>2. Lanes' /\ Owned' /\ ~Alive'
        BY <1>a, <1>c, <1>r, <2>1
        DEF Lanes, NoWatch, Owned, Alive, Connected, Working, Ended
  <2>3. /\ \A d \in Calls \ {call} : seen'[d] = seen[d]
        /\ seen'[call].uid # 0
        BY <1>a, <1>b, <1>r DEF TypeOK, Flights
  <2> QED BY <1>c, <1>r, <2>1, <2>2, <2>3, AskStep
<1>12. CASE ReadContainer
  <2>1. /\ pc = "read" /\ pc \in Asking /\ req.op \in Docker
        /\ \A d \in Calls \ {call} : seen'[d] = seen[d]
        /\ UNCHANGED <<call, req, worker, responded, answers, core, object, flights,
                       reply, applied, target>>
        BY <1>12, <1>a DEF ReadContainer, Asking, TypeOK
  <2>2. CASE \E c : Finish(c) /\ (c # "ok" \/ ~Mutates(req))
        BY <1>f, <1>s, <2>1, <2>2 DEF NoWatch
  <2>3. CASE ~\E c : Finish(c) /\ (c # "ok" \/ ~Mutates(req))
    <3>1. \A c \in ReadFailures : c # "ok"
          BY DEF ReadFailures
    <3>2. req.op \in Logs \/ req.op \notin Named => ~Mutates(req)
          BY <2>1, Registry
    <3>3. /\ pc' \in {"send", "logs"} /\ UNCHANGED <<code, group>>
          /\ pc' = "send" => Mutates(req)
          /\ pc' = "logs" => ~Mutates(req)
          /\ seen' = [seen EXCEPT ![call] = object]
          BY <1>12, <2>3, <3>1, <3>2 DEF ReadContainer
    <3> QED BY <1>r, <1>s, <2>1, <3>3
  <2> QED BY <2>2, <2>3
<1>13. CASE ListObjects
  <2>1. /\ pc = "read" /\ pc \in Asking /\ ~Mutates(req)
        /\ UNCHANGED <<call, req, worker, responded, answers, core, remote>>
        BY <1>13, Registry DEF ListObjects, Asking
  <2>2. \E c : Finish(c)
        BY <1>13 DEF ListObjects
  <2> QED BY <1>f, <1>s, <2>1, <2>2 DEF NoWatch
<1>14. CASE ReadObject
  <2>1. /\ pc = "read" /\ pc \in Asking
        /\ \A d \in Calls \ {call} : seen'[d] = seen[d]
        /\ UNCHANGED <<call, req, worker, responded, answers, core, object, flights,
                       reply, applied, target>>
        BY <1>14, <1>a DEF ReadObject, Asking, TypeOK
  <2>2. CASE \E c : Finish(c) /\ (c # "ok" \/ ~Mutates(req))
        BY <1>f, <1>s, <2>1, <2>2 DEF NoWatch
  <2>3. CASE ~\E c : Finish(c) /\ (c # "ok" \/ ~Mutates(req))
    <3>1. \A c \in ReadFailures : c # "ok"
          BY DEF ReadFailures
    <3>2. req.op \in Logs => ~Mutates(req)
          BY Registry
    <3>3. /\ pc' \in {"send", "logs"} /\ UNCHANGED <<code, group>>
          /\ pc' = "send" => Mutates(req)
          /\ pc' = "logs" => ~Mutates(req)
          /\ seen' = [seen EXCEPT ![call] = object]
          BY <1>14, <2>3, <3>1, <3>2 DEF ReadObject
    <3> QED BY <1>r, <1>s, <2>1, <3>3
  <2> QED BY <2>2, <2>3
<1>15. CASE LogEnd
  <2>1. /\ pc = "logs" /\ pc \in Asking /\ ~Mutates(req)
        /\ UNCHANGED <<call, req, worker, responded, answers, core, remote>>
        BY <1>15, <1>a DEF LogEnd, Asking, Lanes
  <2>2. \E c : Finish(c)
        BY <1>15 DEF LogEnd
  <2> QED BY <1>f, <1>s, <2>1, <2>2 DEF NoWatch
<1>16. CASE Send
  <2>1. /\ pc = "send" /\ pc \in Asking /\ pc' = "sent"
        /\ UNCHANGED <<call, req, code, worker, group, responded, answers, core, object,
                       reply, applied, seen, target>>
        BY <1>16 DEF Send, Asking
  <2>2. PICK g : /\ flights' = flights \cup {g}
                 /\ g.by = call /\ g.uid = seen[call].uid
    <3> DEFINE g == IF req.op \in Docker THEN ContainerCall(seen[call])
                                         ELSE ObjectPatch(seen[call])
    <3>1. g.by = call /\ g.uid = seen[call].uid
          BY DEF ContainerCall, ObjectPatch
    <3>2. flights' = flights \cup {g}
          BY <1>16 DEF Send
    <3> HIDE DEF g
    <3> QED BY <3>1, <3>2
  <2>3. /\ Clean(call) /\ target[call] = 0 /\ reply = "none" /\ ~Alive
        /\ Mutates(req) /\ seen[call].uid # 0 /\ call > 0 /\ call \in Calls
        BY <1>a, <1>b, <1>c, <2>1 DEF Lanes, Flights
  <2>4. Lanes' /\ Owned'
        BY <1>a, <2>1, <2>3 DEF Lanes, NoWatch, Owned, Alive, Connected, Working, Ended
  <2>5. Effects'
        BY <1>a, <2>1, <2>3 DEF Effects, Clean, Asking, Working
  <2>6. Answers'
    <3>1. \A d \in Calls : d > call => d # call
          BY <2>3 DEF Calls
    <3>2. \A d \in Calls : answers[d] \in NoEffect => d # call
          BY <1>a, <2>1 DEF Answers
    <3> QED BY <1>a, <2>1, <2>2, <3>1, <3>2 DEF Answers, Clean
  <2>7. Flights'
        BY <1>a, <2>1, <2>2, <2>3 DEF Flights, Clean
  <2>8. Recorded'
        BY <1>a, <2>1 DEF Recorded, Unsettled
  <2> QED BY <1>s, <2>1, <2>4, <2>5, <2>6, <2>7, <2>8 DEF Rest
<1>17. CASE Answered
  <2>1. /\ pc = "sent" /\ pc \notin Ended \cup Working /\ reply # "none" /\ Mutates(req)
        /\ UNCHANGED <<call, req, worker, responded, answers, core, remote>>
        BY <1>17, <1>a DEF Answered, Ended, Working, Lanes
  <2>2. /\ ~Alive /\ ~Alive' /\ NoWatch /\ call > 0
        BY <1>a, <2>1 DEF Owned, Alive, Lanes, Ended, Working
  <2>3. CASE reply # "done"
    <3>1. Finish(mutation_failure(reply))
          BY <1>17, <2>3 DEF Answered
    <3>2. mutation_failure(reply) \in NoEffect => reply \in Rejections
          BY DEF mutation_failure, NoEffect
    <3>3. mutation_failure(reply) # "ok"
          BY DEF mutation_failure, Rejections
    <3>4. reply \in Rejections => Clean(call)
          BY <1>a, <2>1 DEF Effects, Clean
    <3> QED BY <1>s, <2>1, <2>2, <3>1, <3>2, <3>3, <3>4, FinishStep
  <2>4. CASE reply = "done" /\ Finish("ok")
    <3>1. call \in applied /\ "ok" \notin NoEffect
          BY <1>a, <2>1, <2>4 DEF Effects, NoEffect
    <3> QED BY <1>s, <2>1, <2>2, <2>4, <3>1, FinishStep
  <2>5. CASE reply = "done" /\ pc' = "confirm" /\ UNCHANGED <<code, group>>
    <3>1. call \in applied
          BY <1>a, <2>1, <2>5 DEF Effects
    <3>2. Lanes' /\ Owned'
          BY <1>a, <2>1, <2>2, <2>5 DEF Lanes, NoWatch, Owned, Connected, Working, Ended
    <3>3. Effects' /\ Answers' /\ Flights' /\ Recorded'
          BY <1>a, <2>1, <2>5, <3>1
          DEF Effects, Clean, Asking, Working, Answers, Flights, Recorded, Unsettled
    <3> QED BY <1>s, <2>1, <3>2, <3>3 DEF Rest
  <2> QED BY <1>17, <2>3, <2>4, <2>5 DEF Answered
<1>18. CASE Confirm
  <2>1. /\ pc = "confirm" /\ pc \notin Ended \cup Working
        /\ UNCHANGED <<call, req, worker, responded, answers, core, remote>>
        BY <1>18 DEF Confirm, Ended, Working
  <2>2. /\ ~Alive' /\ NoWatch /\ call \in applied
        BY <1>a, <2>1 DEF Owned, Alive, Lanes, Ended, Effects
  <2>3. \E c \in {"ok", "outcomeUnknown"} : Finish(c)
        BY <1>18 DEF Confirm
  <2>4. \A c \in {"ok", "outcomeUnknown"} : c \notin NoEffect
        BY DEF NoEffect
  <2> QED BY <1>s, <2>1, <2>2, <2>3, <2>4, FinishStep
<1>19. CASE TransportFailed
  <2>1. /\ group.leader = "zombie" /\ req.op \in Docker
        /\ pc \in Connected \cup {"dial"} /\ pc \notin Ended \cup Working
        /\ UNCHANGED <<call, req, worker, responded, answers, core, remote>>
        BY <1>19 DEF TransportFailed, Connected, Ended, Working
  <2>2. /\ ~Alive' /\ call > 0
        BY <1>a, <2>1 DEF Owned, Alive, Lanes, Ended
  <2>3. Finish(IF Mutates(req) /\ responded THEN "outcomeUnknown" ELSE "dockerUnavailable")
        BY <1>19 DEF TransportFailed
  <2>4. CASE Mutates(req) /\ responded
        BY <1>s, <2>1, <2>2, <2>3, <2>4, FinishStep DEF NoEffect
  <2>5. CASE ~(Mutates(req) /\ responded)
    <3>1. CASE pc = "dial"
          BY <1>c, <1>f, <1>s, <2>1, <2>3, <2>5, <3>1 DEF Asking
    <3>2. CASE pc # "dial"
      <4>1. ~Mutates(req)
            BY <1>a, <2>1, <2>5, <3>2 DEF Owned
      <4>2. Clean(call)
            BY <1>a, <2>2, <4>1 DEF Effects
      <4> QED BY <1>s, <2>1, <2>2, <2>3, <2>5, <4>2, FinishStep
    <3> QED BY <3>1, <3>2
  <2> QED BY <2>4, <2>5
<1> QED BY <1>1, <1>2, <1>3, <1>4, <1>5, <1>6, <1>7, <1>8, <1>9, <1>10, <1>11,
           <1>12, <1>13, <1>14, <1>15, <1>16, <1>17, <1>18, <1>19, <1>20 DEF Front

(* A worker leaves its log to the frontend.                                *)
LEMMA CoreDrains ==
    ASSUME IInv, Core PROVE Drains'
<1>1. UNCHANGED <<pipe, tail>>
      BY DEF Core, CoreQuery, CoreUnrecorded, operation_begin, CoreRefuse, CoreRestart,
             CoreMend, CoreChange, CoreSucceed, CoreFail, core
<1> QED BY <1>1 DEF IInv, Drains

-----------------------------------------------------------------------------
(* What was done on the way.                                               *)

(* A step that is not the worker's keeps Parts when it answers nothing new. *)
LEMMA PartsStep ==
    ASSUME Parts, UNCHANGED <<call, req, ledger, answers>>,
           pc' \in Served => pc \in Served \/ req.op \notin Halfway,
           worker'.result \in {worker.result} \/ worker'.result \notin Untouched,
           pc' = "draining" =>
               \/ pc = "draining" /\ code' = code
               \/ pc \in Served \/ code' \notin Untouched \/ code' = worker.result
    PROVE  Parts'
BY DEF Parts

LEMMA FrontParts ==
    ASSUME IInv, Front PROVE Parts'
<1> USE DEF core, remote
<1>a. TypeOK /\ Lanes /\ Parts
      BY DEF IInv
<1>b. /\ worker \in Workers /\ call \in 0..MaxCalls
      /\ (pc # "idle" => call \in Calls)
      BY <1>a DEF TypeOK, Lanes, Calls
<1>n. NoWorker.result \notin Untouched
      BY DEF NoWorker, Untouched, NoEffect
<1>d. \A c : Finish(c) => pc' = "draining" /\ code' = c
      BY DEF Finish
<1>1. CASE Accept
  <2>1. /\ call' = call + 1 /\ call < MaxCalls /\ pc' = "parsed" /\ worker' = NoWorker
        /\ UNCHANGED <<answers, ledger>>
        BY <1>1 DEF Accept
  <2>2. call' \in Calls /\ call' > call /\ \A c \in Calls : c > call' => c > call
        BY <1>b, <2>1, CallsAssumption DEF Calls
  <2>3. call' \notin ledger.partly
        BY <1>a, <2>2 DEF Parts
  <2> QED BY <1>a, <1>n, <2>1, <2>2, <2>3 DEF Parts
<1>2. CASE Route
      BY <1>2, <1>a, <1>d, PartsStep DEF Route, Served
<1>3. CASE WriteResult
  <2>1. /\ pc = "draining" /\ pc' \in {"idle", "sleep"} /\ call \in Calls
        /\ answers'[call] \in {code, "unread"}
        /\ \A d \in Calls \ {call} : answers'[d] = answers[d]
        /\ UNCHANGED <<call, req, worker, ledger>>
        BY <1>3, <1>a, <1>b DEF WriteResult, TypeOK
  <2>2. answers'[call] \in Untouched => call \notin ledger.partly
        BY <1>a, <2>1, PartialCodes DEF Parts
  <2>3. pc' \notin Served \cup {"draining"}
        BY <2>1 DEF Served, Connected
  <2> QED BY <1>a, <2>1, <2>2, <2>3 DEF Parts
<1>4. CASE WatchAgain
  <2>1. /\ pc = "sleep" /\ pc' \in {"idle", "parsed"} /\ worker' = NoWorker
        /\ call \in Calls /\ answers'[call] \in {answers[call], "cancelled"}
        /\ \A d \in Calls \ {call} : answers'[d] = answers[d]
        /\ UNCHANGED <<call, req, ledger>>
        BY <1>4, <1>a, <1>b DEF WatchAgain, TypeOK
  <2>2. call \notin ledger.partly
        BY <1>a, <2>1, Registry DEF Lanes, Parts
  <2> QED BY <1>a, <1>n, <2>1, <2>2 DEF Parts
<1>5. CASE SpawnWorker
  <2>1. /\ UNCHANGED <<call, req, ledger, answers>> /\ pc' \notin Served
        /\ worker'.result \in {worker.result, "none"}
        /\ pc' = "draining" => code' = "coreUnavailable"
        BY <1>5, <1>d DEF SpawnWorker, Served, Connected, NoWorker
  <2> QED BY <1>a, <2>1, PartsStep, PartialCodes
<1>6. CASE WriteRequest
  <2>1. /\ UNCHANGED <<call, req, ledger, answers>> /\ pc' \notin Served
        /\ worker'.result = worker.result
        /\ pc' = "draining" => code' = "coreProtocol"
        BY <1>6, <1>b, <1>d DEF WriteRequest, Served, Connected, Workers
  <2> QED BY <1>a, <2>1, PartsStep, PartialCodes
<1>7. CASE WorkerDone
  <2>1. /\ UNCHANGED <<call, req, ledger, answers>>
        /\ worker'.result = worker.result \/ worker' = NoWorker
        /\ pc' = "draining" =>
              code' \in {worker.result, "outcomeUnknown", "coreProtocol"}
        /\ pc' \in {"draining", "spawn", "dial"} /\ (pc' = "dial" => req.op \in Docker)
    <3>1. CASE ~worker.ok
          BY <1>7, <1>d, <3>1 DEF WorkerDone
    <3>2. CASE worker.ok
          BY <1>7, <1>b, <1>d, <3>2 DEF WorkerDone, Workers
    <3> QED BY <3>1, <3>2
  <2>2. pc' \in Served => req.op \notin Halfway
        BY <2>1, Registry DEF Served, Connected
  <2> QED BY <1>a, <1>n, <2>1, <2>2, PartsStep, PartialCodes
<1>8. CASE ReplyCut
  <2>1. /\ UNCHANGED <<call, req, ledger, answers>> /\ worker'.result = "none"
        /\ pc' = "draining" /\ code' = "coreProtocol" /\ pc' \notin Served
        BY <1>8, <1>d DEF ReplyCut, NoWorker, Served, Connected
  <2> QED BY <1>a, <2>1, PartsStep, PartialCodes
<1>9. CASE DialContext \/ Negotiate \/ LoadClient \/ ResolveCredential \/ ReadContainer
           \/ ListObjects \/ ReadObject \/ LogEnd \/ Send \/ Answered \/ Confirm
           \/ TransportFailed
  <2>1. UNCHANGED <<call, req, ledger, answers, worker>>
        BY <1>9 DEF DialContext, Negotiate, LoadClient, ResolveCredential, ReadContainer,
                    ListObjects, ReadObject, LogEnd, Send, Answered, Confirm,
                    TransportFailed
  <2>2. pc \in Served
        BY <1>9 DEF DialContext, Negotiate, LoadClient, ResolveCredential, ReadContainer,
                    ListObjects, ReadObject, LogEnd, Send, Answered, Confirm,
                    TransportFailed, Served, Connected
  <2> QED BY <1>a, <2>1, <2>2, PartsStep
<1> QED BY <1>1, <1>2, <1>3, <1>4, <1>5, <1>6, <1>7, <1>8, <1>9 DEF Front

LEMMA CoreParts ==
    ASSUME IInv, Core PROVE Parts'
<1> USE DEF core, remote
<1>a. TypeOK /\ Lanes /\ Owned /\ Answers /\ Recorded /\ Parts
      BY DEF IInv
<1>b. worker \in Workers /\ record \in Records /\ ledger \in Ledgers
      BY <1>a DEF TypeOK, Ledgers
<1>c. Alive => pc \in Working /\ call \in Calls
      BY <1>a DEF TypeOK, Lanes, Owned, Working, Calls
(* The call under way is the only one a worker adds, and has no answer.    *)
<1>s. ASSUME Alive, UNCHANGED <<call, req, pc, code, answers>>,
             \/ UNCHANGED ledger
             \/ ledger'.partly \in {ledger.partly, ledger.partly \cup {call}}
                  /\ req.op \in Halfway,
             worker'.result \in Untouched => req.op \notin Halfway
      PROVE  Parts'
  <2>1. pc' \notin Served \cup {"draining"} /\ call \in Calls
        BY <1>c, <1>s DEF Working, Served, Connected
  <2>2. \A c \in Calls : answers[c] \in Untouched \/ c > call => c # call
    <3>1. \A c \in Calls : answers[c] \in NoEffect => (c = call => pc = "idle")
          BY <1>a DEF Answers
    <3>2. pc # "idle" /\ Untouched \subseteq NoEffect
          BY <1>c, <1>s DEF Working, Untouched
    <3>3. \A c \in Calls : c > call => c # call
          BY <2>1 DEF Calls
    <3> QED BY <3>1, <3>2, <3>3
  <2>3. \A c \in Calls : answers[c] \in Untouched \/ c > call => c \notin ledger'.partly
        BY <1>a, <1>s, <2>2 DEF Parts
  <2>4. /\ call \in ledger'.partly => req.op \in Halfway
        /\ worker'.result \in Untouched => call \notin ledger'.partly
        BY <1>a, <1>s DEF Parts
  <2> QED BY <1>s, <2>1, <2>3, <2>4 DEF Parts
<1>r. \A rc \in Results : \A rec : Replies(rc, rec) => worker'.result \notin Untouched
      BY <1>b, ReplyTypes
<1>v. {"fail", "refused", "damaged", "ok", "restart"} \subseteq Results
      BY DEF Results
<1>1. CASE CoreQuery
  <2>1. /\ Alive /\ UNCHANGED <<call, req, pc, code, answers, ledger>>
        /\ worker'.result \in {"ok", "profileUnavailable"}
        BY <1>1, <1>b DEF CoreQuery, Executes, Alive, Workers
  <2> QED BY <1>s, <2>1, PartialCodes
<1>2. CASE CoreUnrecorded
  <2>1. /\ Alive /\ UNCHANGED <<call, req, pc, code, answers, ledger>>
        BY <1>2 DEF CoreUnrecorded, Executes, Alive
  <2>2. req.op \notin Halfway
        BY <1>2, Registry DEF CoreUnrecorded
  <2> QED BY <1>s, <2>1, <2>2
<1>3. CASE operation_begin
  <2>1. /\ Alive /\ UNCHANGED <<call, req, pc, code, answers, ledger>>
        /\ worker.result = "none"
        BY <1>3, <1>a DEF operation_begin, Executes, Alive, Recorded
  <2>2. \/ \E rec : Replies("fail", rec)
        \/ worker'.result = worker.result
        BY <1>3, <1>b DEF operation_begin, Workers
  <2> QED BY <1>r, <1>s, <1>v, <2>1, <2>2, PartialCodes
<1>4. CASE CoreRefuse
  <2>1. PICK rc \in {"fail", "refused", "damaged"} :
            operation_finish(rc, ~worker.unknown)
        BY <1>4 DEF CoreRefuse, operation_finish_unchanged
  <2>2. worker'.result \notin Untouched
        BY <1>b, <1>v, <2>1, OperationFinish
  <2>3. Alive /\ UNCHANGED <<call, req, pc, code, answers, ledger>>
        BY <1>4 DEF CoreRefuse, Alive
  <2> QED BY <1>s, <2>2, <2>3
<1>5. CASE CoreMend
  <2>1. /\ Alive /\ UNCHANGED <<call, req, pc, code, answers>> /\ req.op \in Starting
        /\ worker.result = "none"
        BY <1>5, <1>a DEF CoreMend, Alive, Recorded
  <2>2. /\ worker'.result = worker.result
        /\ ledger'.partly = ledger.partly \cup {call}
        BY <1>5, <1>b DEF CoreMend, Workers, Ledgers
  <2> QED BY <1>s, <2>1, <2>2, PartialCodes DEF Halfway
<1>6. CASE CoreRestart
  <2>1. Alive /\ UNCHANGED <<call, req, pc, code, answers>> /\ req.op \in Starting
        BY <1>6 DEF CoreRestart, Alive
  <2>2. ledger'.partly = ledger.partly
        BY <1>6, <1>b DEF CoreRestart, Ledgers
  <2>3. finish_record("restart", "restartRequired", worker.unknown)
        BY <1>6 DEF CoreRestart, operation_restart_required
  <2>4. worker.unknown \in BOOLEAN /\ "restartRequired" \in Statuses
        BY <1>b DEF Workers, Statuses
  <2>5. worker'.result \notin Untouched
        BY <1>b, <1>v, <2>3, <2>4, FinishRecord
  <2> QED BY <1>s, <2>1, <2>2, <2>5 DEF Halfway
<1>7. CASE CoreChange
  <2>1. /\ Alive /\ UNCHANGED <<call, req, pc, code, answers>> /\ worker.result = "none"
        BY <1>7, <1>a DEF CoreChange, Alive, Recorded
  <2>2. worker'.result = worker.result /\ ledger'.partly = ledger.partly
        BY <1>7, <1>b DEF CoreChange, Workers, Ledgers
  <2> QED BY <1>a, <1>c, <2>1, <2>2, PartialCodes
          DEF Parts, Working, Served, Connected
<1>8. CASE CoreSucceed
  <2>1. Alive /\ UNCHANGED <<call, req, pc, code, answers>>
        BY <1>8 DEF CoreSucceed, Alive
  <2>2. ledger'.partly = ledger.partly
        BY <1>8, <1>b DEF CoreSucceed, Ledgers
  <2>3. worker'.result \notin Untouched
        BY <1>8, <1>b, <1>v, OperationFinish DEF CoreSucceed
  <2> QED BY <1>a, <1>c, <2>1, <2>2, <2>3 DEF Parts, Working, Served, Connected
<1>9. CASE CoreFail
  <2>1. Alive /\ UNCHANGED <<call, req, pc, code, answers>>
        BY <1>9 DEF CoreFail, Alive
  <2>2. PICK restored \in BOOLEAN, rc \in {"fail", "damaged", "refused"} :
            /\ operation_finish(rc, restored)
            /\ restored => req.op \in Halfway
            /\ \/ UNCHANGED ledger
               \/ restored /\ \E part \in {{}, {call}} :
                    ledger' = [open |-> ledger.open \ {call},
                               covered |-> ledger.covered \cup (ledger.open \ {call}),
                               partly |-> ledger.partly \cup part]
        BY <1>9 DEF CoreFail, Restorable, Halfway
  <2>3. worker'.result \notin Untouched
        BY <1>b, <1>v, <2>2, OperationFinish
  <2>4. \/ UNCHANGED ledger
        \/ ledger'.partly \in {ledger.partly, ledger.partly \cup {call}}
             /\ req.op \in Halfway
        BY <2>2
  <2> QED BY <1>s, <2>1, <2>3, <2>4
<1> QED BY <1>1, <1>2, <1>3, <1>4, <1>5, <1>6, <1>7, <1>8, <1>9 DEF Core

LEMMA EnvironmentParts ==
    ASSUME IInv, Environment PROVE Parts'
<1> USE DEF core, remote
<1>a. Parts /\ worker \in Workers
      BY DEF IInv, TypeOK
<1>1. CASE Interrupted \/ Deadline
  <2>1. PICK c \in {"cancelled", "timeout"} : Dropped(c)
        BY <1>1 DEF Interrupted, Deadline
  <2>2. /\ UNCHANGED <<call, req, ledger, answers>> /\ worker'.result = worker.result
        /\ pc' = "draining" /\ code' \in {"outcomeUnknown", "cancelled", "timeout"}
        BY <1>a, <2>1 DEF Dropped, Finish, Workers
  <2> QED BY <1>a, <2>2, PartsStep, PartialCodes DEF Served, Connected
<1>2. CASE StopWorker \/ WorkerReady \/ WorkerDies \/ WorkerExits
  <2>1. /\ UNCHANGED <<call, req, ledger, answers, code>>
        /\ worker'.result \in {worker.result, "none"}
        /\ pc' \in {pc, "stopping"}
        BY <1>2, <1>a DEF StopWorker, WorkerReady, WorkerDies, WorkerExits, Workers
  <2> QED BY <1>a, <2>1, PartsStep, PartialCodes DEF Served, Connected
<1>3. CASE \/ Cancel \/ ReaderLeaves \/ Deliver \/ Helper \/ LeaderExits \/ LogLine
           \/ LogWritten \/ live_error \/ Others
  <2>1. UNCHANGED <<call, req, ledger, answers, code, pc, worker>>
        BY <1>3 DEF Cancel, ReaderLeaves, Deliver, Helper, LeaderExits, LogLine,
                    LogWritten, live_error, Others
  <2> QED BY <1>a, <2>1, PartsStep
<1>4. CASE ServerApplies \/ ServerRefuses
  <2>1. UNCHANGED <<call, req, ledger, answers, code, pc, worker>>
        BY <1>4 DEF ServerApplies, ServerRefuses, Decide
  <2> QED BY <1>a, <2>1, PartsStep
<1> QED BY <1>1, <1>2, <1>3, <1>4 DEF Environment

-----------------------------------------------------------------------------
LEMMA InitInvariant == Init => IInv
<1> SUFFICES ASSUME Init PROVE IInv
    OBVIOUS
<1>1. TypeOK
  <2>1. NoWorker \in Workers /\ NoGroup \in Groups /\ object \in Resources
        BY DEF Init, NoWorker, NoGroup, Workers, Codes, Groups, Resources
  <2>2. req \in RequestSet
        BY RequestsAssumption DEF Init
  <2>3. /\ call \in 0..MaxCalls /\ queued \in 0..EventCap
        /\ pipe \in 0..PipeCap /\ tail \in -1..PipeCap
        BY CallsAssumption DEF Init
  <2>4. record \in Records /\ code \in Codes
        BY DEF Init, Records, Codes
  <2>5. /\ answers \in [Calls -> Codes \cup {"unread"}]
        /\ seen \in [Calls -> Resources] /\ target \in [Calls -> Nat]
        BY DEF Init, Codes, Resources
  <2> QED BY <2>1, <2>2, <2>3, <2>4, <2>5 DEF TypeOK, Init, Groups, NoLedger
<1>2. Lanes /\ Owned /\ Recorded /\ Drains
      BY DEF Init, Lanes, Owned, Recorded, Unsettled, Drains, Alive, Connected, Ended,
             NoWorker, NoGroup, NoLedger
<1>5. Parts
      BY DEF Init, Parts, NoLedger
<1>3. Effects
      BY DEF Init, Effects, Asking, Working
<1>4. Answers /\ Flights
      BY DEF Init, Answers, Flights, Clean, NoEffect
<1> QED BY <1>1, <1>2, <1>3, <1>4, <1>5 DEF IInv

LEMMA StepInvariant == IInv /\ [Next]_vars => IInv'
<1> SUFFICES ASSUME IInv, [Next]_vars PROVE IInv'
    OBVIOUS
<1>1. CASE Front
      BY <1>1, FrontTypes, FrontRest, FrontParts DEF IInv, Rest
<1>2. CASE Core
      BY <1>2, CoreTypes, CoreRest, CoreDrains, CoreParts DEF IInv, Rest
<1>3. CASE Environment
      BY <1>3, EnvironmentTypes, EnvironmentRest, EnvironmentParts DEF IInv, Rest
<1>4. CASE UNCHANGED vars
  <2>1. TypeOK' /\ Drains' /\ Parts'
        BY <1>4, PartsStep DEF vars, core, remote, IInv, TypeOK, Drains
  <2>2. Rest'
        BY <1>4, QuietStep DEF vars, core, remote, IInv, Rest
  <2> QED BY <2>1, <2>2 DEF IInv, Rest
<1> QED BY <1>1, <1>2, <1>3, <1>4 DEF Next, Environment

(* The inductive invariant holds.                                          *)
THEOREM Invariant == Spec => []IInv
BY InitInvariant, StepInvariant, PTL DEF Spec

(* Every variable keeps its type.                                          *)
THEOREM TypeCorrect == Spec => []TypeOK
<1>1. IInv => TypeOK
      BY DEF IInv
<1> QED BY <1>1, Invariant, PTL

(* An answer that says that what was asked for did not happen is true and  *)
(* stays true; one that says that nothing was changed is never given to a  *)
(* call that changed something on the way, and only a start or a reset can *)
(* have done that; a mutation answered with success took effect (core.rs,  *)
(* cmd_start.c, cmd_reset.c, docker.rs, kubernetes.rs, service.rs).        *)
THEOREM AnswersAlwaysHonest == Spec => []HonestAnswer
<1>1. IInv => HonestAnswer
      BY DEF IInv, Answers, Clean, Parts, Halfway, HonestAnswer
<1> QED BY <1>1, Invariant, PTL

(* A mutation only changes the container or object that its request read   *)
(* (docker.rs:142-150, kubernetes.rs preconditions).                       *)
THEOREM AlwaysChangesWhatItRead == Spec => []ChangesWhatItRead
<1>1. IInv => ChangesWhatItRead
      BY DEF IInv, TypeOK, Flights, ChangesWhatItRead
<1> QED BY <1>1, Invariant, PTL

(* A VM change nobody completed or undid keeps reading as unknown until an *)
(* operation completes or fails in a state it knows (operation.c,          *)
(* cmd_start.c start_finish, cmd_reset.c).                                 *)
THEOREM UnknownAlwaysStays == Spec => []UnknownStays
<1>1. IInv => UnknownStays
  <2>1. ASSUME IInv PROVE UnknownStays
    <3>1. CASE record.status = "running"
          BY <2>1, <3>1 DEF IInv, TypeOK, Records, UnknownStays, Snapshot
    <3>2. CASE record.status # "running"
          BY <2>1, <3>2 DEF IInv, Recorded, UnknownStays, Snapshot
    <3> QED BY <3>1, <3>2
  <2> QED BY <2>1
<1> QED BY <1>1, Invariant, PTL

(* A request is answered only when its process group is gone and its       *)
(* worker is too, or can do nothing but exit after a reply that was cut    *)
(* off (core.rs call_executable, query_process.rs Drop).                   *)
THEOREM NothingEverLeftBehind == Spec => []NothingLeftBehind
<1>1. IInv => NothingLeftBehind
  <2>1. ASSUME IInv, pc \in {"idle", "draining", "sleep"}
        PROVE  /\ ~Alive /\ group.leader \notin {"alive", "zombie"}
               /\ req.op \in Docker => ~group.helper
    <3>1. ~Alive /\ group.leader \notin {"alive", "zombie"}
          BY <2>1 DEF IInv, Owned, Working, Connected
    <3>2. group.leader \in {"none", "reaped"}
          BY <2>1, <3>1 DEF IInv, TypeOK
    <3> QED BY <2>1, <3>1, <3>2 DEF IInv, Owned
  <2> QED BY <2>1 DEF NothingLeftBehind
<1> QED BY <1>1, Invariant, PTL
=============================================================================
