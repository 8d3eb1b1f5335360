--------------------------- MODULE ConfigReloader ---------------------------
(***************************************************************************)
(* The config-reloader (cmd/config-reloader): gRPC calls that add a tenant *)
(* to, or remove one from, the edge-node configuration kept in a           *)
(* Kubernetes ConfigMap, and that answer OK only when the metrics-exporter *)
(* container already runs the configuration that results.                  *)
(*                                                                         *)
(* Every call runs processTenant in a goroutine of its own; pc[c] is the   *)
(* statement it is about to execute, and each request to the Kubernetes    *)
(* API or to the container is a step, so that calls, failures, client      *)
(* cancellations and process stops interleave as they can in the program.  *)
(* A server is one config-reloader process; its mutex is its own.          *)
(***************************************************************************)
EXTENDS TenantList

CONSTANTS
    Servers,        \* config-reloader processes
    Calls,          \* call slots, each used by one call at a time
    Server,         \* the process that serves each slot
    InitialOrgs,    \* mimirOrg values the chart can install
    Hashes,         \* what the container may answer to GET /confighash
    NoHash,         \* the pod has no configMapHash annotation
    Nobody,         \* the mutex is free
    LatePatches     \* whether an abandoned patch may still reach the API server

ASSUME ReloaderAssumption ==
    /\ Server \in [Calls -> Servers]
    /\ InitialOrgs \subseteq Orgs
    /\ Nobody \notin Calls
    /\ LatePatches \in BOOLEAN

VARIABLES
    configMap,      \* mimirOrg as the ConfigMap holds it
    annotation,     \* configMapHash in the annotations of the pod
    late,           \* abandoned patches the API server has not applied
    lock,           \* holder of the mutex of each server
    pc,             \* next statement of each call, or its answer
    req,            \* the request of each call
    data,           \* configData of each call
    answer          \* containerConfigHash of each call

vars == <<configMap, annotation, late, lock, pc, req, data, answer>>

Requests == [action : {"initialize", "cleanup"}, tenant : Names]
Accepted == {r \in Requests : ValidTenantID(r.tenant)}
NoRequest == [action |-> "none"]

InLock == {"get", "patch", "patched", "hash", "compare", "getPod", "updatePod",
           "reload", "reloading"}
Working == InLock \cup {"lock"}
Answers == {"OK", "InvalidArgument", "Internal", "Unavailable"}

TypeOK ==
    /\ configMap \in Orgs
    /\ annotation \in Orgs \cup {NoHash}
    /\ late \in SUBSET Orgs
    /\ lock \in [Servers -> Calls \cup {Nobody}]
    /\ pc \in [Calls -> Working \cup Answers \cup {"idle"}]
    /\ req \in [Calls -> Accepted \cup {NoRequest}]
    /\ data \in [Calls -> Orgs]
    /\ answer \in [Calls -> Hashes \cup {NoHash}]

Init ==
    /\ configMap \in InitialOrgs
    /\ annotation = NoHash
    /\ late = {}
    /\ lock = [s \in Servers |-> Nobody]
    /\ pc = [c \in Calls |-> "idle"]
    /\ req = [c \in Calls |-> NoRequest]
    /\ data = [c \in Calls |-> <<Blank>>]
    /\ answer = [c \in Calls |-> NoHash]

-----------------------------------------------------------------------------
Goto(c, label) == pc' = [pc EXCEPT ![c] = label]

\* Return an answer; the deferred Unlock runs first.
Return(c, code) ==
    /\ Goto(c, code)
    /\ lock' = [lock EXCEPT ![Server[c]] = Nobody]
    /\ data' = [data EXCEPT ![c] = <<Blank>>]
    /\ answer' = [answer EXCEPT ![c] = NoHash]

\* A request arrives; its tenant ID is validated before the mutex is taken.
Receive(c, r) ==
    /\ pc[c] = "idle"
    /\ ValidTenantID(r.tenant)
    /\ req' = [req EXCEPT ![c] = r]
    /\ Goto(c, "lock")
    /\ UNCHANGED <<configMap, annotation, late, lock, data, answer>>

Refuse(c, r) ==
    /\ pc[c] = "idle"
    /\ ~ ValidTenantID(r.tenant)
    /\ Goto(c, "InvalidArgument")
    /\ UNCHANGED <<configMap, annotation, late, lock, req, data, answer>>

\* Mutant: Lock does not wait for the holder.
LockShared(c) ==
    /\ pc[c] = "lock"
    /\ lock' = [lock EXCEPT ![Server[c]] = c]
    /\ Goto(c, "get")
    /\ UNCHANGED <<configMap, annotation, late, req, data, answer>>

Lock(c) ==
    /\ pc[c] = "lock"
    /\ lock[Server[c]] = Nobody
    /\ lock' = [lock EXCEPT ![Server[c]] = c]
    /\ Goto(c, "get")
    /\ UNCHANGED <<configMap, annotation, late, req, data, answer>>

\* AlreadyExists or NotFound: the ConfigMap agrees with the request as it is.
AlreadyDone(r, org) == r.action = "initialize" <=> Contains(org, r.tenant)

Change(r, org) ==
    IF r.action = "initialize" THEN AddTenant(org, r.tenant) ELSE RemoveTenant(org, r.tenant)

\* Mutant: the test of the response code is inverted.
GetConfigMapInverted(c) ==
    /\ pc[c] = "get"
    /\ data' = [data EXCEPT ![c] = Change(req[c], configMap)]
    /\ Goto(c, IF AlreadyDone(req[c], configMap) THEN "patch" ELSE "hash")
    /\ UNCHANGED <<configMap, annotation, late, lock, req, answer>>

\* Mutant: AlreadyExists comes with an empty configuration, as Internal does.
GetConfigMapEmpty(c) ==
    /\ pc[c] = "get"
    /\ data' = [data EXCEPT ![c] = IF AlreadyDone(req[c], configMap) THEN <<Blank>>
                                  ELSE Change(req[c], configMap)]
    /\ Goto(c, IF AlreadyDone(req[c], configMap) THEN "hash" ELSE "patch")
    /\ UNCHANGED <<configMap, annotation, late, lock, req, answer>>

\* The ConfigMap is read and the new list computed; a list that is already
\* right is not written, but is still compared with the container's.
GetConfigMap(c) ==
    /\ pc[c] = "get"
    /\ data' = [data EXCEPT ![c] = Change(req[c], configMap)]
    /\ Goto(c, IF AlreadyDone(req[c], configMap) THEN "hash" ELSE "patch")
    /\ UNCHANGED <<configMap, annotation, late, lock, req, answer>>

\* The API server applies the patch, which names no resourceVersion and
\* replaces the whole value ...
ApplyPatch(c) ==
    /\ pc[c] = "patch"
    /\ configMap' = data[c]
    /\ Goto(c, "patched")
    /\ UNCHANGED <<annotation, late, lock, req, data, answer>>

\* ... and its answer reaches the call.
PatchReturns(c) ==
    /\ pc[c] = "patched"
    /\ Goto(c, "hash")
    /\ UNCHANGED <<configMap, annotation, late, lock, req, data, answer>>

\* The container answers GET /confighash with the hash h.
ReadHash(c, h) ==
    /\ pc[c] = "hash"
    /\ answer' = [answer EXCEPT ![c] = h]
    /\ Goto(c, "compare")
    /\ UNCHANGED <<configMap, annotation, late, lock, req, data>>

Confirm(c) ==
    /\ pc[c] = "compare"
    /\ answer[c] = data[c]
    /\ Return(c, "OK")
    /\ UNCHANGED <<configMap, annotation, late, req>>

Mismatch(c) ==
    /\ pc[c] = "compare"
    /\ answer[c] # data[c]
    /\ Goto(c, "getPod")
    /\ UNCHANGED <<configMap, annotation, late, lock, req, data, answer>>

GetPod(c) ==
    /\ pc[c] = "getPod"
    /\ Goto(c, "updatePod")
    /\ UNCHANGED <<configMap, annotation, late, lock, req, data, answer>>

\* The annotation makes the kubelet refresh the mounted file; a failure to
\* write it is only logged.
UpdatePod(c) ==
    /\ pc[c] = "updatePod"
    /\ annotation' \in {data[c], annotation}
    /\ Goto(c, "reload")
    /\ UNCHANGED <<configMap, late, lock, req, data, answer>>

PostReload(c) ==
    /\ pc[c] = "reload"
    /\ Goto(c, "reloading")
    /\ UNCHANGED <<configMap, annotation, late, lock, req, data, answer>>

\* The container answers 200 to the reload: the caller is told to try again.
ReloadReturns(c) ==
    /\ pc[c] = "reloading"
    /\ Return(c, "Internal")
    /\ UNCHANGED <<configMap, annotation, late, req>>

\* A request to the API server or to the container fails, or its context is
\* cancelled.  A patch that was on its way may stay on its way.
FailureCode(label) ==
    IF label \in {"hash", "reload", "reloading"} THEN "Unavailable" ELSE "Internal"

Abandoned(C) == {data[c] : c \in {d \in C : LatePatches /\ pc[d] = "patch"}}

\* Mutant: the error of updateConfigMap is logged and the call goes on.
FailPatchLogged(c) ==
    /\ pc[c] = "patch"
    /\ Goto(c, "hash")
    /\ UNCHANGED <<configMap, annotation, late, lock, req, data, answer>>

\* Mutant: an early return without the deferred Unlock.
FailLocked(c) ==
    /\ pc[c] \in InLock \ {"compare", "updatePod"}
    /\ Goto(c, FailureCode(pc[c]))
    /\ data' = [data EXCEPT ![c] = <<Blank>>]
    /\ answer' = [answer EXCEPT ![c] = NoHash]
    /\ UNCHANGED <<configMap, annotation, late, lock, req>>

Fail(c) ==
    /\ pc[c] \in InLock \ {"compare", "updatePod"}
    /\ late' \in {late, late \cup Abandoned({c})}
    /\ Return(c, FailureCode(pc[c]))
    /\ UNCHANGED <<configMap, annotation, req>>

LatePatch ==
    /\ configMap' \in late
    /\ late' = late \ {configMap'}
    /\ UNCHANGED <<annotation, lock, pc, req, data, answer>>

\* The process stops (crash, or SIGTERM and the grace period) and is started
\* again: its calls break off and its mutex is new.
Stop(s) ==
    LET broken == {c \in Calls : Server[c] = s /\ pc[c] \in Working}
    IN  /\ broken # {}
        /\ pc' = [c \in Calls |-> IF c \in broken THEN "Unavailable" ELSE pc[c]]
        /\ data' = [c \in Calls |-> IF c \in broken THEN <<Blank>> ELSE data[c]]
        /\ answer' = [c \in Calls |-> IF c \in broken THEN NoHash ELSE answer[c]]
        /\ lock' = [lock EXCEPT ![s] = Nobody]
        /\ late' \in {late, late \cup Abandoned(broken)}
        /\ UNCHANGED <<configMap, annotation, req>>

\* The client takes the answer; its slot is free for another call.
Finish(c) ==
    /\ pc[c] \in Answers
    /\ Goto(c, "idle")
    /\ req' = [req EXCEPT ![c] = NoRequest]
    /\ UNCHANGED <<configMap, annotation, late, lock, data, answer>>

-----------------------------------------------------------------------------
\* What processTenant does once it holds the mutex.
Proceed(c) ==
    \/ GetConfigMap(c) \/ ApplyPatch(c) \/ PatchReturns(c)
    \/ \E h \in Hashes : ReadHash(c, h)
    \/ Confirm(c) \/ Mismatch(c) \/ GetPod(c) \/ UpdatePod(c)
    \/ PostReload(c) \/ ReloadReturns(c) \/ Fail(c)

Next ==
    \/ \E c \in Calls : \/ \E r \in Requests : Receive(c, r) \/ Refuse(c, r)
                      \/ Lock(c) \/ Proceed(c) \/ Finish(c)
    \/ LatePatch
    \/ \E s \in Servers : Stop(s)

Spec == Init /\ [][Next]_vars

\* The scheduler runs every goroutine, each request is answered or fails, and
\* a Go mutex does not pass over a waiter for ever.
Fairness == \A c \in Calls : WF_vars(Proceed(c)) /\ SF_vars(Lock(c))

FairSpec == Spec /\ Fairness

-----------------------------------------------------------------------------
\* How far the abstract call is: it takes effect when its patch is applied,
\* or when it finds the ConfigMap as it wants it.
PhaseOf(label) ==
    IF label = "idle" THEN "idle"
    ELSE IF label \in {"lock", "get", "patch"} THEN "open"
    ELSE IF label \in InLock THEN "applied"
    ELSE IF label = "OK" THEN "ok"
    ELSE "failed"

Phase == [c \in Calls |-> PhaseOf(pc[c])]

Registry == INSTANCE TenantRegistry
                WITH tenants <- Members(configMap), phase <- Phase, op <- req

(***************************************************************************)
(* The comment on the mutex (config_reloader.go:79) promises the atomicity *)
(* of tenant operations: the ConfigMap changes as if every call changed    *)
(* exactly its own tenant at one instant between its start and its answer, *)
(* and a call answered OK has done so.  A patch replaces the whole list,   *)
(* so one computed from a stale read would add or drop other tenants.      *)
(***************************************************************************)
TenantOperationsAtomic == Registry!Spec

(***************************************************************************)
(* A list about to be written is the change of the list the ConfigMap      *)
(* holds now, however long ago the call read it; from then on until the    *)
(* call ends, what it compares with the container is what the ConfigMap    *)
(* holds (processTenant reads at line 211 and uses the result up to 276).  *)
(***************************************************************************)
SnapshotIsCurrent ==
    \A c \in Calls :
        /\ pc[c] = "patch" => /\ ~ AlreadyDone(req[c], configMap)
                              /\ data[c] = Change(req[c], configMap)
        /\ pc[c] \in InLock \ {"get", "patch"} => /\ AlreadyDone(req[c], configMap)
                                                 /\ data[c] = configMap

(***************************************************************************)
(* OK is answered only if the container, asked during the call, gave the   *)
(* hash of the list that the ConfigMap holds at the answer.                *)
(***************************************************************************)
OkAgreesWithConfigMap ==
    [][\A c \in Calls : pc[c] # "OK" /\ pc'[c] = "OK" => answer[c] = configMap']_vars

(***************************************************************************)
(* Whatever other servers and abandoned patches do to the ConfigMap, a     *)
(* call is answered OK only if the container gave a hash of a list that    *)
(* has the tenant it initialized, or lacks the one it cleaned up.          *)
(***************************************************************************)
OkMeansContainerHasIt ==
    [][\A c \in Calls : pc[c] # "OK" /\ pc'[c] = "OK" => AlreadyDone(req[c], answer[c])]_vars

(***************************************************************************)
(* No tenant is listed twice, although every call appends to a list it     *)
(* read earlier and several of them may write the ConfigMap.               *)
(***************************************************************************)
NoTenantTwice == Distinct(configMap)

(***************************************************************************)
(* Whatever is initialized and cleaned up, a list of several tenants holds *)
(* no name that validateTenantID refuses ("tenant ID cannot be empty",     *)
(* config_reloader.go:306).                                                *)
(***************************************************************************)
NamesAreValid ==
    Len(configMap) > 1 => \A i \in 1..Len(configMap) : ValidTenantID(configMap[i])

(***************************************************************************)
(* A server has one call at most between Lock and Unlock: no path of       *)
(* processTenant, and no stop of the process, leaves a call running        *)
(* outside the mutex or the mutex taken by a call that has ended.          *)
(***************************************************************************)
MutexGuardsCalls ==
    \A c \in Calls : lock[Server[c]] = c <=> pc[c] \in InLock

(***************************************************************************)
(* Every call that is received is answered, also when requests fail while  *)
(* it holds the mutex and other calls compete for it.                      *)
(***************************************************************************)
EveryCallAnswered ==
    \A c \in Calls : pc[c] \in Working ~> pc[c] \in Answers
=============================================================================
