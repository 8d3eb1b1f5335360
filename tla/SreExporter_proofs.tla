------------------------- MODULE SreExporter_proofs --------------------------
(***************************************************************************)
(* Theorems of the pod, for any callers, requests, lists, faults and       *)
(* reloads that are owed.                                                  *)
(***************************************************************************)
EXTENDS SreExporter, ConfigReloader_proofs, FiniteSetTheorems

-----------------------------------------------------------------------------
(***************************************************************************)
(* The pod's config-reloader is ConfigReloader: every step of the pod is a *)
(* step of it or leaves its variables alone.                               *)
(***************************************************************************)
LEMMA AskedAccepted ==
    ASSUME NEW c \in Calls, NEW r \in Asks[c]
    PROVE  r \in Accepted /\ r \in Requests
BY PodAssumption DEF Accepted

LEMMA ReloaderStep == [PodNext]_allVars => [Next]_vars
<1> SUFFICES ASSUME [PodNext]_allVars PROVE Next \/ UNCHANGED vars
  OBVIOUS
<1>1. ASSUME NEW c \in Calls, Local(c) PROVE Next
  BY <1>1, AskedAccepted DEF Local, Next, Proceed
<1>2. ASSUME NEW c \in Calls, WriteConfigMap(c) PROVE Next
  BY <1>2 DEF WriteConfigMap, Next, Proceed
<1>3. ASSUME NEW c \in Calls, GetHash(c) PROVE Next
  BY <1>3 DEF GetHash, Next, Proceed
<1>4. ASSUME NEW c \in Calls, AnswerOK(c) PROVE Next
  BY <1>4 DEF AnswerOK, Next, Proceed
<1>5. ASSUME NEW c \in Calls, RequestReload(c) PROVE Next
  BY <1>5 DEF RequestReload, Next, Proceed
<1>6. ASSUME NEW c \in Calls, ReloadAnswered(c) PROVE Next
  BY <1>6 DEF ReloadAnswered, Next, Proceed
<1>7. ASSUME NEW c \in Calls, NotServed(c) \/ NotAnswered(c) \/ RequestFails(c) PROVE Next
  BY <1>7 DEF NotServed, NotAnswered, RequestFails, Next, Proceed
<1>8. ASSUME NEW s \in Servers, ReloaderStops(s) PROVE Next
  BY <1>8 DEF ReloaderStops, Next
<1>9. ASSUME \/ \E c \in Calls : Reload(c)
             \/ Fetch \/ Mount \/ ReadFile \/ Serve \/ ContainerEnds
      PROVE  UNCHANGED vars
  BY <1>9 DEF Reload, Fetch, Mount, ReadFile, Serve, ContainerEnds
<1>10. CASE UNCHANGED allVars
  BY <1>10 DEF allVars
<1>11. QED
  BY <1>1, <1>2, <1>3, <1>4, <1>5, <1>6, <1>7, <1>8, <1>9, <1>10 DEF PodNext, Advance

(***************************************************************************)
(* What is proved of processTenant with a container that may answer        *)
(* anything holds in the pod, where a particular container answers.        *)
(***************************************************************************)
THEOREM PodIsConfigReloader == PodSpec => Spec
<1>1. PodInit => Init
  BY DEF PodInit
<1>2. QED
  BY <1>1, ReloaderStep, PTL DEF PodSpec, Spec

(***************************************************************************)
(* So with one writer the ConfigMap of the pod changes by one tenant at a  *)
(* time, as if each call were one instant, and an answer OK is about the   *)
(* list that the ConfigMap holds.                                          *)
(***************************************************************************)
THEOREM PodCallsAtomic ==
    ASSUME OneWriter
    PROVE  PodSpec => TenantOperationsAtomic /\ OkAgreesWithConfigMap
BY PodIsConfigReloader, OneWriterAtomic, OkIsCurrent, PTL

LEMMA PodOneWriter ==
    ASSUME OneWriter
    PROVE  PodSpec => []OneWriterInv
BY PodIsConfigReloader, OneWriterInvariance, PTL

-----------------------------------------------------------------------------
(***************************************************************************)
(* The types of the pod.  Every list in it is one of Hashes, since a list  *)
(* is computed from the ConfigMap for a request that was asked; a reload   *)
(* under way is owed a read.                                               *)
(***************************************************************************)
ListsKnown ==
    /\ {configMap, fetched} \subseteq Hashes
    /\ \A c \in Calls : pc[c] \in Working => req[c] \in Asks[c]
    /\ \A c \in Calls : pc[c] \in InLock \ {"get"} => data[c] \in Hashes

PostedOwed ==
    /\ posted \in SUBSET Calls
    /\ IsFiniteSet(posted)
    /\ Cardinality(posted) <= owed

HistoryTypes == confirmed \in BOOLEAN /\ faults \in 0..MaxFaults

PodInv == Inv /\ ListsKnown /\ Container!TypeOK /\ PostedOwed /\ HistoryTypes

LEMMA PodInitInv == PodInit => PodInv
<1> SUFFICES ASSUME PodInit PROVE PodInv
  OBVIOUS
<1>1. Inv
  BY InitInv DEF PodInit
<1>2. ListsKnown
  BY PodAssumption DEF PodInit, Init, ListsKnown, Working, InLock
<1>3. Container!TypeOK
  BY DEF PodInit, Container!Init, Container!TypeOK
<1>4. PostedOwed
  BY FS_EmptySet DEF PodInit, Container!Init, PostedOwed
<1>5. HistoryTypes
  <2>1. MaxFaults \in Nat
    BY PodAssumption
  <2>2. confirmed = FALSE /\ faults = 0
    BY DEF PodInit
  <2>3. faults \in 0..MaxFaults
    BY <2>1, <2>2
  <2>4. QED
    BY <2>2, <2>3, Zenon DEF HistoryTypes
<1>6. QED
  BY <1>1, <1>2, <1>3, <1>4, <1>5 DEF PodInv

\* Steps after which no call has a request or a list that it had not before.
LEMMA ListsKept ==
    ASSUME ListsKnown, UNCHANGED configMap, fetched' \in {fetched, configMap},
           \A c \in Calls :
               /\ pc'[c] \in Working => pc[c] \in Working /\ req'[c] = req[c]
               /\ pc'[c] \in InLock \ {"get"} =>
                    pc[c] \in InLock \ {"get"} /\ data'[c] = data[c]
    PROVE  ListsKnown'
BY DEF ListsKnown

LEMMA ListsKnownNext == Inv /\ ListsKnown /\ [PodNext]_allVars => ListsKnown'
<1> SUFFICES ASSUME Inv, ListsKnown, [PodNext]_allVars PROVE ListsKnown'
  OBVIOUS
<1> USE DEF Inv, TypeOK
<1>1. ASSUME NEW c \in Calls, NEW r \in Asks[c], Receive(c, r), UNCHANGED fetched
      PROVE  ListsKnown'
  BY <1>1 DEF Receive, Goto, ListsKnown, InLock
<1>2. ASSUME NEW c \in Calls, GetConfigMap(c), UNCHANGED fetched PROVE ListsKnown'
  <2>1. req[c] \in Asks[c] /\ configMap \in Hashes
    BY <1>2 DEF GetConfigMap, ListsKnown, Working, InLock
  <2>2. Change(req[c], configMap) \in Hashes
    BY <2>1, PodAssumption
  <2>3. PICK label \in {"hash", "patch"} : Goto(c, label)
    BY <1>2 DEF GetConfigMap
  <2>4. \A d \in Calls : d # c => pc'[d] = pc[d] /\ data'[d] = data[d]
    BY <1>2, <2>3 DEF GetConfigMap, Goto
  <2>5. data'[c] = Change(req[c], configMap) /\ UNCHANGED <<configMap, req>>
    BY <1>2 DEF GetConfigMap
  <2>6. pc'[c] = label /\ pc[c] = "get"
    BY <1>2, <2>3 DEF GetConfigMap, Goto
  <2>7. QED
    BY <1>2, <2>1, <2>2, <2>4, <2>5, <2>6 DEF ListsKnown
<1>3. ASSUME NEW c \in Calls, WriteConfigMap(c) PROVE ListsKnown'
  <2>1. data[c] \in Hashes
    BY <1>3 DEF WriteConfigMap, ApplyPatch, ListsKnown, InLock
  <2>2. QED
    BY <1>3, <2>1 DEF WriteConfigMap, ApplyPatch, Goto, ListsKnown, Working, InLock
\* Steps to another statement under the mutex, and returns.
<1>4. ASSUME NEW c \in Calls, NEW label, Goto(c, label), UNCHANGED <<configMap, fetched, req>>,
             \/ label \in InLock \ {"get"} /\ pc[c] \in InLock \ {"get"} /\ UNCHANGED data
             \/ label = "get" /\ pc[c] = "lock" /\ UNCHANGED data
             \/ label \in Answers /\ Return(c, label)
      PROVE  ListsKnown'
  <2>1. pc'[c] = label /\ \A d \in Calls : d # c => pc'[d] = pc[d] /\ data'[d] = data[d]
    BY <1>4 DEF Goto, Return
  <2>2. label \in Answers => label \notin Working /\ label \notin InLock
    BY DEF Answers, Working, InLock
  <2>3. QED
    BY <1>4, <2>1, <2>2, ListsKept DEF Working, InLock
<1>5. ASSUME NEW c \in Calls, Lock(c) \/ PatchReturns(c) \/ Mismatch(c) \/ GetPod(c) \/ UpdatePod(c),
             UNCHANGED fetched
      PROVE  ListsKnown'
  BY <1>4, <1>5 DEF Lock, PatchReturns, Mismatch, GetPod, UpdatePod, InLock
<1>6. ASSUME NEW c \in Calls, GetHash(c) \/ RequestReload(c) PROVE ListsKnown'
  BY <1>4, <1>6 DEF GetHash, ReadHash, RequestReload, PostReload, InLock, podVars
<1>7. ASSUME NEW c \in Calls, AnswerOK(c) \/ ReloadAnswered(c) PROVE ListsKnown'
  BY <1>4, <1>7 DEF AnswerOK, Confirm, ReloadAnswered, ReloadReturns, Return, Answers, podVars
<1>8. ASSUME NEW c \in Calls, NotServed(c) \/ NotAnswered(c) \/ RequestFails(c)
      PROVE  ListsKnown'
  <2>1. Fail(c) /\ UNCHANGED fetched
    BY <1>8 DEF NotServed, NotAnswered, RequestFails, podVars
  <2>2. FailureCode(pc[c]) \in Answers
    BY DEF FailureCode, Answers
  <2>3. QED
    BY <1>4, <2>1, <2>2 DEF Fail, Return
<1>9. ASSUME NEW c \in Calls, Finish(c), UNCHANGED fetched PROVE ListsKnown'
  BY <1>9, ListsKept DEF Finish, Goto, Working, InLock
<1>10. ASSUME NEW s \in Servers, ReloaderStops(s) PROVE ListsKnown'
  BY <1>10, ListsKept DEF ReloaderStops, Stop, Working, InLock
<1>11. ASSUME UNCHANGED vars, fetched' \in {fetched, configMap} PROVE ListsKnown'
  BY <1>11, ListsKept DEF vars
<1>12. ASSUME NEW c \in Calls, Local(c) PROVE ListsKnown'
  BY <1>1, <1>2, <1>5, <1>9, <1>12 DEF Local, podVars
<1>13. ASSUME \/ \E c \in Calls : Reload(c)
              \/ Fetch \/ Mount \/ ReadFile \/ Serve \/ ContainerEnds
              \/ UNCHANGED allVars
       PROVE  ListsKnown'
  BY <1>11, <1>13 DEF Reload, Fetch, Mount, ReadFile, Serve, ContainerEnds, podVars, allVars
<1>14. QED
  BY <1>3, <1>6, <1>7, <1>8, <1>10, <1>12, <1>13 DEF PodNext, Advance

\* What a step does to the container; all others leave it alone.
LEMMA ContainerStep ==
    ASSUME PodNext
    PROVE  \/ \E c \in Calls : RequestReload(c) \/ Reload(c)
           \/ Mount \/ ReadFile \/ Serve \/ ContainerEnds
           \/ UNCHANGED <<containerVars, posted>>
BY DEF PodNext, Advance, Local, WriteConfigMap, GetHash, AnswerOK, ReloadAnswered, NotServed,
       NotAnswered, RequestFails, ReloaderStops, Fetch, podVars

LEMMA PostedOwedNext ==
    Container!TypeOK /\ PostedOwed /\ [PodNext]_allVars => PostedOwed'
<1> SUFFICES ASSUME Container!TypeOK, PostedOwed, [PodNext]_allVars PROVE PostedOwed'
  OBVIOUS
<1> USE DEF PostedOwed
<1>0. owed \in Nat /\ Cardinality(posted) \in Nat
  BY FS_CardinalityType DEF Container!TypeOK
<1>1. ASSUME NEW c \in Calls, RequestReload(c) PROVE PostedOwed'
  <2>1. posted' = posted \cup {c} /\ owed' = owed + 1
    BY <1>1 DEF RequestReload, Container!Accept
  <2>2. /\ IsFiniteSet(posted \cup {c})
        /\ \/ Cardinality(posted \cup {c}) = Cardinality(posted)
           \/ Cardinality(posted \cup {c}) = Cardinality(posted) + 1
    BY FS_AddElement
  <2>3. QED
    BY <1>0, <2>1, <2>2
<1>2. ASSUME NEW c \in Calls, Reload(c) PROVE PostedOwed'
  <2>1. posted' = posted \ {c} /\ owed' = owed
    BY <1>2 DEF Reload, Container!Withdraw
  <2>2. IsFiniteSet(posted \ {c}) /\ Cardinality(posted \ {c}) <= Cardinality(posted)
    BY FS_Subset
  <2>3. Cardinality(posted \ {c}) \in Nat
    BY <2>2, FS_CardinalityType
  <2>4. QED
    BY <1>0, <2>1, <2>2, <2>3
<1>3. ASSUME ReadFile PROVE PostedOwed'
  BY <1>0, <1>3 DEF ReadFile, Container!Read, podVars
<1>4. ASSUME ContainerEnds PROVE PostedOwed'
  BY <1>4, FS_EmptySet DEF ContainerEnds, Container!End
<1>5. ASSUME UNCHANGED <<owed, posted>> PROVE PostedOwed'
  BY <1>5
<1>6. ASSUME Mount \/ Serve \/ UNCHANGED <<containerVars, posted>> \/ UNCHANGED allVars
      PROVE  PostedOwed'
  BY <1>5, <1>6 DEF Mount, Serve, Container!Export, Container!PublishHash, containerVars,
     podVars, allVars
<1>7. QED
  BY <1>1, <1>2, <1>3, <1>4, <1>6, ContainerStep

\* Every step of the pod is one of ExporterService or leaves its variables alone.
LEMMA ServiceStep ==
    ListsKnown /\ [PodNext]_allVars => [Container!Next]_(Container!vars)
<1> SUFFICES ASSUME ListsKnown, [PodNext]_allVars
             PROVE  Container!Next \/ UNCHANGED Container!vars
  OBVIOUS
<1>1. ASSUME NEW c \in Calls, RequestReload(c) \/ Reload(c) PROVE Container!Next
  BY <1>1 DEF RequestReload, Reload, Container!Next
<1>2. ASSUME Mount PROVE Container!Next
  BY <1>2 DEF Mount, ListsKnown, Container!Next, Container!Sync
<1>3. ASSUME ReadFile \/ Serve \/ ContainerEnds PROVE Container!Next
  BY <1>3 DEF ReadFile, Serve, ContainerEnds, Container!Next
<1>4. ASSUME UNCHANGED <<containerVars, posted>> \/ UNCHANGED allVars
      PROVE  UNCHANGED Container!vars
  BY <1>4 DEF containerVars, allVars, Container!vars
<1>5. QED
  BY <1>1, <1>2, <1>3, <1>4, ContainerStep

LEMMA ServiceTypes ==
    Container!TypeOK /\ [Container!Next]_(Container!vars) => Container!TypeOK'
<1> SUFFICES ASSUME Container!TypeOK, [Container!Next]_(Container!vars)
             PROVE  Container!TypeOK'
  OBVIOUS
<1> USE DEF Container!TypeOK
<1>1. ASSUME Container!Sync \/ Container!Accept \/ Container!Read PROVE Container!TypeOK'
  BY <1>1 DEF Container!Sync, Container!Accept, Container!Read
<1>2. ASSUME Container!Export \/ Container!PublishHash PROVE Container!TypeOK'
  BY <1>2 DEF Container!Export, Container!PublishHash
<1>3. ASSUME Container!Withdraw \/ Container!End PROVE Container!TypeOK'
  BY <1>3 DEF Container!Withdraw, Container!End
<1>4. CASE UNCHANGED Container!vars
  BY <1>4 DEF Container!vars
<1>5. QED
  BY <1>1, <1>2, <1>3, <1>4 DEF Container!Next

LEMMA HistoryTypesNext == HistoryTypes /\ [PodNext]_allVars => HistoryTypes'
<1> SUFFICES ASSUME HistoryTypes, [PodNext]_allVars PROVE HistoryTypes'
  OBVIOUS
<1>0. MaxFaults \in Nat
  BY PodAssumption
<1>1. ASSUME confirmed' \in {confirmed, TRUE, FALSE}, UNCHANGED faults PROVE HistoryTypes'
  BY <1>1 DEF HistoryTypes
<1>2. ASSUME UNCHANGED confirmed, faults < MaxFaults, faults' = faults + 1 PROVE HistoryTypes'
  BY <1>0, <1>2 DEF HistoryTypes
<1>3. ASSUME NEW c \in Calls, Advance(c) \/ Reload(c) PROVE HistoryTypes'
  BY <1>1, <1>3 DEF Advance, Local, WriteConfigMap, GetHash, AnswerOK, RequestReload,
     ReloadAnswered, NotServed, NotAnswered, Reload, podVars
<1>4. ASSUME \/ \E c \in Calls : RequestFails(c)
             \/ \E s \in Servers : ReloaderStops(s)
             \/ ContainerEnds
      PROVE  HistoryTypes'
  BY <1>2, <1>4 DEF RequestFails, ReloaderStops, ContainerEnds
<1>5. ASSUME Fetch \/ Mount \/ ReadFile \/ Serve \/ UNCHANGED allVars PROVE HistoryTypes'
  BY <1>1, <1>5 DEF Fetch, Mount, ReadFile, Serve, podVars, allVars
<1>6. QED
  BY <1>3, <1>4, <1>5 DEF PodNext

LEMMA PodNextInv == PodInv /\ [PodNext]_allVars => PodInv'
BY NextInv, ReloaderStep, ListsKnownNext, ServiceStep, ServiceTypes, PostedOwedNext,
   HistoryTypesNext DEF PodInv

LEMMA PodInvariance == PodSpec => []PodInv
BY PodInitInv, PodNextInv, PTL DEF PodSpec

(***************************************************************************)
(* The state of the pod has the types PodTypeOK lists: in particular, the  *)
(* container, the kubelet and the ConfigMap hold lists that the calls make *)
(* of the installed ones, and each reload under way is owed a read of the  *)
(* file that comes after its swap of the router.                           *)
(***************************************************************************)
THEOREM PodTypeCorrect == PodSpec => []PodTypeOK
<1>1. PodInv => PodTypeOK
  BY DEF PodInv, Inv, ListsKnown, PostedOwed, HistoryTypes, PodTypeOK
<1>2. QED
  BY <1>1, PodInvariance, PTL

(***************************************************************************)
(* The container of the pod is used as ExporterService allows, which       *)
(* MetricsExporter implements: the callers, the kubelet and the faults     *)
(* make it do nothing that the metrics-exporter does not do.               *)
(***************************************************************************)
THEOREM PodUsesExporterService == PodSpec => Container!Spec
<1>1. PodInit => Container!Init
  BY DEF PodInit
<1>2. PodInv /\ [PodNext]_allVars => [Container!Next]_(Container!vars)
  BY ServiceStep DEF PodInv
<1>3. QED
  BY <1>1, <1>2, PodInvariance, PTL DEF PodSpec, Container!Spec

-----------------------------------------------------------------------------
(***************************************************************************)
(* No tenant is both initialized and cleaned up.  Then a list shows how    *)
(* old it is: what calls have done to it is never undone, and a list that  *)
(* comes later shows the requests that earlier ones show, and others.      *)
(***************************************************************************)
OneWay ==
    \A c, d \in Calls : \A r \in Asks[c], q \in Asks[d] :
        r.tenant = q.tenant => r.action = q.action

\* Every request that was asked and that x agrees with, y agrees with too.
Shows(y, x) == \A c \in Calls : \A r \in Asks[c] : AlreadyDone(r, x) => AlreadyDone(r, y)

Older(x, y) == Shows(y, x) /\ (Shows(x, y) => x = y)

LEMMA OlderOrder ==
    /\ \A x : Older(x, x)
    /\ \A x, y : Older(x, y) /\ Older(y, x) => x = y
    /\ \A x, y, z : Older(x, y) /\ Older(y, z) => Older(x, z)
<1>1. \A x : Older(x, x)
  BY DEF Older, Shows
<1>2. \A x, y : Older(x, y) /\ Older(y, x) => x = y
  BY DEF Older
<1>3. \A x, y, z : Older(x, y) /\ Older(y, z) => Older(x, z)
  <2> SUFFICES ASSUME NEW x, NEW y, NEW z, Older(x, y), Older(y, z) PROVE Older(x, z)
    OBVIOUS
  <2>1. Shows(z, x)
    BY DEF Older, Shows
  <2>2. ASSUME Shows(x, z) PROVE x = z
    <3>1. Shows(y, z)
      BY <2>2 DEF Older, Shows
    <3>2. Shows(x, y)
      BY <2>2 DEF Older, Shows
    <3>3. QED
      BY <3>1, <3>2 DEF Older
  <2>3. QED
    BY <2>1, <2>2 DEF Older
<1>4. QED
  BY <1>1, <1>2, <1>3

\* A call that has something to do makes a list that is newer.
LEMMA ChangeIsNewer ==
    ASSUME OneWay, NEW c \in Calls, NEW r \in Asks[c], NEW org \in Orgs,
           ~ AlreadyDone(r, org)
    PROVE  Older(org, Change(r, org))
<1> DEFINE new == Change(r, org)
<1>1. r \in Accepted
  BY AskedAccepted
<1>2. AlreadyDone(r, new) /\ Members(new) = Registry!Effect(r, Members(org))
  BY <1>1, ChangeCorrect
<1> HIDE DEF new
<1>3. ASSUME NEW d \in Calls, NEW q \in Asks[d], AlreadyDone(q, org)
      PROVE  AlreadyDone(q, new)
  <2>1. q.tenant \in Tenants /\ r.tenant \in Tenants
    BY AskedAccepted, RequestTypes
  <2>2. CASE q.tenant = r.tenant
    <3>1. q.action = r.action
      BY <2>2 DEF OneWay
    <3>2. QED
      BY <3>1, <2>2, <1>2 DEF AlreadyDone
  <2>3. CASE q.tenant # r.tenant
    <3>1. q.tenant \in Members(new) <=> q.tenant \in Members(org)
      BY <1>2, <2>3 DEF Registry!Effect
    <3>2. Contains(new, q.tenant) <=> Contains(org, q.tenant)
      BY <3>1, <2>1 DEF Members
    <3>3. QED
      BY <3>2, <1>3 DEF AlreadyDone
  <2>4. QED
    BY <2>2, <2>3
<1>4. Shows(new, org)
  BY <1>3 DEF Shows
<1>5. ~ Shows(org, new)
  BY <1>2 DEF Shows
<1>6. QED
  BY <1>4, <1>5 DEF Older, new

-----------------------------------------------------------------------------
(***************************************************************************)
(* The lists on their way from the ConfigMap to the endpoints, each not    *)
(* newer than the one before it.                                           *)
(***************************************************************************)
Lagging ==
    /\ Older(fetched, configMap)
    /\ Older(mounted, fetched)
    /\ read # NoConfig => Older(read, mounted)
    /\ exported # NoConfig => read # NoConfig /\ Older(exported, read)
    /\ hash # NoConfig => read # NoConfig /\ Older(hash, read)
    /\ exported # NoConfig /\ hash # NoConfig => Older(hash, exported)

LEMMA LaggingInit == PodInit => Lagging
BY OlderOrder DEF PodInit, Container!Init, Lagging

LEMMA LaggingWrite ==
    ASSUME OneWay, Inv, OneWriterInv, ListsKnown, Lagging,
           NEW c \in Calls, WriteConfigMap(c)
    PROVE  Lagging'
<1>1. req[c] \in Asks[c] /\ configMap \in Orgs
  BY DEF WriteConfigMap, ApplyPatch, ListsKnown, Working, InLock, Inv, TypeOK
<1>2. ~ AlreadyDone(req[c], configMap) /\ configMap' = Change(req[c], configMap)
  BY DEF WriteConfigMap, ApplyPatch, OneWriterInv, SnapshotIsCurrent
<1>3. Older(configMap, configMap')
  BY <1>1, <1>2, ChangeIsNewer
<1>4. UNCHANGED <<fetched, mounted, read, exported, hash>>
  BY DEF WriteConfigMap, containerVars
<1>5. Older(fetched, configMap')
  BY <1>3, OlderOrder DEF Lagging
<1>6. QED
  BY <1>4, <1>5 DEF Lagging

LEMMA LaggingContainer ==
    ASSUME Lagging, ListsKnown, Container!TypeOK, UNCHANGED <<configMap, fetched>>,
           Mount \/ (Container!Next /\ UNCHANGED mounted)
    PROVE  Lagging'
<1> USE DEF Lagging
<1>0. mounted # NoConfig
  BY PodAssumption DEF Container!TypeOK
<1>1. CASE Mount
  BY <1>1, OlderOrder DEF Mount
<1>2. CASE Container!Read
  BY <1>0, <1>2, OlderOrder DEF Container!Read
<1>3. CASE Container!Export
  BY <1>3, OlderOrder DEF Container!Export
<1>4. CASE Container!PublishHash
  BY <1>4, OlderOrder DEF Container!PublishHash
<1>5. CASE Container!Withdraw \/ Container!End \/ Container!Accept \/ (Container!Sync /\ UNCHANGED mounted)
  BY <1>5 DEF Container!Withdraw, Container!End, Container!Accept, Container!Sync
<1>6. QED
  BY <1>1, <1>2, <1>3, <1>4, <1>5 DEF Container!Next

LEMMA LaggingNext ==
    OneWay /\ PodInv /\ OneWriterInv /\ Lagging /\ [PodNext]_allVars => Lagging'
<1> SUFFICES ASSUME OneWay, PodInv, OneWriterInv, Lagging, [PodNext]_allVars
             PROVE  Lagging'
  OBVIOUS
<1>1. ASSUME NEW c \in Calls, WriteConfigMap(c) PROVE Lagging'
  BY <1>1, LaggingWrite DEF PodInv
<1>2. CASE Fetch
  BY <1>2, OlderOrder DEF Fetch, Lagging, vars, containerVars
<1>3. ASSUME \/ \E c \in Calls : RequestReload(c) \/ Reload(c)
             \/ ReadFile \/ Serve \/ ContainerEnds
      PROVE  /\ Container!Next /\ UNCHANGED mounted
             /\ UNCHANGED <<configMap, fetched>>
  BY <1>3 DEF RequestReload, PostReload, Reload, ReadFile, Serve, ContainerEnds, Container!Next,
     Container!Accept, Container!Withdraw, Container!Read, Container!Export,
     Container!PublishHash, Container!End, vars, podVars
<1>4. ASSUME UNCHANGED <<configMap, fetched, containerVars>> PROVE Lagging'
  BY <1>4 DEF Lagging, containerVars
<1>5. ASSUME NEW c \in Calls,
             \/ Local(c) \/ GetHash(c) \/ AnswerOK(c) \/ ReloadAnswered(c)
             \/ NotServed(c) \/ NotAnswered(c) \/ RequestFails(c)
      PROVE  UNCHANGED <<configMap, fetched, containerVars>>
  BY <1>5 DEF Local, GetHash, AnswerOK, ReloadAnswered, NotServed, NotAnswered, RequestFails,
     podVars, Receive, Lock, GetConfigMap, PatchReturns, Mismatch, GetPod, UpdatePod, Finish,
     ReadHash, Confirm, ReloadReturns, Fail
<1>6. ASSUME NEW s \in Servers, ReloaderStops(s)
      PROVE  UNCHANGED <<configMap, fetched, containerVars>>
  BY <1>6 DEF ReloaderStops, Stop
<1>7. ASSUME Mount PROVE Lagging'
  BY <1>7, LaggingContainer DEF PodInv, Mount, vars, podVars
<1>8. ASSUME UNCHANGED allVars PROVE Lagging'
  BY <1>8, <1>4 DEF allVars, vars, podVars
<1>9. QED
  BY <1>1, <1>2, <1>3, <1>4, <1>5, <1>6, <1>7, <1>8, LaggingContainer
     DEF PodInv, PodNext, Advance

-----------------------------------------------------------------------------
(***************************************************************************)
(* When the hash is that of the ConfigMap, every list on the way is the    *)
(* list of the ConfigMap, and it stays so until a call changes that.       *)
(***************************************************************************)
Settled ==
    /\ fetched = configMap
    /\ mounted = configMap
    /\ {read, exported, hash} \subseteq {NoConfig, configMap}

Confirming(c) == pc[c] = "compare" /\ answer[c] = data[c]

ConfirmedSettled == confirmed \/ (\E c \in Calls : Confirming(c)) => Settled

LEMMA HashSettles ==
    ASSUME Lagging, hash # NoConfig, hash = configMap
    PROVE  Settled
<1>1. Older(configMap, read) /\ Older(read, mounted) /\ Older(mounted, fetched) /\ Older(fetched, configMap)
  BY DEF Lagging
<1>2. fetched = configMap /\ mounted = configMap /\ read = configMap
  BY <1>1, OlderOrder
<1>3. exported # NoConfig => Older(configMap, exported) /\ Older(exported, configMap)
  BY <1>2 DEF Lagging
<1>4. exported \in {NoConfig, configMap}
  BY <1>3, OlderOrder
<1>5. QED
  BY <1>2, <1>4 DEF Settled

LEMMA SettledStays ==
    ASSUME Settled, [PodNext]_allVars, UNCHANGED configMap
    PROVE  Settled'
<1> USE DEF Settled
<1>1. CASE Fetch \/ Mount
  BY <1>1 DEF Fetch, Mount
<1>2. ASSUME UNCHANGED fetched, Container!Next, UNCHANGED mounted PROVE Settled'
  BY <1>2 DEF Container!Next, Container!Sync, Container!Accept, Container!Read, Container!Export,
     Container!PublishHash, Container!Withdraw, Container!End
<1>3. ASSUME \/ \E c \in Calls : RequestReload(c) \/ Reload(c)
             \/ ReadFile \/ Serve \/ ContainerEnds
      PROVE  Container!Next /\ UNCHANGED <<mounted, fetched>>
  BY <1>3 DEF RequestReload, Reload, ReadFile, Serve, ContainerEnds, Container!Next,
     Container!Accept, Container!Withdraw, Container!Read, Container!Export,
     Container!PublishHash, Container!End, podVars
<1>4. ASSUME UNCHANGED <<fetched, containerVars>> PROVE Settled'
  BY <1>4 DEF containerVars
<1>5. ASSUME NEW c \in Calls,
             \/ Local(c) \/ WriteConfigMap(c) \/ GetHash(c) \/ AnswerOK(c) \/ ReloadAnswered(c)
             \/ NotServed(c) \/ NotAnswered(c) \/ RequestFails(c)
      PROVE  UNCHANGED <<fetched, containerVars>>
  BY <1>5 DEF Local, WriteConfigMap, GetHash, AnswerOK, ReloadAnswered, NotServed, NotAnswered,
     RequestFails, podVars
<1>6. ASSUME NEW s \in Servers, ReloaderStops(s) PROVE UNCHANGED <<fetched, containerVars>>
  BY <1>6 DEF ReloaderStops
<1>7. CASE UNCHANGED allVars
  BY <1>7, <1>4 DEF allVars, podVars
<1>8. QED
  BY <1>1, <1>2, <1>3, <1>4, <1>5, <1>6, <1>7 DEF PodNext, Advance

\* A call finds the hash it wants by reading it, or has found it already.
LEMMA ConfirmingNext ==
    ASSUME Inv, [PodNext]_allVars, NEW c \in Calls, Confirming(c)', ~ Confirming(c)
    PROVE  GetHash(c)
<1> USE DEF Inv, TypeOK, Confirming
<1>1. ASSUME NEW d \in Calls, GetHash(d) PROVE d = c
  BY <1>1 DEF GetHash, ReadHash, Goto
<1>2. ASSUME NEW d \in Calls, NEW label, label # "compare", Goto(d, label),
             UNCHANGED answer, \A e \in Calls : e # d => data'[e] = data[e]
      PROVE  FALSE
  BY <1>2 DEF Goto
<1>3. ASSUME NEW d \in Calls, Local(d) PROVE FALSE
  BY <1>2, <1>3 DEF Local, Receive, Lock, GetConfigMap, PatchReturns, Mismatch, GetPod,
     UpdatePod, Finish
<1>4. ASSUME NEW d \in Calls, WriteConfigMap(d) \/ RequestReload(d) PROVE FALSE
  BY <1>2, <1>4 DEF WriteConfigMap, ApplyPatch, RequestReload, PostReload
<1>5. ASSUME NEW d \in Calls, NEW code, code # "compare", Return(d, code) PROVE FALSE
  BY <1>5 DEF Return, Goto
<1>6. ASSUME NEW d \in Calls, Fail(d) PROVE FALSE
  BY <1>5, <1>6 DEF Fail, FailureCode
<1>7. ASSUME NEW d \in Calls,
             \/ AnswerOK(d) \/ ReloadAnswered(d)
             \/ NotServed(d) \/ NotAnswered(d) \/ RequestFails(d)
      PROVE  FALSE
  BY <1>5, <1>6, <1>7 DEF AnswerOK, Confirm, ReloadAnswered, ReloadReturns, NotServed,
     NotAnswered, RequestFails
<1>8. ASSUME NEW s \in Servers, ReloaderStops(s) PROVE FALSE
  BY <1>8 DEF ReloaderStops, Stop
<1>9. ASSUME UNCHANGED vars PROVE FALSE
  BY <1>9 DEF vars
<1>10. ASSUME \/ \E d \in Calls : Reload(d)
              \/ Fetch \/ Mount \/ ReadFile \/ Serve \/ ContainerEnds
              \/ UNCHANGED allVars
       PROVE  FALSE
  BY <1>9, <1>10 DEF Reload, Fetch, Mount, ReadFile, Serve, ContainerEnds, allVars
<1>11. QED
  BY <1>1, <1>3, <1>4, <1>7, <1>8, <1>10 DEF PodNext, Advance

\* Only an answer OK confirms.
LEMMA OnlyAnswerConfirms ==
    ASSUME [PodNext]_allVars, confirmed', ~ confirmed
    PROVE  \E c \in Calls : AnswerOK(c)
BY DEF PodNext, Advance, Local, WriteConfigMap, GetHash, RequestReload, ReloadAnswered, NotServed,
   NotAnswered, RequestFails, ReloaderStops, Reload, Fetch, Mount, ReadFile, Serve, ContainerEnds,
   allVars, podVars

LEMMA ConfirmedSettledNext ==
    OneWriter /\ PodInv /\ OneWriterInv /\ Lagging /\ ConfirmedSettled /\ [PodNext]_allVars
        => ConfirmedSettled'
<1> SUFFICES ASSUME OneWriter, PodInv, OneWriterInv, Lagging, ConfirmedSettled,
                    [PodNext]_allVars, confirmed' \/ \E c \in Calls : Confirming(c)'
             PROVE  Settled'
  BY DEF ConfirmedSettled
<1>1. CASE \E c \in Calls : WriteConfigMap(c)
  <2>1. PICK c \in Calls : WriteConfigMap(c)
    BY <1>1
  <2>2. pc[c] = "patch" /\ pc' = [pc EXCEPT ![c] = "patched"] /\ ~ confirmed'
    BY <2>1 DEF WriteConfigMap, ApplyPatch, Goto
  <2>3. PICK d \in Calls : Confirming(d)'
    BY <2>2
  <2>4. d # c /\ pc[d] = "compare"
    BY <2>2, <2>3 DEF Confirming, PodInv, Inv, TypeOK
  <2>5. QED
    BY <2>2, <2>4, Exclusion DEF PodInv, InLock
<1>2. CASE ~ \E c \in Calls : WriteConfigMap(c)
  <2>1. UNCHANGED configMap
    BY <1>2 DEF PodNext, Advance, Local, GetHash, AnswerOK, RequestReload, ReloadAnswered,
       NotServed, NotAnswered, RequestFails, ReloaderStops, Reload, Fetch, Mount, ReadFile, Serve,
       ContainerEnds, allVars, vars, Receive, Lock, GetConfigMap, PatchReturns, Mismatch, GetPod,
       UpdatePod, Finish, ReadHash, Confirm, PostReload, ReloadReturns, Fail, Stop
  <2>2. ASSUME NEW c \in Calls, Confirming(c)', ~ Confirming(c) PROVE Settled
    <3>1. GetHash(c)
      BY <2>2, ConfirmingNext DEF PodInv
    <3>2. answer'[c] = hash /\ data'[c] = data[c] /\ hash \in Hashes /\ pc[c] = "hash"
      BY <3>1 DEF GetHash, ReadHash, PodInv, Inv, TypeOK
    <3>3. data[c] = configMap
      BY <3>2 DEF OneWriterInv, SnapshotIsCurrent, InLock
    <3>4. hash = configMap /\ hash # NoConfig
      BY <2>2, <3>2, <3>3, PodAssumption DEF Confirming
    <3>5. QED
      BY <3>4, HashSettles
  <2>3. ASSUME confirmed', ~ confirmed PROVE Settled
    <3>1. PICK c \in Calls : AnswerOK(c)
      BY <2>3, OnlyAnswerConfirms
    <3>2. Confirming(c)
      BY <3>1 DEF AnswerOK, Confirm, Confirming
    <3>3. QED
      BY <3>2 DEF ConfirmedSettled
  <2>4. Settled
    BY <2>2, <2>3 DEF ConfirmedSettled
  <2>5. QED
    BY <2>1, <2>4, SettledStays
<1>3. QED
  BY <1>1, <1>2

LEMMA Settles ==
    ASSUME OneWriter, OneWay
    PROVE  PodSpec => [](Lagging /\ ConfirmedSettled)
<1>1. PodInit => Lagging /\ ConfirmedSettled
  BY LaggingInit DEF PodInit, Init, ConfirmedSettled, Confirming
<1>2. PodInv /\ OneWriterInv /\ Lagging /\ ConfirmedSettled /\ [PodNext]_allVars
         => Lagging' /\ ConfirmedSettled'
  BY LaggingNext, ConfirmedSettledNext
<1>3. QED
  BY <1>1, <1>2, PodInvariance, PodOneWriter, PTL DEF PodSpec

(***************************************************************************)
(* With one writer, and when no tenant is both initialized and cleaned up, *)
(* a tenant action that was answered OK stays in force, whatever is still  *)
(* under way between the ConfigMap, the kubelet and the container, and     *)
(* whatever fails or ends.                                                 *)
(***************************************************************************)
THEOREM ConfirmedCorrect ==
    ASSUME OneWriter, OneWay
    PROVE  PodSpec => []ConfirmedStaysInForce
<1>1. ConfirmedSettled => ConfirmedStaysInForce
  BY DEF ConfirmedSettled, Settled, ConfirmedStaysInForce
<1>2. QED
  BY <1>1, Settles, PTL

-----------------------------------------------------------------------------
(***************************************************************************)
(* After an answer OK the calls that are at work compare the ConfigMap's   *)
(* list with a hash that is the same.                                      *)
(***************************************************************************)
Reloading == {"getPod", "updatePod", "reload", "reloading"}

ConfirmedQuiet ==
    confirmed => \A c \in Calls : /\ pc[c] \notin Reloading
                                  /\ pc[c] = "compare" => answer[c] = data[c]

\* A call reloads, or is about to find a mismatch, only after one of two steps.
LEMMA DisturbingNext ==
    ASSUME Inv, [PodNext]_allVars, NEW c \in Calls,
           pc'[c] \in Reloading \/ (pc'[c] = "compare" /\ answer'[c] # data'[c]),
           ~ (pc[c] \in Reloading \/ (pc[c] = "compare" /\ answer[c] # data[c]))
    PROVE  GetHash(c)
<1> USE DEF Inv, TypeOK, Reloading
<1>1. ASSUME NEW d \in Calls, GetHash(d) PROVE d = c
  BY <1>1 DEF GetHash, ReadHash, Goto
<1>2. ASSUME NEW d \in Calls, NEW label, label \notin Reloading \cup {"compare"}, Goto(d, label),
             UNCHANGED answer, \A e \in Calls : e # d => data'[e] = data[e]
      PROVE  FALSE
  BY <1>2 DEF Goto
<1>3. ASSUME NEW d \in Calls, Mismatch(d) \/ GetPod(d) \/ UpdatePod(d) \/ PostReload(d)
      PROVE  FALSE
  BY <1>3 DEF Mismatch, GetPod, UpdatePod, PostReload, Goto
<1>4. ASSUME NEW d \in Calls, Local(d) PROVE FALSE
  BY <1>2, <1>3, <1>4 DEF Local, Receive, Lock, GetConfigMap, PatchReturns, Finish
<1>5. ASSUME NEW d \in Calls, WriteConfigMap(d) \/ RequestReload(d) PROVE FALSE
  BY <1>2, <1>3, <1>5 DEF WriteConfigMap, ApplyPatch, RequestReload
<1>6. ASSUME NEW d \in Calls, NEW code, code \notin Reloading \cup {"compare"}, Return(d, code)
      PROVE  FALSE
  BY <1>6 DEF Return, Goto
<1>7. ASSUME NEW d \in Calls, Fail(d) PROVE FALSE
  BY <1>6, <1>7 DEF Fail, FailureCode
<1>8. ASSUME NEW d \in Calls,
             \/ AnswerOK(d) \/ ReloadAnswered(d)
             \/ NotServed(d) \/ NotAnswered(d) \/ RequestFails(d)
      PROVE  FALSE
  BY <1>6, <1>7, <1>8 DEF AnswerOK, Confirm, ReloadAnswered, ReloadReturns, NotServed,
     NotAnswered, RequestFails
<1>9. ASSUME NEW s \in Servers, ReloaderStops(s) PROVE FALSE
  BY <1>9 DEF ReloaderStops, Stop
<1>10. ASSUME UNCHANGED vars PROVE FALSE
  BY <1>10 DEF vars
<1>11. ASSUME \/ \E d \in Calls : Reload(d)
              \/ Fetch \/ Mount \/ ReadFile \/ Serve \/ ContainerEnds
              \/ UNCHANGED allVars
       PROVE  FALSE
  BY <1>10, <1>11 DEF Reload, Fetch, Mount, ReadFile, Serve, ContainerEnds, allVars
<1>12. QED
  BY <1>1, <1>4, <1>5, <1>8, <1>9, <1>11 DEF PodNext, Advance

LEMMA ConfirmedQuietNext ==
    OneWriter /\ PodInv /\ OneWriterInv /\ ConfirmedSettled /\ ConfirmedQuiet /\ [PodNext]_allVars
        => ConfirmedQuiet'
<1> SUFFICES ASSUME OneWriter, PodInv, OneWriterInv, ConfirmedSettled, ConfirmedQuiet,
                    [PodNext]_allVars, confirmed', NEW c \in Calls,
                    pc'[c] \in Reloading \/ (pc'[c] = "compare" /\ answer'[c] # data'[c])
             PROVE  FALSE
  BY DEF ConfirmedQuiet
<1>1. CASE confirmed
  <2>1. GetHash(c)
    <3>1. ~ (pc[c] \in Reloading \/ (pc[c] = "compare" /\ answer[c] # data[c]))
      BY <1>1, Zenon DEF ConfirmedQuiet
    <3>2. QED
      BY <3>1, DisturbingNext DEF PodInv
  <2>2. answer'[c] = hash /\ data'[c] = data[c] /\ hash \in Hashes /\ pc[c] = "hash" /\ pc'[c] = "compare"
    BY <2>1 DEF GetHash, ReadHash, Goto, PodInv, Inv, TypeOK
  <2>3. data[c] = configMap
    BY <2>2 DEF OneWriterInv, SnapshotIsCurrent, InLock
  <2>4. hash = configMap
    BY <1>1, <2>2, PodAssumption DEF ConfirmedSettled, Settled
  <2>5. QED
    BY <2>2, <2>3, <2>4 DEF Reloading
<1>2. CASE ~ confirmed
  <2>1. PICK d \in Calls : AnswerOK(d)
    BY <1>2, OnlyAnswerConfirms
  <2>2. pc[d] = "compare" /\ pc' = [pc EXCEPT ![d] = "OK"]
    BY <2>1 DEF AnswerOK, Confirm, Return, Goto
  <2>3. d # c /\ pc[c] \in InLock
    BY <2>2 DEF PodInv, Inv, TypeOK, Reloading, InLock
  <2>4. QED
    BY <2>2, <2>3, Exclusion DEF PodInv, InLock
<1>3. QED
  BY <1>1, <1>2

(***************************************************************************)
(* Under the same hypotheses, calls that repeat what was answered OK leave *)
(* the container alone.                                                    *)
(***************************************************************************)
THEOREM RepeatsCorrect ==
    ASSUME OneWriter, OneWay
    PROVE  PodSpec => []RepeatsDisturbNothing
<1>1. PodInit => ConfirmedQuiet
  BY DEF PodInit, ConfirmedQuiet
<1>2. PodInv /\ OneWriterInv /\ ConfirmedSettled /\ ConfirmedQuiet /\ [PodNext]_allVars
         => ConfirmedQuiet'
  BY ConfirmedQuietNext
<1>3. ConfirmedQuiet => RepeatsDisturbNothing
  BY Zenon DEF ConfirmedQuiet, RepeatsDisturbNothing, Reloading
<1>4. QED
  BY <1>1, <1>2, <1>3, Settles, PodInvariance, PodOneWriter, PTL DEF PodSpec

-----------------------------------------------------------------------------
(***************************************************************************)
(* A tenant that is installed and never cleaned up.                        *)
(***************************************************************************)
Stays(t) ==
    /\ \A org \in InitialOrgs : Contains(org, t) /\ NamesValid(org)
    /\ \A c \in Calls : \A r \in Asks[c] : r.tenant = t => r.action = "initialize"

Sound(org, t) == Contains(org, t) /\ NamesValid(org)

ListsSound(t) ==
    /\ Sound(configMap, t)
    /\ \A c \in Calls : pc[c] = "patch" => Sound(data[c], t)

LEMMA ListsSoundNext ==
    ASSUME NEW t \in Tenants, Stays(t), PodInv, ListsSound(t), [PodNext]_allVars
    PROVE  ListsSound(t)'
<1> USE DEF PodInv, Inv, TypeOK
<1>1. ASSUME NEW c \in Calls, WriteConfigMap(c) PROVE ListsSound(t)'
  <2>1. Sound(data[c], t) /\ configMap' = data[c] /\ UNCHANGED data
    BY <1>1 DEF WriteConfigMap, ApplyPatch, ListsSound
  <2>2. \A d \in Calls : pc'[d] = "patch" => pc[d] = "patch"
    BY <1>1 DEF WriteConfigMap, ApplyPatch, Goto
  <2>3. Sound(configMap, t)' /\ \A d \in Calls : pc'[d] = "patch" => Sound(data[d], t)'
    BY <2>1, <2>2 DEF ListsSound, Sound, Contains, NamesValid
  <2>4. QED
    BY <2>1, <2>3 DEF ListsSound
<1>2. ASSUME NEW c \in Calls, GetConfigMap(c) PROVE ListsSound(t)'
  <2>1. req[c] \in Asks[c]
    BY <1>2 DEF GetConfigMap, ListsKnown, Working, InLock
  <2>2. Sound(Change(req[c], configMap), t)
    BY <2>1, AskedAccepted, ChangeKeepsNames DEF Stays, ListsSound, Sound
  <2>3. data'[c] = Change(req[c], configMap) /\ UNCHANGED configMap
    BY <1>2 DEF GetConfigMap
  <2>4. \A d \in Calls : d # c => pc'[d] = pc[d] /\ data'[d] = data[d]
    BY <1>2 DEF GetConfigMap, Goto
  <2>5. QED
    BY <2>2, <2>3, <2>4 DEF ListsSound, Sound, Contains, NamesValid
<1>3. ASSUME UNCHANGED configMap,
             \A d \in Calls : pc'[d] = "patch" => pc[d] = "patch" /\ data'[d] = data[d]
      PROVE  ListsSound(t)'
  BY <1>3 DEF ListsSound, Sound, Contains, NamesValid
<1>4. ASSUME NEW c \in Calls, NEW label, label # "patch", Goto(c, label), UNCHANGED configMap,
             \A d \in Calls : d # c => data'[d] = data[d]
      PROVE  ListsSound(t)'
  BY <1>3, <1>4 DEF Goto
<1>5. ASSUME NEW c \in Calls, Local(c) PROVE ListsSound(t)'
  BY <1>2, <1>4, <1>5 DEF Local, Receive, Lock, PatchReturns, Mismatch, GetPod, UpdatePod, Finish
<1>6. ASSUME NEW c \in Calls, GetHash(c) \/ RequestReload(c) PROVE ListsSound(t)'
  BY <1>4, <1>6 DEF GetHash, ReadHash, RequestReload, PostReload
<1>7. ASSUME NEW c \in Calls, NEW code, code # "patch", Return(c, code), UNCHANGED configMap
      PROVE  ListsSound(t)'
  BY <1>4, <1>7 DEF Return
<1>8. ASSUME NEW c \in Calls, Fail(c) PROVE ListsSound(t)'
  BY <1>7, <1>8 DEF Fail, FailureCode
<1>9. ASSUME NEW c \in Calls,
             \/ AnswerOK(c) \/ ReloadAnswered(c)
             \/ NotServed(c) \/ NotAnswered(c) \/ RequestFails(c)
      PROVE  ListsSound(t)'
  BY <1>7, <1>8, <1>9 DEF AnswerOK, Confirm, ReloadAnswered, ReloadReturns, NotServed,
     NotAnswered, RequestFails
<1>10. ASSUME NEW s \in Servers, ReloaderStops(s) PROVE ListsSound(t)'
  BY <1>3, <1>10 DEF ReloaderStops, Stop
<1>11. ASSUME UNCHANGED vars PROVE ListsSound(t)'
  BY <1>3, <1>11 DEF vars
<1>12. ASSUME \/ \E d \in Calls : Reload(d)
              \/ Fetch \/ Mount \/ ReadFile \/ Serve \/ ContainerEnds
              \/ UNCHANGED allVars
       PROVE  ListsSound(t)'
  BY <1>11, <1>12 DEF Reload, Fetch, Mount, ReadFile, Serve, ContainerEnds, allVars
<1>13. QED
  BY <1>1, <1>5, <1>6, <1>9, <1>10, <1>12 DEF PodNext, Advance

(***************************************************************************)
(* As long as one of the installed tenants is never cleaned up, the lists  *)
(* hold no name that validateTenantID refuses: an empty name comes from    *)
(* nothing but the removal of the last tenant.  Any number of servers may  *)
(* write.                                                                  *)
(***************************************************************************)
THEOREM NamesCorrect ==
    ASSUME NEW t \in Tenants, Stays(t)
    PROVE  PodSpec => []NamesAreValid
<1>1. PodInit => ListsSound(t)
  BY DEF PodInit, Init, ListsSound, Stays, Sound
<1>2. PodInv /\ ListsSound(t) /\ [PodNext]_allVars => ListsSound(t)'
  BY ListsSoundNext
<1>3. ListsSound(t) => NamesAreValid
  BY DEF ListsSound, Sound, NamesValid, NamesAreValid
<1>4. QED
  BY <1>1, <1>2, <1>3, PodInvariance, PTL DEF PodSpec
=============================================================================
