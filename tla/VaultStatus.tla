---------------------------- MODULE VaultStatus -----------------------------
(***************************************************************************)
(* The Vault collector of the metrics-exporter                             *)
(* (internal/metrics/vault_synth.go): a scrape visits the Vault instances  *)
(* one after the other, asks the Kubernetes API for the Pod and the Pod    *)
(* for its health, and answers with one status per instance and the        *)
(* figures of the visit.  The instances are sealed, unsealed, replaced and *)
(* elected while it does.                                                  *)
(***************************************************************************)
EXTENDS Naturals, Sequences, FiniteSets

CONSTANTS
    Pods,           \* names of Pods
    Lists,          \* lists that the arguments -vaultURI can give
    MaxChanges,     \* bound: changes of an instance's state
    MaxScrapes      \* bound: scrapes

ASSUME VaultAssumption ==
    /\ Lists \subseteq Seq(Pods)
    /\ MaxChanges \in Nat
    /\ MaxScrapes \in Nat

\* What GET /v1/sys/health tells; Mute is a Pod that answers with JSON that has
\* nothing of it, as an error does, Down one that does not answer with JSON, Gone one
\* that the API server does not know.
Healths == [initialized : BOOLEAN, sealed : BOOLEAN, standby : BOOLEAN]
Mute == [mute |-> TRUE]
Down == [down |-> TRUE]
Gone == [gone |-> TRUE]
States == Healths \cup {Mute, Down, Gone}

VARIABLES
    instances,  \* vaultPodsName
    health,     \* the state of each Pod
    changes,    \* changes of state so far
    seen,       \* the states each Pod has had since the scrape began
    visit,      \* position of the instance to visit, 0 outside of scrapes
    found,      \* the instance's Pod has been found
    up,         \* the figures
    samples,
    warnings,
    reported,   \* the status series: which Pod, which status
    clash,      \* the registry has refused a series
    answer,     \* status code of the last answer
    scrapes     \* scrapes so far

figures == <<up, samples, warnings>>
vars == <<instances, health, changes, seen, visit, found, figures, reported, clash,
          answer, scrapes>>

Statuses == {"unknown", "ready", "sealed", "standby"}

TypeOK ==
    /\ instances \in Lists
    /\ health \in [Pods -> States]
    /\ changes \in 0..MaxChanges
    /\ seen \in [Pods -> SUBSET States]
    /\ visit \in 0..(Len(instances) + 1)
    /\ found \in BOOLEAN
    /\ up \in BOOLEAN
    /\ samples \in 0..Len(instances) /\ warnings \in 0..Len(instances)
    /\ reported \in SUBSET (Pods \X Statuses)
    /\ clash \in BOOLEAN
    /\ answer \in {"none", "200", "500"}
    /\ scrapes \in 0..MaxScrapes

Init ==
    /\ instances \in Lists
    /\ health \in [Pods -> States]
    /\ changes = 0
    /\ seen = [p \in Pods |-> {}]
    /\ visit = 0
    /\ found = FALSE
    /\ up = FALSE
    /\ samples = 0
    /\ warnings = 0
    /\ reported = {}
    /\ clash = FALSE
    /\ answer = "none"
    /\ scrapes = 0

-----------------------------------------------------------------------------
\* For mutation: being ready is tested last.
StatusReadyLast(h) ==
    IF h.initialized THEN "ready"
    ELSE IF h.sealed THEN "sealed"
    ELSE IF h.standby THEN "standby" ELSE "unknown"

\* The tests of getVaultPodStatus, of which the last that holds decides.
StatusOf(h) ==
    IF h.sealed THEN "sealed"
    ELSE IF h.initialized THEN "ready"
    ELSE IF h.standby THEN "standby" ELSE "unknown"

\* What Unmarshal makes of a JSON answer, whatever its HTTP status: a field that is
\* not in it stays FALSE.
Told(h) ==
    IF h = Mute THEN [initialized |-> FALSE, sealed |-> FALSE, standby |-> FALSE] ELSE h

\* For mutation: the collector keeps its figures from scrape to scrape.
ScrapeKeepsFigures ==
    /\ visit = 0
    /\ scrapes < MaxScrapes
    /\ scrapes' = scrapes + 1
    /\ visit' = 1
    /\ found' = FALSE
    /\ up' = (instances # <<>>)
    /\ reported' = {}
    /\ clash' = FALSE
    /\ seen' = [p \in Pods |-> {health[p]}]
    /\ UNCHANGED <<instances, health, changes, samples, warnings, answer>>

\* For mutation: the collector keeps its series from scrape to scrape.
ScrapeKeepsSeries ==
    /\ visit = 0
    /\ scrapes < MaxScrapes
    /\ scrapes' = scrapes + 1
    /\ visit' = 1
    /\ found' = FALSE
    /\ up' = (instances # <<>>)
    /\ samples' = 0
    /\ warnings' = 0
    /\ clash' = FALSE
    /\ seen' = [p \in Pods |-> {health[p]}]
    /\ UNCHANGED <<instances, health, changes, reported, answer>>

Scrape ==
    /\ visit = 0
    /\ scrapes < MaxScrapes
    /\ scrapes' = scrapes + 1
    /\ visit' = 1
    /\ found' = FALSE
    /\ up' = (instances # <<>>)
    /\ samples' = 0
    /\ warnings' = 0
    /\ reported' = {}
    /\ clash' = FALSE
    /\ seen' = [p \in Pods |-> {health[p]}]
    /\ UNCHANGED <<instances, health, changes, answer>>

Visiting == visit \in 1..Len(instances)
Pod == instances[visit]

\* For mutation: an instance that cannot be asked is skipped.
SkipInstance ==
    /\ visit' = visit + 1
    /\ found' = FALSE
    /\ warnings' = warnings + 1
    /\ UNCHANGED <<up, samples, reported, clash>>

\* A warning is counted, and the next instance is visited.
Warn ==
    /\ visit' = visit + 1
    /\ found' = FALSE
    /\ up' = FALSE
    /\ warnings' = warnings + 1
    /\ UNCHANGED <<samples, reported, clash>>

\* The API server is asked for the Pod; it may fail to answer.
FindPod ==
    /\ Visiting
    /\ ~ found
    /\ \/ /\ health[Pod] # Gone
          /\ found' = TRUE
          /\ UNCHANGED <<visit, figures, reported, clash>>
       \/ Warn
    /\ UNCHANGED <<instances, health, changes, seen, answer, scrapes>>

\* For mutation: a health that cannot be read is the status zero, ready.
ReadHealthLenient ==
    /\ Visiting
    /\ found
    /\ LET status == IF health[Pod] \in Healths THEN StatusOf(health[Pod]) ELSE "ready"
       IN  /\ reported' = reported \cup {<<Pod, status>>}
           /\ clash' = (clash \/ \E s \in Statuses : <<Pod, s>> \in reported)
    /\ visit' = visit + 1
    /\ found' = FALSE
    /\ samples' = samples + 1
    /\ UNCHANGED <<up, warnings, instances, health, changes, seen, answer, scrapes>>

\* The Pod answers with JSON, and the status it tells becomes a series, which the
\* registry refuses if the Pod has one: labels count, values do not.
ReadHealth ==
    /\ Visiting
    /\ found
    /\ health[Pod] \in Healths \cup {Mute}
    /\ reported' = reported \cup {<<Pod, StatusOf(Told(health[Pod]))>>}
    /\ clash' = (clash \/ \E s \in Statuses : <<Pod, s>> \in reported)
    /\ visit' = visit + 1
    /\ found' = FALSE
    /\ samples' = samples + 1
    /\ UNCHANGED <<up, warnings, instances, health, changes, seen, answer, scrapes>>

\* The request fails, as it does when the Pod has been replaced under another
\* address, or the answer is not JSON or has fields of other types.
HealthFails ==
    /\ Visiting
    /\ found
    /\ Warn
    /\ UNCHANGED <<instances, health, changes, seen, answer, scrapes>>

\* The figures follow, and the endpoint answers.
Answer ==
    /\ visit = Len(instances) + 1
    /\ visit' = 0
    /\ answer' = IF clash THEN "500" ELSE "200"
    /\ UNCHANGED <<instances, health, changes, seen, found, figures, reported, clash, scrapes>>

\* An instance is initialized, sealed, unsealed, elected, stopped or replaced.
Change(p) ==
    /\ changes < MaxChanges
    /\ changes' = changes + 1
    /\ \E h \in States \ {health[p]} :
          /\ health' = [health EXCEPT ![p] = h]
          /\ seen' = IF visit = 0 THEN seen ELSE [seen EXCEPT ![p] = @ \cup {h}]
    /\ UNCHANGED <<instances, visit, found, figures, reported, clash, answer, scrapes>>

Collect == FindPod \/ ReadHealth \/ HealthFails \/ Answer

Next == Scrape \/ Collect \/ \E p \in Pods : Change(p)

Spec == Init /\ [][Next]_vars

-----------------------------------------------------------------------------
Answered == visit = 0 /\ scrapes > 0

(***************************************************************************)
(* The figures and the series of an answer agree: every instance visited   *)
(* is a sample or a warning, up is 1 just when there are instances and no  *)
(* warning, and then each of them has its status (vault_synth.go:129-162), *)
(* be it "unknown": what an answer without a health leaves up at 1.        *)
(***************************************************************************)
FiguresMatchStatuses ==
    Answered =>
        /\ samples + warnings = Len(instances)
        /\ answer = "200" => samples = Cardinality(reported)
        /\ up <=> instances # <<>> /\ warnings = 0
        /\ up => \A i \in 1..Len(instances) :
                    \E s \in Statuses : <<instances[i], s>> \in reported

(***************************************************************************)
(* Each status that is reported is that of a health that the instance had  *)
(* during the scrape, or "unknown" for one that answered without a health, *)
(* as the HTTP status is not looked at (vault_synth.go:174-203); one that  *)
(* gave no JSON all through it has none.                                   *)
(***************************************************************************)
StatusesAreTrue ==
    Answered =>
        \A p \in Pods, s \in Statuses :
            <<p, s>> \in reported =>
                \/ \E h \in seen[p] \cap Healths : StatusOf(h) = s
                \/ s = "unknown" /\ Mute \in seen[p]

(***************************************************************************)
(* An instance sealed all through the scrape is never taken for ready or   *)
(* standby, whatever else its health says.                                 *)
(***************************************************************************)
SealedIsNotReady ==
    Answered =>
        \A p \in Pods :
            (\A h \in seen[p] : h \in Healths /\ h.sealed)
                => \A s \in Statuses \ {"sealed"} : <<p, s>> \notin reported

(***************************************************************************)
(* The scrape is refused only if an instance is listed twice.              *)
(***************************************************************************)
RefusedForTwinsOnly ==
    (Answered /\ answer = "500")
        => \E i, j \in 1..Len(instances) : i # j /\ instances[i] = instances[j]
=============================================================================
