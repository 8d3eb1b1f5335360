------------------------- MODULE VaultStatus_proofs --------------------------
(***************************************************************************)
(* Proofs about VaultStatus, for any instances, any lists of them and any  *)
(* changes of their health.                                                *)
(***************************************************************************)
EXTENDS VaultStatus, FiniteSetTheorems, TLAPS

\* The instances whose visit is over.
Visited == IF visit > 0 THEN visit - 1 ELSE IF scrapes > 0 THEN Len(instances) ELSE 0

(***************************************************************************)
(* What holds at every moment of a scrape of the instances visited so far, *)
(* and of all instances when it is over.                                   *)
(***************************************************************************)
Typed ==
    /\ instances \in Lists
    /\ health \in [Pods -> States]
    /\ changes \in 0..MaxChanges
    /\ seen \in [Pods -> SUBSET States]
    /\ visit \in 0..(Len(instances) + 1)
    /\ found \in BOOLEAN
    /\ up \in BOOLEAN /\ samples \in Nat /\ warnings \in Nat
    /\ reported \in SUBSET (Pods \X Statuses)
    /\ clash \in BOOLEAN
    /\ answer \in {"none", "200", "500"}
    /\ scrapes \in 0..MaxScrapes /\ (visit > 0 => scrapes > 0)

\* Every visit is a sample or a warning.
Counted == samples + warnings = Visited

\* There is at least one instance, none of whose visits has failed.
UpTells == scrapes > 0 => (up <=> instances # <<>> /\ warnings = 0)

\* Without a warning, every instance visited has its status.
AllReported ==
    warnings = 0 => \A i \in 1..Visited : \E s \in Statuses : <<instances[i], s>> \in reported

\* Statuses are those of instances visited.
OnlyVisited ==
    \A p \in Pods, s \in Statuses :
        <<p, s>> \in reported => \E i \in 1..Visited : instances[i] = p

\* Every sample is a series of its own, unless the registry has refused one.
SeriesCounted ==
    /\ IsFiniteSet(reported)
    /\ ~ clash => samples = Cardinality(reported)

\* The registry refuses a second series of one instance, and the answer tells it.
ClashTells ==
    /\ clash => \E i, j \in 1..Len(instances) : i # j /\ instances[i] = instances[j]
    /\ visit = 0 /\ scrapes > 0 => answer = IF clash THEN "500" ELSE "200"

\* Each status is one that its instance gave since the scrape began.
SeenIsCurrent == visit > 0 => \A p \in Pods : health[p] \in seen[p]

Gave(p, s) == \/ \E h \in seen[p] \cap Healths : StatusOf(h) = s
              \/ s = "unknown" /\ Mute \in seen[p]

ReportedTrue ==
    \A p \in Pods, s \in Statuses : <<p, s>> \in reported => Gave(p, s)

Inv ==
    /\ Typed
    /\ Counted
    /\ UpTells
    /\ AllReported
    /\ OnlyVisited
    /\ SeriesCounted
    /\ ClashTells
    /\ SeenIsCurrent
    /\ ReportedTrue

-----------------------------------------------------------------------------
LEMMA ListsAreSequences == Typed => instances \in Seq(Pods) /\ Len(instances) \in Nat
BY VaultAssumption DEF Typed

LEMMA InitInv == Init => Inv
<1> SUFFICES ASSUME Init PROVE Inv
    OBVIOUS
<1>1. instances \in Seq(Pods) /\ Len(instances) \in Nat
  BY VaultAssumption DEF Init
<1>2. IsFiniteSet(reported) /\ Cardinality(reported) = 0
  BY FS_EmptySet DEF Init
<1> QED
  <2>1. Typed
    <3>1. seen \in [Pods -> SUBSET States] /\ reported \in SUBSET (Pods \X Statuses)
      BY DEF Init
    <3>2. /\ visit \in 0..(Len(instances) + 1)
          /\ changes \in 0..MaxChanges /\ scrapes \in 0..MaxScrapes
      BY <1>1, VaultAssumption DEF Init
    <3>3. /\ instances \in Lists /\ health \in [Pods -> States]
          /\ found \in BOOLEAN /\ up \in BOOLEAN /\ clash \in BOOLEAN
          /\ answer \in {"none", "200", "500"}
      BY DEF Init
    <3>4. samples \in Nat /\ warnings \in Nat /\ (visit > 0 => scrapes > 0)
      BY DEF Init
    <3> QED
      BY <3>1, <3>2, <3>3, <3>4 DEF Typed
  <2>2. Visited = 0
    BY DEF Init, Visited
  <2>3. /\ Counted /\ UpTells /\ AllReported /\ OnlyVisited
        /\ ClashTells /\ SeenIsCurrent /\ ReportedTrue
    BY <2>2 DEF Init, Counted, UpTells, AllReported, OnlyVisited, ClashTells, SeenIsCurrent,
                ReportedTrue
  <2>4. SeriesCounted
    BY <1>2 DEF Init, SeriesCounted
  <2> QED
    BY <2>1, <2>3, <2>4 DEF Inv

LEMMA ScrapeKeeps == ASSUME Inv, Scrape PROVE Inv'
<1>1. instances \in Seq(Pods) /\ Len(instances) \in Nat
  BY ListsAreSequences DEF Inv
<1>2. reported' = {} /\ IsFiniteSet(reported') /\ Cardinality(reported') = 0
  BY FS_EmptySet DEF Scrape
<1>3. Visited' = 0 /\ scrapes' > 0
  BY VaultAssumption DEF Inv, Typed, Scrape, Visited
<1>4. Typed'
  <2>1. seen' \in [Pods -> SUBSET States]
    BY DEF Inv, Typed, Scrape
  <2>2. scrapes' \in 0..MaxScrapes /\ scrapes' > 0 /\ visit' \in 0..(Len(instances') + 1)
    BY <1>1, <1>3, VaultAssumption DEF Inv, Typed, Scrape
  <2>3. up' \in BOOLEAN
    BY DEF Scrape
  <2> QED
    BY <2>1, <2>2, <2>3 DEF Inv, Typed, Scrape
<1>5. Counted' /\ UpTells' /\ AllReported' /\ OnlyVisited' /\ ReportedTrue'
  <2>1. Counted'
    BY <1>3 DEF Scrape, Counted
  <2>2. AllReported'
    BY <1>3 DEF AllReported
  <2>3. UpTells'
    <3>1. instances' = instances /\ warnings' = 0 /\ up' = (instances # <<>>)
      BY DEF Scrape
    <3> QED
      BY <3>1, Zenon DEF UpTells
  <2> QED
    BY <1>2, <2>1, <2>2, <2>3 DEF OnlyVisited, ReportedTrue
<1>7. SeriesCounted'
  BY <1>2 DEF Scrape, SeriesCounted
<1>6. ClashTells' /\ SeenIsCurrent'
  BY <1>1 DEF Inv, Typed, Scrape, ClashTells, SeenIsCurrent
<1> QED
  BY <1>4, <1>5, <1>7, <1>6 DEF Inv

\* The next instance, and the visit after a visit.
LEMMA NextVisit ==
    ASSUME Inv, Visiting
    PROVE  /\ visit \in 1..Len(instances) /\ Visited = visit - 1
           /\ Pod \in Pods /\ Pod = instances[visit] /\ instances # <<>>
           /\ Len(instances) \in Nat /\ instances \in Seq(Pods)
BY ListsAreSequences DEF Inv, Typed, Visiting, Visited, Pod

LEMMA WarnKeeps ==
    ASSUME Inv, Visiting, Warn, UNCHANGED <<instances, health, changes, seen, answer, scrapes>>
    PROVE  Inv'
<1>0. /\ visit \in 1..Len(instances) /\ Visited = visit - 1
      /\ instances # <<>> /\ Len(instances) \in Nat
  BY NextVisit
<1>1. Visited' = visit
  BY <1>0 DEF Warn, Visited, Inv, Typed
<1>2. Typed'
  <2>1. visit' \in 0..(Len(instances') + 1) /\ warnings' \in Nat /\ scrapes' > 0
    BY <1>0 DEF Inv, Typed, Warn
  <2> QED
    BY <2>1 DEF Inv, Typed, Warn
<1>3. Counted' /\ UpTells' /\ AllReported'
  BY <1>0, <1>1 DEF Inv, Typed, Counted, UpTells, AllReported, Warn
<1>4. OnlyVisited'
  BY <1>0, <1>1 DEF Inv, OnlyVisited, Warn
<1>5. SeriesCounted' /\ ClashTells' /\ SeenIsCurrent' /\ ReportedTrue'
  BY <1>0 DEF Inv, SeriesCounted, ClashTells, SeenIsCurrent, ReportedTrue,
                    Gave, Warn
<1> QED
  BY <1>2, <1>3, <1>4, <1>5 DEF Inv

LEMMA StatusTyped == \A h \in Healths \cup {Mute} : StatusOf(Told(h)) \in Statuses
BY DEF Healths, StatusOf, Told, Statuses

\* What a state tells is what it gives.
LEMMA ToldIsTrue ==
    /\ Told(Mute) \in Healths /\ StatusOf(Told(Mute)) = "unknown"
    /\ \A h \in Healths : h # Mute => Told(h) = h
BY DEF Healths, StatusOf, Told

LEMMA ReadHealthKeeps == ASSUME Inv, ReadHealth PROVE Inv'
<1>0. /\ visit \in 1..Len(instances) /\ Visited = visit - 1
      /\ Pod \in Pods /\ Pod = instances[visit]
      /\ instances # <<>> /\ Len(instances) \in Nat
  BY NextVisit DEF ReadHealth
<1> DEFINE new == <<Pod, StatusOf(Told(health[Pod]))>>
<1>1. /\ Visited' = visit /\ visit' = visit + 1
      /\ samples' = samples + 1 /\ warnings' = warnings /\ up' = up
      /\ reported' = reported \cup {new}
      /\ instances' = instances /\ scrapes' = scrapes /\ seen' = seen /\ health' = health
  BY <1>0 DEF ReadHealth, Visited, Inv, Typed
<1>2. /\ StatusOf(Told(health[Pod])) \in Statuses
      /\ health[Pod] \in Healths \cup {Mute} /\ new \in Pods \X Statuses
  BY <1>0, StatusTyped DEF ReadHealth
<1>3. Typed'
  <2>1. visit' \in 0..(Len(instances') + 1) /\ samples' \in Nat /\ scrapes' > 0
    BY <1>0, <1>1 DEF Inv, Typed
  <2>2. clash' \in BOOLEAN
    BY DEF ReadHealth, Inv, Typed
  <2> QED
    BY <1>1, <1>2, <2>1, <2>2 DEF Inv, Typed, ReadHealth
<1>4. Counted' /\ UpTells'
  BY <1>0, <1>1 DEF Inv, Typed, Counted, UpTells
<1>5. AllReported'
  <2> SUFFICES ASSUME warnings = 0, NEW i \in 1..visit
               PROVE  \E s \in Statuses : <<instances[i], s>> \in reported'
      BY <1>1 DEF AllReported
  <2>1. CASE i = visit
    BY <2>1, <1>0, <1>1, <1>2
  <2>2. CASE i \in 1..Visited
    BY <2>2, <1>1 DEF Inv, AllReported
  <2> QED
    BY <2>1, <2>2, <1>0
<1>6. OnlyVisited'
  <2> SUFFICES ASSUME NEW p \in Pods, NEW s \in Statuses, <<p, s>> \in reported'
               PROVE  \E i \in 1..visit : instances[i] = p
      BY <1>1 DEF OnlyVisited
  <2>1. CASE <<p, s>> = new
    BY <2>1, <1>0
  <2>2. CASE <<p, s>> \in reported
    BY <2>2, <1>0 DEF Inv, OnlyVisited
  <2> QED
    BY <2>1, <2>2, <1>1
<1>7. SeriesCounted'
  <2>1. /\ IsFiniteSet(reported')
        /\ new \notin reported => Cardinality(reported') = Cardinality(reported) + 1
    BY <1>1, FS_AddElement DEF Inv, SeriesCounted
  <2>2. ~ clash' => ~ clash /\ new \notin reported
    BY <1>2 DEF ReadHealth
  <2> QED
    BY <2>1, <2>2, <1>1 DEF Inv, SeriesCounted
<1>8. ClashTells'
  <2>1. clash' => \E i, j \in 1..Len(instances) : i # j /\ instances[i] = instances[j]
    <3>1. CASE clash
      BY <3>1 DEF Inv, ClashTells
    <3>2. ASSUME NEW s \in Statuses, <<Pod, s>> \in reported
          PROVE  \E i, j \in 1..Len(instances) : i # j /\ instances[i] = instances[j]
      <4>1. PICK i \in 1..Visited : instances[i] = Pod
        BY <3>2, <1>0 DEF Inv, OnlyVisited
      <4> QED
        BY <4>1, <1>0
    <3> QED
      BY <3>1, <3>2 DEF ReadHealth
  <2> QED
    BY <2>1, <1>0, <1>1 DEF ClashTells
<1>9. SeenIsCurrent'
  BY <1>0, <1>1 DEF Inv, SeenIsCurrent
<1>10. ReportedTrue'
  <2> SUFFICES ASSUME NEW p \in Pods, NEW s \in Statuses, <<p, s>> \in reported'
               PROVE  Gave(p, s)
      BY <1>1 DEF ReportedTrue, Gave
  <2>1. CASE <<p, s>> = new
    <3>1. health[Pod] \in seen[Pod]
      BY <1>0 DEF Inv, SeenIsCurrent
    <3>2. p = Pod /\ s = StatusOf(Told(health[Pod]))
      BY <2>1
    <3>3. CASE health[Pod] = Mute
      BY <3>1, <3>2, <3>3, ToldIsTrue DEF Gave
    <3>4. CASE health[Pod] # Mute
      BY <1>2, <3>1, <3>2, <3>4, ToldIsTrue DEF Gave
    <3> QED
      BY <3>3, <3>4
  <2>2. CASE <<p, s>> \in reported
    BY <2>2 DEF Inv, ReportedTrue
  <2> QED
    BY <2>1, <2>2, <1>1
<1> QED
  BY <1>3, <1>4, <1>5, <1>6, <1>7, <1>8, <1>9, <1>10 DEF Inv

LEMMA AnswerKeeps == ASSUME Inv, Answer PROVE Inv'
<1>0. Len(instances) \in Nat
  BY ListsAreSequences DEF Inv
<1>1. Visited' = Visited
  BY <1>0 DEF Inv, Typed, Answer, Visited
<1>2. /\ visit' = 0 /\ answer' = IF clash THEN "500" ELSE "200"
      /\ UNCHANGED <<instances, health, changes, seen, found, up, samples, warnings,
                     reported, clash, scrapes>>
  BY DEF Answer, figures
<1>3. Typed'
  <2>1. visit' \in 0..(Len(instances') + 1) /\ ~ (visit' > 0)
    BY <1>0, <1>2
  <2>2. answer' \in {"none", "200", "500"}
    BY <1>2
  <2> QED
    BY <1>2, <2>1, <2>2 DEF Inv, Typed
<1>4. Counted' /\ UpTells' /\ AllReported' /\ OnlyVisited'
  BY <1>1, <1>2 DEF Inv, Counted, UpTells, AllReported, OnlyVisited
<1>5. SeriesCounted' /\ ClashTells' /\ SeenIsCurrent' /\ ReportedTrue'
  BY <1>2 DEF Inv, SeriesCounted, ClashTells, SeenIsCurrent, ReportedTrue, Gave
<1> QED
  BY <1>3, <1>4, <1>5 DEF Inv

LEMMA ChangeKeeps == ASSUME Inv, NEW p \in Pods, Change(p) PROVE Inv'
<1>0. Len(instances) \in Nat
  BY ListsAreSequences DEF Inv
<1>1. PICK h \in States \ {health[p]} :
          /\ health' = [health EXCEPT ![p] = h]
          /\ seen' = IF visit = 0 THEN seen ELSE [seen EXCEPT ![p] = @ \cup {h}]
  BY DEF Change
<1>2. UNCHANGED <<instances, visit, found, figures, reported, clash, answer, scrapes>>
  BY DEF Change
<1>3. Typed'
  BY <1>1, <1>2, VaultAssumption DEF Inv, Typed, Change, figures
<1>4. Visited' = Visited
  BY <1>2 DEF Visited
<1>5. Counted' /\ UpTells' /\ AllReported' /\ OnlyVisited' /\ SeriesCounted' /\ ClashTells'
  BY <1>2, <1>4 DEF Inv, Counted, UpTells, AllReported, OnlyVisited, SeriesCounted,
                    ClashTells, figures
<1>6. SeenIsCurrent'
  BY <1>1, <1>2 DEF Inv, Typed, SeenIsCurrent
<1>7. ReportedTrue'
  <2>1. \A q \in Pods : seen[q] \subseteq seen'[q]
    BY <1>1 DEF Inv, Typed
  <2> QED
    BY <2>1, <1>2 DEF Inv, ReportedTrue, Gave
<1> QED
  BY <1>3, <1>5, <1>6, <1>7 DEF Inv

LEMMA Induction == Inv /\ [Next]_vars => Inv'
<1> SUFFICES ASSUME Inv, [Next]_vars PROVE Inv'
    OBVIOUS
<1>1. CASE Scrape
  BY <1>1, ScrapeKeeps
<1>2. CASE FindPod
  <2>1. CASE Warn
    BY <1>2, <2>1, WarnKeeps DEF FindPod
  <2>2. CASE UNCHANGED <<visit, figures, reported, clash>> /\ found' = TRUE
    BY <1>2, <2>2
       DEF FindPod, Inv, Typed, Counted, UpTells, AllReported, OnlyVisited, SeriesCounted,
           ClashTells, SeenIsCurrent, ReportedTrue, Gave, Visited, figures
  <2> QED
    BY <1>2, <2>1, <2>2 DEF FindPod
<1>3. CASE ReadHealth
  BY <1>3, ReadHealthKeeps
<1>4. CASE HealthFails
  BY <1>4, WarnKeeps DEF HealthFails
<1>5. CASE Answer
  BY <1>5, AnswerKeeps
<1>6. ASSUME NEW p \in Pods, Change(p) PROVE Inv'
  BY <1>6, ChangeKeeps
<1>7. CASE UNCHANGED vars
  BY <1>7 DEF vars, Inv, Typed, Counted, UpTells, AllReported, OnlyVisited, SeriesCounted,
              ClashTells, SeenIsCurrent, ReportedTrue, Gave, Visited, figures
<1> QED
  BY <1>1, <1>2, <1>3, <1>4, <1>5, <1>6, <1>7 DEF Next, Collect

LEMMA SpecInv == Spec => []Inv
BY InitInv, Induction, PTL DEF Spec

-----------------------------------------------------------------------------
(***************************************************************************)
(* The type invariant, with figures that never exceed the instances.       *)
(***************************************************************************)
THEOREM TypeCorrect == Spec => []TypeOK
<1>1. Inv => TypeOK
  BY ListsAreSequences DEF Inv, Typed, Counted, Visited, TypeOK
<1> QED
  BY <1>1, SpecInv, PTL

(***************************************************************************)
(* The figures of an answer agree with its statuses.                       *)
(***************************************************************************)
THEOREM FiguresCorrect == Spec => []FiguresMatchStatuses
<1>1. Inv => FiguresMatchStatuses
  <2> SUFFICES ASSUME Inv, visit = 0, scrapes > 0
               PROVE  /\ samples + warnings = Len(instances)
                      /\ answer = "200" => samples = Cardinality(reported)
                      /\ up <=> instances # <<>> /\ warnings = 0
                      /\ up => \A i \in 1..Len(instances) :
                                  \E s \in Statuses : <<instances[i], s>> \in reported
      BY DEF FiguresMatchStatuses, Answered
  <2>1. Visited = Len(instances)
    BY DEF Visited
  <2>2. samples + warnings = Len(instances)
    BY <2>1 DEF Inv, Counted
  <2>3. answer = "200" => samples = Cardinality(reported)
    BY DEF Inv, ClashTells, SeriesCounted
  <2> QED
    BY <2>1, <2>2, <2>3 DEF Inv, UpTells, AllReported
<1> QED
  BY <1>1, SpecInv, PTL

(***************************************************************************)
(* A status that is reported is one that the instance had during the       *)
(* scrape, or "unknown" if it answered without a health                    *)
(* (vault_synth.go:174-203).                                               *)
(***************************************************************************)
THEOREM StatusesCorrect == Spec => []StatusesAreTrue
<1>1. Inv => StatusesAreTrue
  BY DEF Inv, ReportedTrue, Gave, StatusesAreTrue
<1> QED
  BY <1>1, SpecInv, PTL

(***************************************************************************)
(* An instance that was sealed throughout the scrape is not reported as    *)
(* ready or standby (vault_synth.go:199).                                  *)
(***************************************************************************)
THEOREM SealedCorrect == Spec => []SealedIsNotReady
<1>1. Inv => SealedIsNotReady
  <2> SUFFICES ASSUME Inv, NEW p \in Pods, NEW s \in Statuses \ {"sealed"},
                      \A h \in seen[p] : h \in Healths /\ h.sealed, <<p, s>> \in reported
               PROVE  FALSE
    BY DEF SealedIsNotReady
  <2>1. Gave(p, s)
    BY DEF Inv, ReportedTrue
  <2>2. Mute \notin Healths
    BY DEF Mute, Healths
  <2> QED
    BY <2>1, <2>2 DEF Gave, StatusOf
<1> QED
  BY <1>1, SpecInv, PTL

(***************************************************************************)
(* A scrape is refused only if an instance is listed twice.                *)
(***************************************************************************)
THEOREM RefusalCorrect == Spec => []RefusedForTwinsOnly
<1>1. Inv => RefusedForTwinsOnly
  BY DEF Inv, ClashTells, RefusedForTwinsOnly, Answered
<1> QED
  BY <1>1, SpecInv, PTL
=============================================================================
