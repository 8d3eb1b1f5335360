----------------------- MODULE ConfigReloader_proofs ------------------------
(***************************************************************************)
(* Theorems of TenantList and ConfigReloader, for lists of any length, any *)
(* number of servers, calls and tenants, and any answers of the container. *)
(***************************************************************************)
EXTENDS ConfigReloader, TLAPS, WellFoundedInduction, SequenceTheorems

(***************************************************************************)
(* What adding and removing a tenant does to any list.  The list that      *)
(* Without computes recursively is reached by induction on the length,     *)
(* stated with the least-element principle of the well-founded order of    *)
(* the naturals.                                                           *)
(***************************************************************************)

\* A nonempty set of naturals has a least element.
LEMMA LeastElement ==
    ASSUME NEW Q \in SUBSET Nat, Q # {}
    PROVE  \E m \in Q : \A k \in Q : ~ (k < m)
<1>1. IsWellFoundedOn(OpToRel(<, Nat), Nat)
  BY NatLessThanWellFounded
<1>2. PICK m \in Q : \A k \in Q : ~ (<<k, m>> \in OpToRel(<, Nat))
  BY <1>1, WFMin
<1>3. QED
  BY <1>2 DEF OpToRel

\* G is the function that Without defines, on the first n names of org.
Keeps(G, org, t, n) ==
    G = [i \in 0..n |->
           IF i = 0 THEN <<>>
           ELSE IF org[i] = t THEN G[i-1] ELSE Append(G[i-1], org[i])]

\* The recursive definition in Without defines a function, for every length.
LEMMA KeepsExists ==
    ASSUME NEW org, NEW t
    PROVE  \A n \in Nat : \E G : Keeps(G, org, t, n)
<1> DEFINE Q == {n \in Nat : ~ \E G : Keeps(G, org, t, n)}
<1> SUFFICES ASSUME Q # {} PROVE FALSE
  OBVIOUS
<1>1. PICK m \in Q : \A k \in Q : ~ (k < m)
  BY LeastElement
<1>2. m \in Nat \ {0}
  <2>1. Keeps([i \in 0..0 |-> <<>>], org, t, 0)
    BY DEF Keeps
  <2>2. QED
    BY <2>1
<1>3. PICK G : Keeps(G, org, t, m-1)
  BY <1>1, <1>2
<1> DEFINE step(F, i) == IF org[i] = t THEN F[i-1] ELSE Append(F[i-1], org[i])
           H == [i \in 0..m |-> IF i = m THEN step(G, i) ELSE G[i]]
<1>4. \A i \in 0..m : H[i] = IF i = 0 THEN <<>> ELSE step(H, i)
  <2> SUFFICES ASSUME NEW i \in 0..m
               PROVE  H[i] = IF i = 0 THEN <<>> ELSE step(H, i)
    OBVIOUS
  <2>1. CASE i = m
    <3>1. H[i] = step(G, i) /\ i # 0 /\ i-1 \in 0..m /\ i-1 # m
      BY <2>1, <1>2
    <3>2. H[i-1] = G[i-1]
      BY <3>1
    <3>3. QED
      BY <3>1, <3>2
  <2>2. CASE i # m /\ i # 0
    <3>1. H[i] = G[i] /\ i-1 \in 0..m /\ i-1 # m /\ i \in 0..(m-1)
      BY <2>2, <1>2
    <3>2. H[i-1] = G[i-1]
      BY <3>1
    <3>3. G[i] = step(G, i)
      BY <3>1, <2>2, <1>3 DEF Keeps
    <3>4. QED
      BY <3>1, <3>2, <3>3, <2>2
  <2>3. CASE i = 0
    <3>1. H[0] = G[0] /\ 0 \in 0..(m-1)
      BY <1>2
    <3>2. QED
      BY <3>1, <2>3, <1>3 DEF Keeps
  <2>4. QED
    BY <2>1, <2>2, <2>3
<1>5. Keeps(H, org, t, m)
  <2>1. H = [i \in 0..m |-> IF i = 0 THEN <<>> ELSE step(H, i)]
    BY <1>4
  <2>2. QED
    BY <2>1 DEF Keeps
<1>6. QED
  BY <1>5, <1>1

\* The value of Without is the last one of that function.
LEMMA WithoutUnfold ==
    ASSUME NEW t, NEW org \in Seq(Names)
    PROVE  \E G : Keeps(G, org, t, Len(org)) /\ Without(org, t) = G[Len(org)]
<1>1. PICK G : Keeps(G, org, t, Len(org))
  BY KeepsExists, Len(org) \in Nat
<1> DEFINE F == CHOOSE g : Keeps(g, org, t, Len(org))
<1>2. Keeps(F, org, t, Len(org))
  BY <1>1
<1>3. Without(org, t) = F[Len(org)]
  BY DEF Without, Keeps
<1>4. QED
  BY <1>2, <1>3

\* What is left of the first i names is a list of names without t, in which
\* no name is doubled.
Kept(s, org, t, i) ==
    /\ s \in Seq(Names)
    /\ \A u : Contains(s, u) <=> u # t /\ \E j \in 1..i : org[j] = u
    /\ Distinct(org) => Distinct(s)

LEMMA AppendContains ==
    ASSUME NEW s \in Seq(Names), NEW n \in Names
    PROVE  /\ Append(s, n) \in Seq(Names)
           /\ Append(s, n) # <<>>
           /\ \A u : Contains(Append(s, n), u) <=> u = n \/ Contains(s, u)
           /\ Distinct(s) /\ ~ Contains(s, n) => Distinct(Append(s, n))
<1>1. /\ Append(s, n) \in Seq(Names)
      /\ Append(s, n) # <<>>
      /\ Len(Append(s, n)) = Len(s) + 1
      /\ \A i \in 1..Len(s) : Append(s, n)[i] = s[i]
      /\ Append(s, n)[Len(s) + 1] = n
      /\ Len(s) \in Nat
  BY AppendProperties
<1>2. ASSUME NEW u PROVE Contains(Append(s, n), u) <=> u = n \/ Contains(s, u)
  <2>1. ASSUME Contains(Append(s, n), u) PROVE u = n \/ Contains(s, u)
    <3>1. PICK i \in 1..(Len(s) + 1) : Append(s, n)[i] = u
      BY <2>1, <1>1 DEF Contains
    <3>2. CASE i = Len(s) + 1
      BY <3>1, <3>2, <1>1
    <3>3. CASE i # Len(s) + 1
      <4>1. i \in 1..Len(s)
        BY <3>3, <1>1
      <4>2. QED
        BY <4>1, <3>1, <1>1 DEF Contains
    <3>4. QED
      BY <3>2, <3>3
  <2>2. ASSUME u = n PROVE Contains(Append(s, n), u)
    <3>1. Len(s) + 1 \in 1..Len(Append(s, n))
      BY <1>1
    <3>2. QED
      BY <3>1, <2>2, <1>1 DEF Contains
  <2>3. ASSUME Contains(s, u) PROVE Contains(Append(s, n), u)
    <3>1. PICK i \in 1..Len(s) : s[i] = u
      BY <2>3 DEF Contains
    <3>2. i \in 1..Len(Append(s, n))
      BY <1>1
    <3>3. QED
      BY <3>1, <3>2, <1>1 DEF Contains
  <2>4. QED
    BY <2>1, <2>2, <2>3
<1>3. ASSUME Distinct(s), ~ Contains(s, n) PROVE Distinct(Append(s, n))
  <2> SUFFICES ASSUME NEW i \in 1..(Len(s) + 1), NEW j \in 1..(Len(s) + 1),
                      Append(s, n)[i] = Append(s, n)[j]
               PROVE  i = j
    BY <1>1 DEF Distinct
  <2>1. CASE i \in 1..Len(s) /\ j \in 1..Len(s)
    BY <2>1, <1>1, <1>3 DEF Distinct
  <2>2. CASE i = Len(s) + 1 /\ j \in 1..Len(s)
    BY <2>2, <1>1, <1>3 DEF Contains
  <2>3. CASE i \in 1..Len(s) /\ j = Len(s) + 1
    BY <2>3, <1>1, <1>3 DEF Contains
  <2>4. CASE i = Len(s) + 1 /\ j = Len(s) + 1
    BY <2>4
  <2>5. QED
    BY <2>1, <2>2, <2>3, <2>4, <1>1
<1>4. QED
  BY <1>1, <1>2, <1>3

\* One step of the recursion of Without.
LEMMA KeptStep ==
    ASSUME NEW t, NEW org \in Seq(Names), NEW m \in 1..Len(org),
           NEW s, Kept(s, org, t, m-1)
    PROVE  Kept(IF org[m] = t THEN s ELSE Append(s, org[m]), org, t, m)
<1>0. m \in Nat \ {0} /\ Len(org) \in Nat /\ org[m] \in Names
  BY ElementOfSeq
<1>1. \A u : (\E j \in 1..m : org[j] = u) <=> org[m] = u \/ \E j \in 1..(m-1) : org[j] = u
  BY <1>0
<1>2. CASE org[m] = t
  <2>1. \A u : Contains(s, u) <=> u # t /\ \E j \in 1..m : org[j] = u
    BY <1>1, <1>2 DEF Kept
  <2>2. QED
    BY <2>1, <1>2 DEF Kept
<1>3. CASE org[m] # t
  <2> DEFINE s2 == Append(s, org[m])
  <2>1. /\ s2 \in Seq(Names)
        /\ \A u : Contains(s2, u) <=> u = org[m] \/ Contains(s, u)
        /\ Distinct(s) /\ ~ Contains(s, org[m]) => Distinct(s2)
    BY <1>0, AppendContains DEF Kept
  <2>2. \A u : Contains(s2, u) <=> u # t /\ \E j \in 1..m : org[j] = u
    BY <2>1, <1>1, <1>3 DEF Kept
  <2>3. ASSUME Distinct(org) PROVE ~ Contains(s, org[m])
    <3>1. ASSUME NEW j \in 1..(m-1) PROVE org[j] # org[m]
      <4>1. j \in 1..Len(org) /\ j # m
        BY <1>0
      <4>2. QED
        BY <4>1, <2>3 DEF Distinct
    <3>2. QED
      BY <3>1 DEF Kept
  <2>4. Distinct(org) => Distinct(s2)
    BY <2>1, <2>3 DEF Kept
  <2>5. Kept(s2, org, t, m)
    BY <2>1, <2>2, <2>4 DEF Kept
  <2>6. QED
    BY <2>5, <1>3
<1>4. QED
  BY <1>2, <1>3

LEMMA WithoutKept ==
    ASSUME NEW t, NEW org \in Seq(Names)
    PROVE  Kept(Without(org, t), org, t, Len(org))
<1>1. PICK G : Keeps(G, org, t, Len(org)) /\ Without(org, t) = G[Len(org)]
  BY WithoutUnfold
<1>0. Len(org) \in Nat
  OBVIOUS
<1> DEFINE Q == {n \in 0..Len(org) : ~ Kept(G[n], org, t, n)}
<1>2. Q = {}
  <2> SUFFICES ASSUME Q # {} PROVE FALSE
    OBVIOUS
  <2>1. PICK m \in Q : \A k \in Q : ~ (k < m)
    <3>1. Q \in SUBSET Nat
      BY <1>0
    <3> HIDE DEF Q
    <3>2. QED
      BY <3>1, LeastElement
  <2>2. m # 0
    <3>1. G[0] = <<>>
      BY <1>0, <1>1 DEF Keeps
    <3>2. Kept(<<>>, org, t, 0)
      <4>1. <<>> \in Seq(Names) /\ Len(<<>>) = 0
        BY EmptySeq
      <4>2. QED
        BY <4>1 DEF Kept, Contains, Distinct
    <3>3. QED
      BY <3>1, <3>2
  <2>3. m \in 1..Len(org) /\ m-1 \in 0..Len(org) /\ m-1 < m
    BY <2>2, <1>0
  <2>4. Kept(G[m-1], org, t, m-1)
    BY <2>3, <2>1
  <2>5. G[m] = IF org[m] = t THEN G[m-1] ELSE Append(G[m-1], org[m])
    <3>1. \A i \in 0..Len(org) :
             G[i] = IF i = 0 THEN <<>>
                    ELSE IF org[i] = t THEN G[i-1] ELSE Append(G[i-1], org[i])
      BY <1>1 DEF Keeps
    <3>2. m \in 0..Len(org) /\ m # 0
      BY <2>2
    <3> HIDE DEF Q
    <3>3. QED
      BY <3>1, <3>2
  <2>6. Kept(G[m], org, t, m)
    <3> DEFINE s == G[m-1]
    <3>1. Kept(s, org, t, m-1)
      BY <2>4
    <3> HIDE DEF s
    <3>2. Kept(IF org[m] = t THEN s ELSE Append(s, org[m]), org, t, m)
      BY <3>1, <2>3, KeptStep
    <3>3. QED
      BY <3>2, <2>5 DEF s
  <2>7. QED
    BY <2>6
<1>3. QED
  BY <1>0, <1>1, <1>2

-----------------------------------------------------------------------------
(***************************************************************************)
(* addTenant (config_reloader.go:421): the list gains the tenant and loses *)
(* nothing, no name is doubled, and the ConfigMap agrees with the request  *)
(* when it is written.                                                     *)
(***************************************************************************)
THEOREM AddTenantCorrect ==
    ASSUME NEW org \in Orgs, NEW t \in Tenants
    PROVE  /\ AddTenant(org, t) \in Orgs
           /\ Contains(AddTenant(org, t), t)
           /\ Members(AddTenant(org, t)) = Members(org) \cup {t}
           /\ Distinct(org) => Distinct(AddTenant(org, t))
<1>1. org \in Seq(Names) /\ t \in Names
  BY DEF Orgs, Names
<1>2. CASE Contains(org, t)
  BY <1>2 DEF AddTenant, Members
<1>3. CASE ~ Contains(org, t)
  <2>1. AddTenant(org, t) = Append(org, t)
    BY <1>3 DEF AddTenant
  <2>2. /\ Append(org, t) \in Seq(Names)
        /\ Append(org, t) # <<>>
        /\ \A u : Contains(Append(org, t), u) <=> u = t \/ Contains(org, u)
        /\ Distinct(org) => Distinct(Append(org, t))
    BY <1>1, <1>3, AppendContains
  <2>3. QED
    BY <2>1, <2>2 DEF Orgs, Members
<1>4. QED
  BY <1>2, <1>3

(***************************************************************************)
(* removeTenant (config_reloader.go:442): the list loses the tenant, every *)
(* occurrence of it, and nothing else, and what is stored when it was the  *)
(* last name is still a list.                                              *)
(***************************************************************************)
THEOREM RemoveTenantCorrect ==
    ASSUME NEW org \in Orgs, NEW t \in Tenants
    PROVE  /\ RemoveTenant(org, t) \in Orgs
           /\ ~ Contains(RemoveTenant(org, t), t)
           /\ Members(RemoveTenant(org, t)) = Members(org) \ {t}
           /\ Distinct(org) => Distinct(RemoveTenant(org, t))
<1>1. org \in Seq(Names)
  BY DEF Orgs
<1>2. CASE ~ Contains(org, t)
  BY <1>2 DEF RemoveTenant, Members
<1>3. CASE Contains(org, t)
  <2> DEFINE w == Without(org, t)
  <2>1. Kept(w, org, t, Len(org))
    BY <1>1, WithoutKept
  <2>2. RemoveTenant(org, t) = Stored(w)
    BY <1>3 DEF RemoveTenant
  <2>3. \A u : Contains(w, u) <=> u # t /\ Contains(org, u)
    BY <2>1 DEF Kept, Contains
  <2>4. w \in Seq(Names) /\ (Distinct(org) => Distinct(w))
    BY <2>1 DEF Kept
  <2> HIDE DEF w
  <2>5. CASE w # <<>>
    BY <2>2, <2>3, <2>4, <2>5 DEF Stored, Orgs, Members
  <2>6. CASE w = <<>>
    <3>1. RemoveTenant(org, t) = <<Blank>>
      BY <2>2, <2>6 DEF Stored
    <3>2. \A u : ~ Contains(w, u)
      BY <2>6 DEF Contains
    <3>3. Members(org) \ {t} = {}
      BY <2>3, <3>2 DEF Members
    <3>4. \A u : Contains(<<Blank>>, u) <=> u = Blank
      BY DEF Contains
    <3>5. <<Blank>> \in Orgs /\ Distinct(<<Blank>>)
      BY DEF Orgs, Names, Distinct
    <3>6. Members(<<Blank>>) = {} /\ t # Blank
      BY <3>4, BlankAssumption DEF Members
    <3>7. QED
      BY <3>1, <3>3, <3>4, <3>5, <3>6
  <2>7. QED
    BY <2>5, <2>6
<1>4. QED
  BY <1>2, <1>3

-----------------------------------------------------------------------------
LEMMA RequestTypes ==
    ASSUME NEW r \in Accepted
    PROVE  /\ r.tenant \in Tenants
           /\ r.action \in {"initialize", "cleanup"}
           /\ r # NoRequest
<1>1. r \in Requests /\ r.tenant # Blank
  BY DEF Accepted, ValidTenantID
<1>2. r.tenant \in Tenants /\ r.action \in {"initialize", "cleanup"}
  BY <1>1 DEF Requests, Names
<1>3. QED
  BY <1>2 DEF NoRequest

\* What processTenant computes from the list it reads, for either action.
LEMMA ChangeCorrect ==
    ASSUME NEW r \in Accepted, NEW org \in Orgs
    PROVE  /\ Change(r, org) \in Orgs
           /\ AlreadyDone(r, Change(r, org))
           /\ AlreadyDone(r, org) => Change(r, org) = org
           /\ Members(Change(r, org)) = Registry!Effect(r, Members(org))
           /\ Distinct(org) => Distinct(Change(r, org))
<1>1. r.tenant \in Tenants /\ r.action \in {"initialize", "cleanup"}
  BY RequestTypes
<1>2. CASE r.action = "initialize"
  <2>1. Change(r, org) = AddTenant(org, r.tenant)
    BY <1>2 DEF Change
  <2>2. AlreadyDone(r, org) => AddTenant(org, r.tenant) = org
    BY <1>2 DEF AlreadyDone, AddTenant
  <2>3. /\ AddTenant(org, r.tenant) \in Orgs
        /\ Contains(AddTenant(org, r.tenant), r.tenant)
        /\ Members(AddTenant(org, r.tenant)) = Members(org) \cup {r.tenant}
        /\ Distinct(org) => Distinct(AddTenant(org, r.tenant))
    BY <1>1, AddTenantCorrect
  <2>4. QED
    BY <2>1, <2>2, <2>3, <1>2 DEF AlreadyDone, Registry!Effect, Contains
<1>3. CASE r.action = "cleanup"
  <2>1. Change(r, org) = RemoveTenant(org, r.tenant)
    BY <1>3 DEF Change
  <2>2. AlreadyDone(r, org) => RemoveTenant(org, r.tenant) = org
    BY <1>3 DEF AlreadyDone, RemoveTenant, Contains
  <2>3. /\ RemoveTenant(org, r.tenant) \in Orgs
        /\ ~ Contains(RemoveTenant(org, r.tenant), r.tenant)
        /\ Members(RemoveTenant(org, r.tenant)) = Members(org) \ {r.tenant}
        /\ Distinct(org) => Distinct(RemoveTenant(org, r.tenant))
    BY <1>1, RemoveTenantCorrect
  <2>4. QED
    BY <2>1, <2>2, <2>3, <1>3 DEF AlreadyDone, Registry!Effect
<1>4. QED
  BY <1>1, <1>2, <1>3

\* A list that keeps a tenant gets no name that the validation refuses.
NamesValid(org) == \A i \in 1..Len(org) : ValidTenantID(org[i])

LEMMA ChangeKeepsNames ==
    ASSUME NEW r \in Accepted, NEW org \in Orgs, NEW t \in Tenants,
           r.tenant = t => r.action = "initialize",
           Contains(org, t), NamesValid(org)
    PROVE  Contains(Change(r, org), t) /\ NamesValid(Change(r, org))
<1>1. /\ r.tenant \in Tenants /\ r.tenant # Blank
      /\ r.action \in {"initialize", "cleanup"}
      /\ org \in Seq(Names)
  BY RequestTypes, BlankAssumption DEF Orgs
<1>2. \A list : NamesValid(list) <=> ~ Contains(list, Blank)
  BY DEF NamesValid, ValidTenantID, Contains
<1>3. CASE r.action = "initialize"
  <2>1. CASE Contains(org, r.tenant)
    BY <1>3, <2>1 DEF Change, AddTenant
  <2>2. CASE ~ Contains(org, r.tenant)
    <3>1. Change(r, org) = Append(org, r.tenant)
      BY <1>3, <2>2 DEF Change, AddTenant
    <3>2. \A u : Contains(Append(org, r.tenant), u) <=> u = r.tenant \/ Contains(org, u)
      BY <1>1, AppendContains DEF Names
    <3>3. QED
      BY <1>1, <1>2, <3>1, <3>2
  <2>3. QED
    BY <2>1, <2>2
<1>4. CASE r.action = "cleanup" /\ Contains(org, r.tenant)
  <2> DEFINE w == Without(org, r.tenant)
  <2>1. Kept(w, org, r.tenant, Len(org))
    BY <1>1, WithoutKept
  <2>2. \A u : Contains(w, u) <=> u # r.tenant /\ Contains(org, u)
    BY <2>1 DEF Kept, Contains
  <2>3. Change(r, org) = Stored(w)
    BY <1>4 DEF Change, RemoveTenant
  <2> HIDE DEF w
  <2>4. Contains(w, t) /\ ~ Contains(w, Blank)
    BY <1>2, <1>4, <2>2
  <2>5. w # <<>>
    BY <2>4 DEF Contains
  <2>6. QED
    BY <1>2, <2>3, <2>4, <2>5 DEF Stored
<1>5. CASE r.action = "cleanup" /\ ~ Contains(org, r.tenant)
  BY <1>5 DEF Change, RemoveTenant
<1>6. QED
  BY <1>1, <1>3, <1>4, <1>5

-----------------------------------------------------------------------------
(***************************************************************************)
(* The invariant of every execution: the types, the mutex, the requests of *)
(* the calls at work, and that a call which has read the ConfigMap carries *)
(* a list that agrees with its request.                                    *)
(***************************************************************************)
RequestsKnown == \A c \in Calls : pc[c] \in Working => req[c] \in Accepted

DataAgrees == \A c \in Calls : pc[c] \in InLock \ {"get"} => AlreadyDone(req[c], data[c])

Inv == TypeOK /\ MutexGuardsCalls /\ RequestsKnown /\ DataAgrees

LEMMA BlankListType == <<Blank>> \in Orgs
  BY DEF Orgs, Names

LEMMA InitInv == Init => Inv
<1> SUFFICES ASSUME Init PROVE Inv
  OBVIOUS
<1>1. TypeOK
  BY ReloaderAssumption, BlankListType DEF Init, TypeOK
<1>2. MutexGuardsCalls
  BY ReloaderAssumption DEF Init, MutexGuardsCalls, InLock
<1>3. RequestsKnown /\ DataAgrees
  BY DEF Init, RequestsKnown, DataAgrees, Working, InLock
<1>4. QED
  BY <1>1, <1>2, <1>3 DEF Inv

\* Every way in which processTenant ends while it holds the mutex.
LEMMA ReturnInv ==
    ASSUME Inv, NEW c \in Calls, NEW code \in Answers,
           pc[c] \in InLock, Return(c, code),
           UNCHANGED <<configMap, annotation, req>>, late' \in SUBSET Orgs
    PROVE  Inv'
<1>1. TypeOK'
  BY ReloaderAssumption, BlankListType DEF Inv, TypeOK, Return, Goto
<1>2. MutexGuardsCalls'
  <2> SUFFICES ASSUME NEW d \in Calls
               PROVE  lock'[Server[d]] = d <=> pc'[d] \in InLock
    BY DEF MutexGuardsCalls
  <2>1. Server[c] \in Servers /\ Server[d] \in Servers /\ Nobody # d
    BY ReloaderAssumption
  <2>2. lock[Server[c]] = c /\ (lock[Server[d]] = d <=> pc[d] \in InLock)
    BY DEF Inv, MutexGuardsCalls
  <2>3. lock'[Server[d]] = IF Server[d] = Server[c] THEN Nobody ELSE lock[Server[d]]
    BY <2>1 DEF Inv, TypeOK, Return
  <2>4. pc'[d] = IF d = c THEN code ELSE pc[d]
    BY DEF Inv, TypeOK, Return, Goto
  <2>5. code \notin InLock
    BY DEF InLock, Answers
  <2>6. QED
    BY <2>1, <2>2, <2>3, <2>4, <2>5
<1>3. RequestsKnown'
  BY DEF Inv, TypeOK, RequestsKnown, Return, Goto, Working, InLock, Answers
<1>4. DataAgrees'
  BY DEF Inv, TypeOK, DataAgrees, Return, Goto, InLock, Answers
<1>5. QED
  BY <1>1, <1>2, <1>3, <1>4 DEF Inv

\* Every step that leaves the mutex, the request and the list of its call alone.
LEMMA GotoInv ==
    ASSUME Inv, NEW c \in Calls, NEW label \in InLock \ {"get"},
           pc[c] \in InLock \ {"get"}, Goto(c, label),
           UNCHANGED <<lock, req, data>>, configMap' \in Orgs,
           annotation' \in Orgs \cup {NoHash}, late' = late,
           answer' \in [Calls -> Hashes \cup {NoHash}]
    PROVE  Inv'
<1>1. TypeOK'
  BY DEF Inv, TypeOK, Goto, Working
<1>2. MutexGuardsCalls'
  BY DEF Inv, TypeOK, MutexGuardsCalls, Goto
<1>3. RequestsKnown'
  BY DEF Inv, TypeOK, RequestsKnown, Goto, Working
<1>4. DataAgrees'
  BY DEF Inv, TypeOK, DataAgrees, Goto
<1>5. QED
  BY <1>1, <1>2, <1>3, <1>4 DEF Inv

LEMMA NextInv == Inv /\ [Next]_vars => Inv'
<1> SUFFICES ASSUME Inv, [Next]_vars PROVE Inv'
  OBVIOUS
<1> USE DEF Inv
<1>1. ASSUME NEW c \in Calls, NEW r \in Requests, Receive(c, r) PROVE Inv'
  <2>1. r \in Accepted
    BY <1>1 DEF Receive, Accepted
  <2>2. TypeOK'
    BY <1>1, <2>1 DEF TypeOK, Receive, Goto, Working
  <2>3. MutexGuardsCalls' /\ DataAgrees'
    BY <1>1 DEF TypeOK, MutexGuardsCalls, DataAgrees, Receive, Goto, InLock
  <2>4. RequestsKnown'
    BY <1>1, <2>1 DEF TypeOK, RequestsKnown, Receive, Goto
  <2>5. QED
    BY <2>2, <2>3, <2>4
<1>2. ASSUME NEW c \in Calls, NEW r \in Requests, Refuse(c, r) PROVE Inv'
  <2>1. TypeOK'
    BY <1>2 DEF TypeOK, Refuse, Goto, Answers
  <2>2. MutexGuardsCalls' /\ DataAgrees'
    BY <1>2 DEF TypeOK, MutexGuardsCalls, DataAgrees, Refuse, Goto, InLock
  <2>3. RequestsKnown'
    BY <1>2 DEF TypeOK, RequestsKnown, Refuse, Goto, Working, InLock
  <2>4. QED
    BY <2>1, <2>2, <2>3
<1>3. ASSUME NEW c \in Calls, Lock(c) PROVE Inv'
  <2>1. Server[c] \in Servers
    BY ReloaderAssumption
  <2>2. TypeOK'
    BY <1>3, <2>1 DEF TypeOK, Lock, Goto, Working, InLock
  <2>3. MutexGuardsCalls'
    <3> SUFFICES ASSUME NEW d \in Calls
                 PROVE  lock'[Server[d]] = d <=> pc'[d] \in InLock
      BY DEF MutexGuardsCalls
    <3>1. Server[d] \in Servers /\ Nobody # d
      BY ReloaderAssumption
    <3>2. lock'[Server[d]] = IF Server[d] = Server[c] THEN c ELSE lock[Server[d]]
      BY <1>3, <2>1, <3>1 DEF TypeOK, Lock
    <3>3. pc'[d] = IF d = c THEN "get" ELSE pc[d]
      BY <1>3 DEF TypeOK, Lock, Goto
    <3>4. lock[Server[d]] = d <=> pc[d] \in InLock
      BY DEF MutexGuardsCalls
    <3>5. lock[Server[c]] = Nobody /\ "get" \in InLock
      BY <1>3 DEF Lock, InLock
    <3>6. QED
      BY <3>1, <3>2, <3>3, <3>4, <3>5
  <2>4. RequestsKnown' /\ DataAgrees'
    BY <1>3 DEF TypeOK, RequestsKnown, DataAgrees, Lock, Goto, Working, InLock
  <2>5. QED
    BY <2>2, <2>3, <2>4
<1>4. ASSUME NEW c \in Calls, GetConfigMap(c) PROVE Inv'
  <2>1. req[c] \in Accepted /\ configMap \in Orgs
    BY <1>4 DEF GetConfigMap, RequestsKnown, TypeOK, Working, InLock
  <2>2. /\ Change(req[c], configMap) \in Orgs
        /\ AlreadyDone(req[c], Change(req[c], configMap))
    BY <2>1, ChangeCorrect
  <2>3. PICK label \in {"hash", "patch"} : Goto(c, label)
    BY <1>4 DEF GetConfigMap
  <2>4. TypeOK'
    BY <1>4, <2>2, <2>3 DEF TypeOK, GetConfigMap, Goto, Working, InLock
  <2>5. MutexGuardsCalls'
    BY <1>4, <2>3 DEF TypeOK, MutexGuardsCalls, GetConfigMap, Goto, InLock
  <2>6. RequestsKnown'
    BY <1>4, <2>1, <2>3 DEF TypeOK, RequestsKnown, GetConfigMap, Goto
  <2>7. DataAgrees'
    BY <1>4, <2>2, <2>3 DEF TypeOK, DataAgrees, GetConfigMap, Goto
  <2>8. QED
    BY <2>4, <2>5, <2>6, <2>7
<1>5. ASSUME NEW c \in Calls, ApplyPatch(c) PROVE Inv'
  BY <1>5, GotoInv DEF ApplyPatch, TypeOK, InLock
<1>6. ASSUME NEW c \in Calls, PatchReturns(c) PROVE Inv'
  BY <1>6, GotoInv DEF PatchReturns, TypeOK, InLock
<1>7. ASSUME NEW c \in Calls, NEW h \in Hashes, ReadHash(c, h) PROVE Inv'
  <2>1. answer' \in [Calls -> Hashes \cup {NoHash}]
    BY <1>7 DEF ReadHash, TypeOK
  <2>2. QED
    BY <1>7, <2>1, GotoInv DEF ReadHash, TypeOK, InLock
<1>8. ASSUME NEW c \in Calls, Confirm(c) PROVE Inv'
  BY <1>8, ReturnInv DEF Confirm, TypeOK, InLock, Answers
<1>9. ASSUME NEW c \in Calls, Mismatch(c) PROVE Inv'
  BY <1>9, GotoInv DEF Mismatch, TypeOK, InLock
<1>10. ASSUME NEW c \in Calls, GetPod(c) PROVE Inv'
  BY <1>10, GotoInv DEF GetPod, TypeOK, InLock
<1>11. ASSUME NEW c \in Calls, UpdatePod(c) PROVE Inv'
  <2>1. annotation' \in Orgs \cup {NoHash}
    BY <1>11 DEF UpdatePod, TypeOK
  <2>2. QED
    BY <1>11, <2>1, GotoInv DEF UpdatePod, TypeOK, InLock
<1>12. ASSUME NEW c \in Calls, PostReload(c) PROVE Inv'
  BY <1>12, GotoInv DEF PostReload, TypeOK, InLock
<1>13. ASSUME NEW c \in Calls, ReloadReturns(c) PROVE Inv'
  BY <1>13, ReturnInv DEF ReloadReturns, TypeOK, InLock, Answers
<1>14. ASSUME NEW c \in Calls, Fail(c) PROVE Inv'
  <2>1. late' \in SUBSET Orgs
    BY <1>14 DEF Fail, Abandoned, TypeOK
  <2>2. FailureCode(pc[c]) \in Answers
    BY DEF FailureCode, Answers
  <2>3. QED
    BY <1>14, <2>1, <2>2, ReturnInv DEF Fail
<1>15. ASSUME NEW c \in Calls, Finish(c) PROVE Inv'
  <2>1. TypeOK'
    BY <1>15 DEF Finish, TypeOK, Goto
  <2>2. MutexGuardsCalls' /\ DataAgrees' /\ RequestsKnown'
    BY <1>15 DEF Finish, TypeOK, Goto, MutexGuardsCalls, DataAgrees, RequestsKnown,
                 InLock, Working, Answers
  <2>3. QED
    BY <2>1, <2>2
<1>16. ASSUME LatePatch PROVE Inv'
  BY <1>16 DEF LatePatch, TypeOK, MutexGuardsCalls, RequestsKnown, DataAgrees
<1>17. ASSUME NEW s \in Servers, Stop(s) PROVE Inv'
  <2> DEFINE broken == {c \in Calls : Server[c] = s /\ pc[c] \in Working}
  <2>1. /\ pc' = [c \in Calls |-> IF c \in broken THEN "Unavailable" ELSE pc[c]]
        /\ data' = [c \in Calls |-> IF c \in broken THEN <<Blank>> ELSE data[c]]
        /\ answer' = [c \in Calls |-> IF c \in broken THEN NoHash ELSE answer[c]]
        /\ lock' = [lock EXCEPT ![s] = Nobody]
        /\ late' \in {late, late \cup Abandoned(broken)}
        /\ UNCHANGED <<configMap, annotation, req>>
    BY <1>17 DEF Stop
  <2>2. late' \in SUBSET Orgs
    BY <2>1 DEF TypeOK, Abandoned
  <2>3. TypeOK'
    BY <2>1, <2>2, BlankListType DEF TypeOK, Answers
  <2>4. MutexGuardsCalls'
    <3> SUFFICES ASSUME NEW d \in Calls
                 PROVE  lock'[Server[d]] = d <=> pc'[d] \in InLock
      BY DEF MutexGuardsCalls
    <3>1. Server[d] \in Servers /\ Nobody # d
      BY ReloaderAssumption
    <3>2. lock'[Server[d]] = IF Server[d] = s THEN Nobody ELSE lock[Server[d]]
      BY <2>1, <3>1 DEF TypeOK
    <3>3. pc'[d] = IF d \in broken THEN "Unavailable" ELSE pc[d]
      BY <2>1
    <3>4. lock[Server[d]] = d <=> pc[d] \in InLock
      BY DEF MutexGuardsCalls
    <3>5. "Unavailable" \notin InLock /\ InLock \subseteq Working
      BY DEF InLock, Working
    <3>6. QED
      BY <3>1, <3>2, <3>3, <3>4, <3>5
  <2>5. RequestsKnown' /\ DataAgrees'
    BY <2>1 DEF RequestsKnown, DataAgrees, InLock, Working
  <2>6. QED
    BY <2>3, <2>4, <2>5
<1>18. CASE UNCHANGED vars
  BY <1>18 DEF vars, TypeOK, MutexGuardsCalls, RequestsKnown, DataAgrees
<1>19. QED
  BY <1>1, <1>2, <1>3, <1>4, <1>5, <1>6, <1>7, <1>8, <1>9, <1>10, <1>11, <1>12,
     <1>13, <1>14, <1>15, <1>16, <1>17, <1>18 DEF Next, Proceed

LEMMA Invariance == Spec => []Inv
<1>1. QED
  BY InitInv, NextInv, PTL DEF Spec

(***************************************************************************)
(* The state of the config-reloader has the types TypeOK lists: in         *)
(* particular the mimirOrg it writes is always a list that reads back.     *)
(***************************************************************************)
THEOREM TypeCorrect == Spec => []TypeOK
BY Invariance, PTL DEF Inv

(***************************************************************************)
(* On every path of processTenant the mutex of a server is held by the one *)
(* call that is between Lock and Unlock, and by nobody when there is none. *)
(***************************************************************************)
THEOREM MutexCorrect == Spec => []MutexGuardsCalls
BY Invariance, PTL DEF Inv

\* Only the comparison with the container's hash answers OK.
LEMMA OkOnlyByConfirm ==
    ASSUME Inv, Next, NEW c \in Calls, pc[c] # "OK", pc'[c] = "OK"
    PROVE  Confirm(c)
<1>1. ASSUME NEW d \in Calls, NEW label, label # "OK", Goto(d, label) PROVE FALSE
  BY <1>1 DEF Goto, Inv, TypeOK
<1>2. ASSUME NEW d \in Calls, Confirm(d) PROVE d = c
  BY <1>2 DEF Confirm, Return, Goto, Inv, TypeOK
<1>3. ASSUME NEW d \in Calls, GetConfigMap(d) PROVE FALSE
  BY <1>1, <1>3 DEF GetConfigMap
<1>4. ASSUME NEW d \in Calls, Fail(d) PROVE FALSE
  <2>1. FailureCode(pc[d]) # "OK" /\ Goto(d, FailureCode(pc[d]))
    BY <1>4 DEF Fail, FailureCode, Return
  <2>2. QED
    BY <1>1, <2>1
<1>5. ASSUME NEW s \in Servers, Stop(s) PROVE FALSE
  BY <1>5 DEF Stop
<1>6. ASSUME LatePatch PROVE FALSE
  BY <1>6 DEF LatePatch
<1>7. PICK d \in Calls : \/ \E r \in Requests : Receive(d, r) \/ Refuse(d, r)
                         \/ Lock(d) \/ Proceed(d) \/ Finish(d)
  BY <1>5, <1>6 DEF Next
<1>8. Confirm(d)
  BY <1>1, <1>3, <1>4, <1>7 DEF Receive, Refuse, Lock, Proceed, ApplyPatch, PatchReturns,
     ReadHash, Mismatch, GetPod, UpdatePod, PostReload, ReloadReturns, Return, Finish
<1>9. QED
  BY <1>2, <1>8

(***************************************************************************)
(* An OK answer implies that the container reported a list which agrees    *)
(* with the request, whatever happens to the ConfigMap meanwhile.          *)
(***************************************************************************)
THEOREM OkCorrect == Spec => OkMeansContainerHasIt
<1> DEFINE A == \A c \in Calls :
                   pc[c] # "OK" /\ pc'[c] = "OK" => AlreadyDone(req[c], answer[c])
<1>1. Inv /\ [Next]_vars => [A]_vars
  <2> SUFFICES ASSUME Inv, Next, NEW c \in Calls, pc[c] # "OK", pc'[c] = "OK"
               PROVE  AlreadyDone(req[c], answer[c])
    OBVIOUS
  <2>1. Confirm(c)
    BY OkOnlyByConfirm
  <2>2. QED
    BY <2>1 DEF Confirm, Inv, DataAgrees, InLock
<1>2. QED
  BY <1>1, Invariance, PTL DEF Spec, OkMeansContainerHasIt

-----------------------------------------------------------------------------
(***************************************************************************)
(* No name is doubled in the ConfigMap, nor in a list or a patch under     *)
(* way, if the installed list doubles none.                                *)
(***************************************************************************)
ListsDistinct ==
    /\ NoTenantTwice
    /\ \A c \in Calls : Distinct(data[c])
    /\ \A org \in late : Distinct(org)

LEMMA BlankListDistinct == Distinct(<<Blank>>)
  BY DEF Distinct

LEMMA ListsDistinctInit ==
    (\A org \in InitialOrgs : Distinct(org)) /\ Init => ListsDistinct
  BY BlankListDistinct DEF Init, ListsDistinct, NoTenantTwice

LEMMA ListsDistinctNext == Inv /\ ListsDistinct /\ [Next]_vars => ListsDistinct'
<1> SUFFICES ASSUME Inv, ListsDistinct, [Next]_vars PROVE ListsDistinct'
  OBVIOUS
<1>1. ASSUME NEW c \in Calls, GetConfigMap(c) PROVE ListsDistinct'
  <2>1. Distinct(Change(req[c], configMap))
    BY <1>1, ChangeCorrect DEF GetConfigMap, ListsDistinct, NoTenantTwice,
       Inv, RequestsKnown, TypeOK, Working, InLock
  <2>2. QED
    BY <1>1, <2>1 DEF GetConfigMap, ListsDistinct, NoTenantTwice, Inv, TypeOK
<1>2. ASSUME NEW c \in Calls, ApplyPatch(c) PROVE ListsDistinct'
  BY <1>2 DEF ApplyPatch, ListsDistinct, NoTenantTwice
<1>3. ASSUME NEW c \in Calls, NEW code, Return(c, code), late' = late \/ Fail(c),
             UNCHANGED configMap
      PROVE  ListsDistinct'
  <2>1. \A org \in late' : Distinct(org)
    BY <1>3 DEF Fail, Abandoned, ListsDistinct
  <2>2. \A d \in Calls : Distinct(data'[d])
    BY <1>3, BlankListDistinct DEF Return, ListsDistinct, Inv, TypeOK
  <2>3. QED
    BY <1>3, <2>1, <2>2 DEF ListsDistinct, NoTenantTwice
<1>4. ASSUME NEW c \in Calls, Confirm(c) \/ ReloadReturns(c) PROVE ListsDistinct'
  BY <1>3, <1>4 DEF Confirm, ReloadReturns
<1>5. ASSUME NEW c \in Calls, Fail(c) PROVE ListsDistinct'
  BY <1>3, <1>5 DEF Fail
<1>6. ASSUME LatePatch PROVE ListsDistinct'
  BY <1>6 DEF LatePatch, ListsDistinct, NoTenantTwice
<1>7. ASSUME NEW s \in Servers, Stop(s) PROVE ListsDistinct'
  <2>1. \A org \in late' : Distinct(org)
    BY <1>7 DEF Stop, Abandoned, ListsDistinct
  <2>2. \A d \in Calls : Distinct(data'[d])
    BY <1>7, BlankListDistinct DEF Stop, ListsDistinct
  <2>3. QED
    BY <1>7, <2>1, <2>2 DEF Stop, ListsDistinct, NoTenantTwice
<1>8. ASSUME UNCHANGED <<configMap, late, data>> PROVE ListsDistinct'
  BY <1>8 DEF ListsDistinct, NoTenantTwice
<1>9. QED
  BY <1>1, <1>2, <1>4, <1>5, <1>6, <1>7, <1>8 DEF Next, Proceed, Receive, Refuse, Lock,
     PatchReturns, ReadHash, Mismatch, GetPod, UpdatePod, PostReload, Finish, vars

(***************************************************************************)
(* Several servers and abandoned patches may lose a tenant, but never list *)
(* one twice.                                                              *)
(***************************************************************************)
THEOREM TenantsListedOnce ==
    ASSUME \A org \in InitialOrgs : Distinct(org)
    PROVE  Spec => []NoTenantTwice
<1>1. Init => ListsDistinct
  BY ListsDistinctInit
<1>2. ListsDistinct => NoTenantTwice
  BY DEF ListsDistinct
<1>3. QED
  BY <1>1, <1>2, ListsDistinctNext, Invariance, PTL DEF Spec

-----------------------------------------------------------------------------
(***************************************************************************)
(* One process (replicaCount: 1 and no overlap of an old pod with a new    *)
(* one), whose abandoned patches reach the API server at once or never.    *)
(* Then the mutex of the process is the mutex of the ConfigMap.            *)
(***************************************************************************)
OneWriter == (\A a, b \in Servers : a = b) /\ ~ LatePatches

OneWriterInv == SnapshotIsCurrent /\ late = {}

\* Only one call is between Lock and Unlock.
LEMMA Exclusion ==
    ASSUME OneWriter, Inv, NEW c \in Calls, NEW d \in Calls,
           pc[c] \in InLock, pc[d] \in InLock
    PROVE  c = d
BY ReloaderAssumption DEF OneWriter, Inv, MutexGuardsCalls

LEMMA OneWriterInit == Init => OneWriterInv
BY DEF Init, OneWriterInv, SnapshotIsCurrent, InLock

LEMMA OneWriterNext ==
    OneWriter /\ Inv /\ OneWriterInv /\ [Next]_vars => OneWriterInv'
<1> SUFFICES ASSUME OneWriter, Inv, OneWriterInv, [Next]_vars PROVE OneWriterInv'
  OBVIOUS
<1> USE DEF Inv, TypeOK, OneWriterInv
<1>1. ASSUME NEW c \in Calls, GetConfigMap(c) PROVE OneWriterInv'
  <2>1. req[c] \in Accepted
    BY <1>1 DEF GetConfigMap, RequestsKnown, Working, InLock
  <2>2. AlreadyDone(req[c], configMap) => Change(req[c], configMap) = configMap
    BY <2>1, ChangeCorrect
  <2>3. SnapshotIsCurrent'
    BY <1>1, <2>2 DEF GetConfigMap, Goto, SnapshotIsCurrent, InLock
  <2>4. QED
    BY <1>1, <2>3 DEF GetConfigMap
<1>2. ASSUME NEW c \in Calls, ApplyPatch(c) PROVE OneWriterInv'
  <2>1. \A d \in Calls : d # c => pc[d] \notin InLock
    BY <1>2, Exclusion DEF ApplyPatch, InLock
  <2>2. AlreadyDone(req[c], data[c])
    BY <1>2 DEF ApplyPatch, DataAgrees, InLock
  <2>3. SnapshotIsCurrent'
    <3> SUFFICES ASSUME NEW d \in Calls
                 PROVE  (/\ pc[d] = "patch" => /\ ~ AlreadyDone(req[d], configMap)
                                               /\ data[d] = Change(req[d], configMap)
                         /\ pc[d] \in InLock \ {"get", "patch"} =>
                              /\ AlreadyDone(req[d], configMap)
                              /\ data[d] = configMap)'
      BY DEF SnapshotIsCurrent
    <3>1. CASE d = c
      BY <1>2, <2>2, <3>1 DEF ApplyPatch, Goto
    <3>2. CASE d # c
      BY <1>2, <2>1, <3>2 DEF ApplyPatch, Goto, InLock
    <3>3. QED
      BY <3>1, <3>2
  <2>4. QED
    BY <1>2, <2>3 DEF ApplyPatch
\* Steps that leave the ConfigMap, the requests and the lists alone.
<1>3. ASSUME NEW c \in Calls, NEW label, label # "patch",
             pc[c] \in InLock \ {"get", "patch"} \/ label \notin InLock \ {"get"},
             Goto(c, label), UNCHANGED <<configMap, req, data, late>>
      PROVE  OneWriterInv'
  BY <1>3 DEF Goto, SnapshotIsCurrent, InLock
<1>4. ASSUME NEW c \in Calls, NEW code \in Answers, Return(c, code), late' = {},
             UNCHANGED <<configMap, req>>
      PROVE  OneWriterInv'
  <2>1. code \notin InLock
    BY DEF InLock, Answers
  <2>2. \A d \in Calls : d # c => pc'[d] = pc[d] /\ data'[d] = data[d]
    BY <1>4 DEF Return, Goto
  <2>3. pc'[c] = code
    BY <1>4 DEF Return, Goto
  <2>4. SnapshotIsCurrent'
    BY <1>4, <2>1, <2>2, <2>3 DEF SnapshotIsCurrent, InLock
  <2>5. QED
    BY <1>4, <2>4
<1>5. ASSUME NEW c \in Calls, Confirm(c) \/ ReloadReturns(c) PROVE OneWriterInv'
  <2>1. PICK code \in Answers : Return(c, code)
    BY <1>5 DEF Confirm, ReloadReturns, Answers
  <2>2. QED
    BY <1>4, <1>5, <2>1 DEF Confirm, ReloadReturns
<1>6. ASSUME NEW c \in Calls, Fail(c) PROVE OneWriterInv'
  <2>1. late' = {}
    BY <1>6 DEF Fail, Abandoned, OneWriter
  <2>2. FailureCode(pc[c]) \in Answers
    BY DEF FailureCode, Answers
  <2>3. QED
    BY <1>4, <1>6, <2>1, <2>2 DEF Fail
<1>7. ASSUME NEW c \in Calls, NEW r \in Requests, Receive(c, r) \/ Refuse(c, r)
      PROVE  OneWriterInv'
  BY <1>7 DEF Receive, Refuse, Goto, SnapshotIsCurrent, InLock
<1>8. ASSUME NEW c \in Calls, Finish(c) PROVE OneWriterInv'
  BY <1>8 DEF Finish, Goto, SnapshotIsCurrent, InLock
<1>9. ASSUME LatePatch PROVE OneWriterInv'
  BY <1>9 DEF LatePatch
<1>10. ASSUME NEW s \in Servers, Stop(s) PROVE OneWriterInv'
  <2>1. late' = {} /\ UNCHANGED <<configMap, req>>
    BY <1>10 DEF Stop, Abandoned, OneWriter
  <2>2. \A d \in Calls : \/ pc'[d] = "Unavailable"
                         \/ pc'[d] = pc[d] /\ data'[d] = data[d]
    BY <1>10 DEF Stop
  <2>3. SnapshotIsCurrent'
    BY <2>1, <2>2 DEF SnapshotIsCurrent, InLock
  <2>4. QED
    BY <2>1, <2>3
<1>11. ASSUME NEW c \in Calls, Lock(c) \/ PatchReturns(c) \/ Mismatch(c) \/ GetPod(c)
                               \/ UpdatePod(c) \/ PostReload(c)
                               \/ \E h \in Hashes : ReadHash(c, h)
       PROVE  OneWriterInv'
  BY <1>3, <1>11 DEF Lock, PatchReturns, Mismatch, GetPod, UpdatePod, PostReload,
     ReadHash, InLock
<1>12. CASE UNCHANGED vars
  BY <1>12 DEF vars, SnapshotIsCurrent
<1>13. QED
  BY <1>1, <1>2, <1>5, <1>6, <1>7, <1>8, <1>9, <1>10, <1>11, <1>12 DEF Next, Proceed

LEMMA OneWriterInvariance ==
    ASSUME OneWriter
    PROVE  Spec => []OneWriterInv
BY OneWriterInit, OneWriterNext, Invariance, PTL DEF Spec

(***************************************************************************)
(* A call of the only writer writes, and compares, a list computed from    *)
(* what the ConfigMap holds at that moment.                                *)
(***************************************************************************)
THEOREM SnapshotCorrect ==
    ASSUME OneWriter
    PROVE  Spec => []SnapshotIsCurrent
BY OneWriterInvariance, PTL DEF OneWriterInv

(***************************************************************************)
(* The only writer answers OK only if the container reported the list that *)
(* the ConfigMap holds at the answer.                                      *)
(***************************************************************************)
THEOREM OkIsCurrent ==
    ASSUME OneWriter
    PROVE  Spec => OkAgreesWithConfigMap
<1> DEFINE A == \A c \in Calls : pc[c] # "OK" /\ pc'[c] = "OK" => answer[c] = configMap'
<1>1. Inv /\ OneWriterInv /\ [Next]_vars => [A]_vars
  <2> SUFFICES ASSUME Inv, OneWriterInv, Next, NEW c \in Calls,
                      pc[c] # "OK", pc'[c] = "OK"
               PROVE  answer[c] = configMap'
    OBVIOUS
  <2>1. Confirm(c)
    BY OkOnlyByConfirm
  <2>2. QED
    BY <2>1 DEF Confirm, OneWriterInv, SnapshotIsCurrent, InLock
<1>2. QED
  BY <1>1, Invariance, OneWriterInvariance, PTL DEF Spec, OkAgreesWithConfigMap

-----------------------------------------------------------------------------
\* The abstract phase follows the statement of the call.
LEMMA PhaseStep ==
    ASSUME Inv, NEW c \in Calls, NEW label, Goto(c, label)
    PROVE  Phase' = [Phase EXCEPT ![c] = PhaseOf(label)]
BY DEF Goto, Inv, TypeOK, Phase

LEMMA PhaseSame ==
    ASSUME Inv, NEW c \in Calls, NEW label, Goto(c, label), PhaseOf(label) = PhaseOf(pc[c])
    PROVE  Phase' = Phase
BY DEF Goto, Inv, TypeOK, Phase

LEMMA RegistryInit == Init => Registry!Init
<1> SUFFICES ASSUME Init PROVE Registry!Init
  OBVIOUS
<1>1. Members(configMap) \in SUBSET Tenants
  BY DEF Members
<1>2. Phase = [c \in Calls |-> "idle"]
  BY DEF Init, Phase, PhaseOf
<1>3. req = [c \in Calls |-> Registry!NoOp]
  BY DEF Init, NoRequest, Registry!NoOp
<1>4. QED
  BY <1>1, <1>2, <1>3 DEF Registry!Init

LEMMA RegistryNext ==
    OneWriter /\ Inv /\ OneWriterInv /\ [Next]_vars => [Registry!Next]_Registry!vars
<1> SUFFICES ASSUME OneWriter, Inv, OneWriterInv, [Next]_vars
             PROVE  Registry!Next \/ UNCHANGED Registry!vars
  OBVIOUS
<1>1. ASSUME NEW c \in Calls, NEW r \in Requests, Receive(c, r) PROVE Registry!Begin(c)
  <2>1. r \in Registry!Ops
    BY <1>1 DEF Receive, ValidTenantID, Requests, Names, Registry!Ops
  <2>2. Phase[c] = "idle"
    BY <1>1 DEF Receive, Phase, PhaseOf
  <2>3. Phase' = [Phase EXCEPT ![c] = "open"]
    BY <1>1, PhaseStep DEF Receive, PhaseOf
  <2>4. QED
    BY <1>1, <2>1, <2>2, <2>3 DEF Receive, Registry!Begin, Members
<1>2. ASSUME NEW c \in Calls, NEW r \in Requests, Refuse(c, r) PROVE Registry!Refuse(c)
  <2>1. Phase[c] = "idle"
    BY <1>2 DEF Refuse, Phase, PhaseOf
  <2>2. Phase' = [Phase EXCEPT ![c] = "failed"]
    BY <1>2, PhaseStep DEF Refuse, PhaseOf, InLock
  <2>3. QED
    BY <1>2, <2>1, <2>2 DEF Refuse, Registry!Refuse, Members
<1>3. ASSUME NEW c \in Calls, GetConfigMap(c)
      PROVE  Registry!Apply(c) \/ UNCHANGED Registry!vars
  <2>1. req[c] \in Accepted /\ configMap \in Orgs
    BY <1>3 DEF GetConfigMap, Inv, TypeOK, RequestsKnown, Working, InLock
  <2>2. CASE AlreadyDone(req[c], configMap)
    <3>1. Members(configMap) = Registry!Effect(req[c], Members(configMap))
      BY <2>1, <2>2, ChangeCorrect
    <3>2. Phase[c] = "open"
      BY <1>3 DEF GetConfigMap, Phase, PhaseOf
    <3>3. Phase' = [Phase EXCEPT ![c] = "applied"]
      BY <1>3, <2>2, PhaseStep DEF GetConfigMap, PhaseOf, InLock
    <3>4. UNCHANGED <<configMap, req>>
      BY <1>3 DEF GetConfigMap
    <3>5. Registry!Apply(c)
      BY <3>1, <3>2, <3>3, <3>4 DEF Registry!Apply, Members
    <3>6. QED
      BY <3>5
  <2>3. CASE ~ AlreadyDone(req[c], configMap)
    <3>1. Phase' = Phase
      BY <1>3, <2>3, PhaseSame DEF GetConfigMap, PhaseOf
    <3>2. QED
      BY <1>3, <3>1 DEF GetConfigMap, Registry!vars, Members
  <2>4. QED
    BY <2>2, <2>3
<1>4. ASSUME NEW c \in Calls, ApplyPatch(c) PROVE Registry!Apply(c)
  <2>1. req[c] \in Accepted /\ configMap \in Orgs
    BY <1>4 DEF ApplyPatch, Inv, TypeOK, RequestsKnown, Working, InLock
  <2>2. configMap' = Change(req[c], configMap)
    BY <1>4 DEF ApplyPatch, OneWriterInv, SnapshotIsCurrent
  <2>3. Members(configMap)' = Registry!Effect(req[c], Members(configMap))
    <3>1. Members(configMap)' = Members(Change(req[c], configMap))
      BY <2>2 DEF Members
    <3>2. QED
      BY <2>1, <3>1, ChangeCorrect
  <2>4. Phase[c] = "open"
    BY <1>4 DEF ApplyPatch, Phase, PhaseOf
  <2>5. Phase' = [Phase EXCEPT ![c] = "applied"]
    BY <1>4, PhaseStep DEF ApplyPatch, PhaseOf, InLock
  <2>6. QED
    BY <1>4, <2>3, <2>4, <2>5 DEF ApplyPatch, Registry!Apply
<1>5. ASSUME NEW c \in Calls, Lock(c) PROVE UNCHANGED Registry!vars
  <2>1. Phase' = Phase
    BY <1>5, PhaseSame DEF Lock, PhaseOf
  <2>2. QED
    BY <1>5, <2>1 DEF Lock, Registry!vars, Members
<1>6. ASSUME NEW c \in Calls, PatchReturns(c) \/ Mismatch(c) \/ GetPod(c)
                              \/ UpdatePod(c) \/ PostReload(c)
                              \/ \E h \in Hashes : ReadHash(c, h)
      PROVE  UNCHANGED Registry!vars
  <2>1. PICK label \in InLock \ {"get", "patch"} :
           Goto(c, label) /\ pc[c] \in InLock \ {"get", "patch"}
    BY <1>6 DEF PatchReturns, Mismatch, GetPod, UpdatePod, PostReload, ReadHash, InLock
  <2>2. PhaseOf(label) = PhaseOf(pc[c])
    BY <2>1 DEF PhaseOf, InLock
  <2>3. Phase' = Phase
    BY <2>1, <2>2, PhaseSame
  <2>4. UNCHANGED <<configMap, req>>
    BY <1>6 DEF PatchReturns, Mismatch, GetPod, UpdatePod, PostReload, ReadHash
  <2>5. QED
    BY <2>3, <2>4 DEF Registry!vars, Members
<1>7. ASSUME NEW c \in Calls, Confirm(c) PROVE Registry!Succeed(c)
  <2>1. Phase[c] = "applied"
    BY <1>7 DEF Confirm, Phase, PhaseOf, InLock
  <2>2. Phase' = [Phase EXCEPT ![c] = "ok"]
    BY <1>7, PhaseStep DEF Confirm, Return, PhaseOf, InLock
  <2>3. QED
    BY <1>7, <2>1, <2>2 DEF Confirm, Registry!Succeed, Members
<1>8. ASSUME NEW c \in Calls, ReloadReturns(c) \/ Fail(c) PROVE Registry!Fail({c})
  <2>1. PICK code \in {"Internal", "Unavailable"} : Goto(c, code)
    BY <1>8 DEF ReloadReturns, Fail, FailureCode, Return
  <2>2. pc[c] \in InLock
    BY <1>8 DEF ReloadReturns, Fail, InLock
  <2>3. Phase[c] \in {"open", "applied"}
    BY <2>2 DEF Phase, PhaseOf, InLock
  <2>4. Phase' = [d \in Calls |-> IF d \in {c} THEN "failed" ELSE Phase[d]]
    <3>1. PhaseOf(code) = "failed"
      BY DEF PhaseOf, InLock
    <3>2. Phase' = [Phase EXCEPT ![c] = "failed"]
      BY <2>1, <3>1, PhaseStep
    <3>3. QED
      BY <3>2 DEF Phase
  <2>5. UNCHANGED <<configMap, req>>
    BY <1>8 DEF ReloadReturns, Fail
  <2>6. QED
    BY <2>3, <2>4, <2>5 DEF Registry!Fail, Members
<1>9. ASSUME NEW c \in Calls, Finish(c) PROVE Registry!Finish(c)
  <2>1. Phase[c] \in {"ok", "failed"}
    BY <1>9 DEF Finish, Answers, Phase, PhaseOf, InLock
  <2>2. Phase' = [Phase EXCEPT ![c] = "idle"]
    BY <1>9, PhaseStep DEF Finish, PhaseOf
  <2>3. QED
    BY <1>9, <2>1, <2>2 DEF Finish, Registry!Finish, Registry!NoOp, NoRequest, Members
<1>10. ASSUME LatePatch PROVE FALSE
  BY <1>10 DEF LatePatch, OneWriterInv
<1>11. ASSUME NEW s \in Servers, Stop(s) PROVE \E C \in SUBSET Calls : Registry!Fail(C)
  <2> DEFINE broken == {c \in Calls : Server[c] = s /\ pc[c] \in Working}
  <2>1. \A c \in broken : Phase[c] \in {"open", "applied"}
    BY DEF Phase, PhaseOf, Working, InLock
  <2>2. pc' = [c \in Calls |-> IF c \in broken THEN "Unavailable" ELSE pc[c]]
    BY <1>11 DEF Stop
  <2>3. PhaseOf("Unavailable") = "failed"
    BY DEF PhaseOf, InLock
  <2>4. Phase' = [c \in Calls |-> IF c \in broken THEN "failed" ELSE Phase[c]]
    BY <2>2, <2>3 DEF Phase
  <2>5. UNCHANGED <<configMap, req>>
    BY <1>11 DEF Stop
  <2>6. Registry!Fail(broken)
    BY <2>1, <2>4, <2>5 DEF Registry!Fail, Members
  <2>7. QED
    BY <2>6
<1>12. CASE UNCHANGED vars
  BY <1>12 DEF vars, Registry!vars, Members, Phase
<1>13. QED
  BY <1>1, <1>2, <1>3, <1>4, <1>5, <1>6, <1>7, <1>8, <1>9, <1>10, <1>11, <1>12
     DEF Next, Proceed, Registry!Next

(***************************************************************************)
(* With one writer the config-reloader implements the registry of tenants: *)
(* each call changes its own tenant and nothing else, at one instant, and  *)
(* is answered OK only when it has.                                        *)
(***************************************************************************)
THEOREM OneWriterAtomic ==
    ASSUME OneWriter
    PROVE  Spec => TenantOperationsAtomic
BY RegistryInit, RegistryNext, Invariance, OneWriterInvariance, PTL
   DEF Spec, TenantOperationsAtomic, Registry!Spec
=============================================================================
