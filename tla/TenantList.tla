----------------------------- MODULE TenantList -----------------------------
(***************************************************************************)
(* The mimirOrg field of the edge-node configuration: the tenants whose    *)
(* metrics are exported, one string of tenant IDs joined by "|".  The code *)
(* splits the string, changes the list and joins it again, so a value of   *)
(* the field is modelled by its list.  strings.Split never returns an      *)
(* empty list (the empty string splits into one empty name), and           *)
(* strings.Join of the empty list is the empty string: the field is always *)
(* a nonempty list, and a list emptied by a removal reads back as one      *)
(* blank name.                                                             *)
(*                                                                         *)
(* Two configurations differ in nothing but this field, and the hash of a  *)
(* configuration is taken to be injective, so the list also stands for     *)
(* the hash of the configuration that holds it.                            *)
(***************************************************************************)
EXTENDS Naturals, Sequences

CONSTANTS
    Tenants,   \* tenant IDs that validateTenantID accepts
    Blank      \* the empty name; as a request, any name validateTenantID refuses

ASSUME BlankAssumption == Blank \notin Tenants

Names == Tenants \cup {Blank}

Orgs == Seq(Names) \ {<<>>}

ValidTenantID(t) == t # Blank

\* Mutant: the search stops one name early.
ContainsButLast(org, t) == \E i \in 1..(Len(org) - 1) : org[i] = t

\* slices.Contains over the split field.
Contains(org, t) == \E i \in 1..Len(org) : org[i] = t

Distinct(org) == \A i, j \in 1..Len(org) : org[i] = org[j] => i = j

Members(org) == {t \in Tenants : Contains(org, t)}

(***************************************************************************)
(* slices.DeleteFunc: the list without any occurrence of t, kept[i] being  *)
(* what is left of its first i names.                                      *)
(***************************************************************************)
Without(org, t) ==
    LET kept[i \in 0..Len(org)] ==
          IF i = 0 THEN <<>>
          ELSE IF org[i] = t THEN kept[i-1] ELSE Append(kept[i-1], org[i])
    IN  kept[Len(org)]

\* strings.Join, then strings.Split at the next read.
Stored(list) == IF list = <<>> THEN <<Blank>> ELSE list

\* The lists that addTenant and removeTenant leave (the input when it already agrees).
AddTenant(org, t) == IF Contains(org, t) THEN org ELSE Append(org, t)

\* Mutant: an emptied list is kept as it is.
RemoveTenantUnjoined(org, t) == IF Contains(org, t) THEN Without(org, t) ELSE org

RemoveTenant(org, t) == IF Contains(org, t) THEN Stored(Without(org, t)) ELSE org
=============================================================================
