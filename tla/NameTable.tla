----------------------------- MODULE NameTable -----------------------------
(***************************************************************************)
(* What the name side of the resource manager promises: a resource name    *)
(* whose text outlives the manager is bound to one index, keeps it until   *)
(* it is removed from storage, and no index is ever bound a second time,   *)
(* not even after the name that had it is gone.                            *)
(* ResourceNames (src/libs/level2/resourcemanager/resourceman.cpp) is      *)
(* shown to implement it.                                                  *)
(***************************************************************************)

CONSTANTS
  Names,      \* resource names whose text outlives the manager
  Indices     \* the slots of the manager's pool

VARIABLES
  table,      \* the bindings a settled name lookup can give: pairs <<name, index>>
  used        \* every index that was ever bound

vars == <<table, used>>

Bound(n) == \E i \in Indices : <<n, i>> \in table

Init ==
  /\ table = {}
  /\ used = {}

(* The first lookup of a name binds it to an index nobody ever had. *)
Bind(n) ==
  /\ ~Bound(n)
  /\ \E i \in Indices \ used :
       /\ table' = table \cup {<<n, i>>}
       /\ used' = used \cup {i}

(* An index goes to a name whose text may die: it is spent, nothing is promised. *)
Spend ==
  /\ \E i \in Indices \ used : used' = used \cup {i}
  /\ UNCHANGED table

(* The name is removed from storage: it loses its index, the index stays used. *)
Forget(n) ==
  /\ Bound(n)
  /\ table' = {b \in table : b[1] # n}
  /\ UNCHANGED used

Next ==
  \/ \E n \in Names : Bind(n) \/ Forget(n)
  \/ Spend

Spec == Init /\ [][Next]_vars

=============================================================================
