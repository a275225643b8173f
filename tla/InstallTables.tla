---------------------------- MODULE InstallTables ----------------------------
(***************************************************************************)
(* What the install tables of PatchSites have to fulfil, one pair of steps *)
(* at a time, so that no set of stale steps makes the guards get in each   *)
(* other's way.                                                            *)
(***************************************************************************)
EXTENDS PatchSites

Guards(order) == {i \in DOMAIN order : order[i].patches # {}}

\* The bytes a guard writes.
Branches(step) == {p + i : p \in step.patches, i \in 0..(PatchLength - 1)}

\* A guard has a name of its own, which is no place; only guards are searched for by
\* their signature; a step depends on guards before it.
NamesFit(order) ==
  /\ \A i, j \in Guards(order) : order[i].name = order[j].name => i = j
  /\ \A i, j \in Guards(order) : order[i].name # order[j].place
  /\ \A i \in DOMAIN order : order[i].scan => i \in Guards(order)
  /\ \A i \in DOMAIN order :
       order[i].needs \subseteq {order[j].name : j \in {k \in Guards(order) : k < i}}

\* A guard writes into no window of a later one.
WindowsKept(order) ==
  \A i, j \in Guards(order) : i < j /\ order[i].place = order[j].place =>
    \A w \in order[j].windows, b \in Branches(order[i]) : b < w[1] \/ b >= w[2]

\* A guard leaves into no branch, its own or another's, but at its start.
ExitsFit(order) ==
  \A i, j \in Guards(order) : order[i].place = order[j].place =>
    order[i].exits \cap Branches(order[j]) \subseteq order[j].patches

\* The line at the end of an Install that registers what the i-th step has placed.
RegisteredAt(order, i, j) ==
  /\ order[j].fix = order[i].fix /\ order[j].patches = {}
  /\ order[j].register \in {"ifAny", "always"}
  /\ order[j].needs \subseteq order[i].needs \cup {order[i].name}

\* A fix that counts its sites or stops early registers unconditionally only behind
\* one of its own sites; each of its sites registers, or a line behind it does.
RegistrationFits(order) ==
  /\ \A i \in DOMAIN order : order[i].register \in {"none", "site", "ifAny", "always"}
  /\ \A i \in DOMAIN order : order[i].fix \in Verified /\ order[i].register = "always" =>
       \E j \in Guards(order) :
         j < i /\ order[j].fix = order[i].fix /\ order[j].name \in order[i].needs
  /\ \A i \in Guards(order) : order[i].fix \in Verified /\ order[i].register # "site" =>
       \E j \in DOMAIN order : i < j /\ RegisteredAt(order, i, j)

ASSUME TablesAssumption ==
  \A g \in Games :
    LET order == InstallOrder[g]
    IN  /\ order \in Seq(Range(order))
        /\ NamesFit(order) /\ WindowsKept(order) /\ ExitsFit(order) /\ RegistrationFits(order)
=============================================================================
