--------------------------- MODULE VersionCatalog ---------------------------
(***************************************************************************)
(* What a registry promises about the versions of its plugins, with no     *)
(* row ids and no requests: a slot per plugin and version string.  A slot  *)
(* is published once; a listed version can be yanked and restored; a       *)
(* withdrawn one stays withdrawn, and only a purge, of a plugin that       *)
(* allows it, makes the version string free again.  Some backends let a    *)
(* version start its life yanked or withdrawn.                             *)
(***************************************************************************)
CONSTANTS Plugins, Versions,
          Purgeable,    \* plugins whose versions may be purged
          Born          \* the states a published version may start in

VARIABLE slot           \* the state of each version of each plugin

Slots == Plugins \X Versions

CatalogInit == slot = [s \in Slots |-> "absent"]

Publish(s) == /\ slot[s] = "absent"
              /\ \E b \in Born : slot' = [slot EXCEPT ![s] = b]

SetYank(s) == /\ slot[s] \in {"listed", "yanked"}
              /\ \E y \in {"listed", "yanked"} : slot' = [slot EXCEPT ![s] = y]

(* Some of the versions of one plugin are withdrawn together. *)
Withdraw(p, V) ==
    /\ \A v \in V : slot[<<p, v>>] \in {"listed", "yanked"}
    /\ slot' = [s \in Slots |-> IF s[1] = p /\ s[2] \in V THEN "withdrawn"
                                                          ELSE slot[s]]

Purge(s) == /\ s[1] \in Purgeable
            /\ slot[s] # "absent"
            /\ slot' = [slot EXCEPT ![s] = "absent"]

CatalogNext ==
    \/ \E p \in Plugins, V \in SUBSET Versions : Withdraw(p, V)
    \/ \E s \in Slots : Publish(s) \/ SetYank(s) \/ Purge(s)

CatalogSpec == CatalogInit /\ [][CatalogNext]_slot
=============================================================================
