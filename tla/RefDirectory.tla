---------------------------- MODULE RefDirectory ----------------------------
(***************************************************************************)
(* What the plugin repository promises about references, with no tables:   *)
(* a directory in which every reference (a canonical name or an alias,     *)
(* compared without case) answers to at most one plugin.  The only step    *)
(* gives one plugin a new set of references, and it is possible only when  *)
(* none of them answers to another plugin.                                 *)
(***************************************************************************)
CONSTANTS PluginIds,   \* ids of plugins
          Refs,        \* references, already lower-cased
          NoPlugin     \* "answers to nobody"

VARIABLE owner         \* the plugin each reference answers to

DirectoryInit == owner = [r \in Refs |-> NoPlugin]

Rebind(p, S) ==
    /\ \A r \in S : owner[r] \in {NoPlugin, p}
    /\ owner' = [r \in Refs |-> IF r \in S THEN p
                                ELSE IF owner[r] = p THEN NoPlugin
                                ELSE owner[r]]

DirectoryNext == \E p \in PluginIds, S \in SUBSET Refs : Rebind(p, S)

DirectorySpec == DirectoryInit /\ [][DirectoryNext]_owner
=============================================================================
