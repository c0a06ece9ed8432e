------------------------------- MODULE Registry -------------------------------
(***************************************************************************)
(* What the packet path registries share: entries are looked up by         *)
(* connection name and an unused entry has none (bInUse is false).         *)
(***************************************************************************)
EXTENDS Integers, FiniteSets

CONSTANTS Name,        \* connection names
          Free         \* the name of an unused entry

ASSUME RegistryAssumption == Free \notin Name
=============================================================================
