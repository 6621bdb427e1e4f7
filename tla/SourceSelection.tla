--------------------------- MODULE SourceSelection ---------------------------
(***************************************************************************)
(* What SourceManager promises about the user's script sources, without    *)
(* sandboxes, awaits or storage: a set of known sources of which at most   *)
(* one is active; each operation takes effect at once; a restart or a      *)
(* reload forgets no source whose import had returned.  The promise is     *)
(* kept as long as no operation runs into an unfinished one: from then on  *)
(* (raced) nothing is promised.  SourceRegistry implements this module.    *)
(***************************************************************************)
CONSTANTS Id,     \* the ids of the sources, derived from the script's name
          None    \* no source

VARIABLES known,    \* the sources that are imported
          active,   \* the one that resolves songs, or None
          loaded,   \* FALSE while a restart or a reload restores the sources
          pending,  \* imports that have not returned yet
          raced     \* an operation has run into an unfinished one

vars == <<known, active, loaded, pending, raced>>

Init ==
  /\ known = {} /\ active = None /\ loaded = TRUE
  /\ pending = {} /\ raced = FALSE

\* The user imports a source, or a new version of one: it starts disabled.
Import(id) ==
  /\ loaded
  /\ known' = known \cup {id}
  /\ active' = IF active = id THEN None ELSE active
  /\ pending' = pending \cup {id}
  /\ UNCHANGED loaded

\* Imports return once they are stored.
Stored ==
  /\ pending' \subseteq pending
  /\ UNCHANGED <<known, active, loaded>>

Remove(id) ==
  /\ loaded /\ id \in known
  /\ known' = known \ {id}
  /\ active' = IF active = id THEN None ELSE active
  /\ UNCHANGED <<loaded, pending>>

\* Selecting a source deselects the one that was active.
Select(id) ==
  /\ loaded /\ id \in known
  /\ active' = id
  /\ UNCHANGED <<known, loaded, pending>>

\* The user disables the source, or it failed to start again.
Deselect(id) ==
  /\ loaded /\ active = id
  /\ active' = None
  /\ UNCHANGED <<known, loaded, pending>>

\* A restart, or the page of the web executor asks for a reload.  Only an import
\* that has not returned may be forgotten.
Unload ==
  /\ loaded' = FALSE
  /\ active' = None
  /\ known' \subseteq known
  /\ known \ pending \subseteq known'
  /\ pending' = {}

Load ==
  /\ ~loaded /\ loaded' = TRUE
  /\ active' \in known \cup {None}
  /\ UNCHANGED <<known, pending>>

Step ==
  \/ \E id \in Id : Import(id) \/ Remove(id) \/ Select(id) \/ Deselect(id)
  \/ Stored \/ Unload \/ Load

Next == raced' = TRUE \/ (~raced /\ raced' = FALSE /\ Step)

Spec == Init /\ [][Next]_vars
=============================================================================
