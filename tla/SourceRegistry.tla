--------------------------- MODULE SourceRegistry ---------------------------
(***************************************************************************)
(* The user's script sources in SourceManager: the list in memory, the     *)
(* sandboxes that run, and the three keys of the preferences store.  The   *)
(* app is one JavaScript thread: what lies between two awaits is one       *)
(* action, and the operations of several callers interleave at the awaits. *)
(* The built-in sources never change and are left out.  The order of the   *)
(* list is left out too: where the code takes the first or the last of     *)
(* several, any of them may be taken.                                      *)
(***************************************************************************)
EXTENDS FiniteSets, Naturals

CONSTANTS Id,     \* the ids of the script sources
          Slot,   \* bound: how many JSScriptSource objects of one id exist at once
          Task,   \* callers: the settings page, the start-up, the web executor's page
          Boot,   \* the caller that runs init when the app starts
          None

\* A JSScriptSource object: its id and which of the objects of that id it is.
Instance == Id \X Slot
IdOf(i) == i[1]
IdsOf(S) == {IdOf(i) : i \in S}

ASSUME RegistryAssumption ==
  /\ Boot \in Task
  /\ IsFiniteSet(Slot)
  /\ None \notin Id /\ None \notin Instance

VARIABLES listed,   \* SourceManager.sources: the objects in the list
          on,       \* the objects of the list that are enabled
          running,  \* the objects whose sandbox has been initialised and not destroyed
          disk,     \* the stored list, scripts and active id
          task,     \* task[t]: where the call of t is
          raced     \* history: calls that began while another was at an await

vars == <<listed, on, running, disk, task, raced>>

-----------------------------------------------------------------------------
(* Types and helpers *)

Entry == [of : Instance, on : BOOLEAN]

Disk == [list : SUBSET Entry, scripts : SUBSET Id, active : Id \cup {None}]

Reading == {"readScripts", "readActive"}
Saving == {"saveList", "saveScripts", "saveActive"}

\* src: the object toggleSource has looked up.  new: the object being initialised,
\* or imported.  list, scripts: what reloadJSSources has read and not yet restored.
Call == [pc : {"idle", "enable", "restore"} \cup Reading \cup Saving,
         src : Instance \cup {None}, new : Instance \cup {None},
         list : SUBSET Entry, scripts : SUBSET Id]

Idle == [pc |-> "idle", src |-> None, new |-> None, list |-> {}, scripts |-> {}]

Quiet == \A t \in Task : task[t].pc = "idle"

\* Objects a call still refers to after its await.
Held == {task[t].src : t \in {u \in Task : task[u].pc = "enable"}}
          \cup {task[t].new : t \in {u \in Task : task[u].pc \in {"enable", "restore"}}}

Free(id, inUse) == {i \in {id} \X Slot : i \notin inUse \cup Held}

\* What the three writes of save take from the list l whose members o are enabled.
Entries(l, o) == {[of |-> i, on |-> i \in o] : i \in l}
ActiveOf(o) == IF o = {} THEN {None} ELSE IdsOf(o)

\* The source a restart initialises: the stored active id, or for a store of an
\* old version (no usable active id) an entry that was stored as enabled.
Restorable(list, scripts) == {e \in list : IdOf(e.of) \in scripts}
Choices(list, scripts, active) ==
  LET valid == Restorable(list, scripts)
      enabled == {e \in valid : e.on}
      ids(E) == {IdOf(e.of) : e \in E}
  IN  IF active \in ids(valid) THEN {active}
      ELSE IF enabled # {} THEN ids(enabled) ELSE {None}

-----------------------------------------------------------------------------
(* save: three awaited writes, each of the state at the time it is issued.  A   *)
(* write that is not flushed when the app dies is lost with everything after    *)
(* it, which is the same as dying before it.                                    *)

StartSave(t, about) ==
  /\ disk' = [disk EXCEPT !.list = Entries(listed', on')]
  /\ task' = [task EXCEPT ![t] = [Idle EXCEPT !.pc = "saveList", !.new = about]]

\* Mutation: only the scripts of enabled sources are stored.
SaveScriptsOfEnabled(t) ==
  /\ task[t].pc = "saveList"
  /\ disk' = [disk EXCEPT !.scripts = IdsOf(on)]
  /\ task' = [task EXCEPT ![t] = [Idle EXCEPT !.pc = "saveScripts"]]
  /\ UNCHANGED <<listed, on, running, raced>>

SaveScripts(t) ==
  /\ task[t].pc = "saveList"
  /\ disk' = [disk EXCEPT !.scripts = IdsOf(listed)]
  /\ task' = [task EXCEPT ![t] = [Idle EXCEPT !.pc = "saveScripts"]]
  /\ UNCHANGED <<listed, on, running, raced>>

\* Mutation: the stored active id is left alone when no source is enabled.
SaveActiveIfAny(t) ==
  /\ task[t].pc = "saveScripts"
  /\ IF on = {} THEN UNCHANGED disk
     ELSE \E i \in on : disk' = [disk EXCEPT !.active = IdOf(i)]
  /\ task' = [task EXCEPT ![t].pc = "saveActive"]
  /\ UNCHANGED <<listed, on, running, raced>>

SaveActive(t) ==
  /\ task[t].pc = "saveScripts"
  /\ \E a \in ActiveOf(on) : disk' = [disk EXCEPT !.active = a]
  /\ task' = [task EXCEPT ![t].pc = "saveActive"]
  /\ UNCHANGED <<listed, on, running, raced>>

Return(t) ==
  /\ task[t].pc = "saveActive"
  /\ task' = [task EXCEPT ![t] = Idle]
  /\ UNCHANGED <<listed, on, running, disk, raced>>

-----------------------------------------------------------------------------
(* The operations of the settings page *)

\* An operation has raced when another caller is at an await and will go on with
\* what it read before; a reload has raced with any unfinished call.
Busy(t, pcs) == \E u \in Task \ {t} : task[u].pc \in pcs
Begin(t) ==
  /\ task[t].pc = "idle"
  /\ raced' = raced \cup (IF Busy(t, {"enable"}) THEN {"user"} ELSE {})
                    \cup (IF Busy(t, Reading \cup {"restore"}) THEN {"reload"} ELSE {})

\* Mutation: the replaced object stays in the list.
ImportBeside(t, id) ==
  /\ Begin(t)
  /\ \E n \in Free(id, listed \cup running) :
       /\ listed' = listed \cup {n}
       /\ on' = {i \in on : IdOf(i) # id}
       /\ running' = {i \in running : IdOf(i) # id}
       /\ StartSave(t, n)

\* registerJSSource: a new object, disabled, replaces the one of the same id.
Import(t, id) ==
  /\ Begin(t)
  /\ \E n \in Free(id, listed \cup running) :
       LET same == {i \in listed : IdOf(i) = id} IN
       \E old \in IF same = {} THEN {None} ELSE same :
         /\ listed' = (listed \ {old}) \cup {n}
         /\ on' = on \ {old}
         /\ running' = running \ {old}
         /\ StartSave(t, n)

\* Mutation: the removed object is not destroyed.
RemoveWithoutDestroy(t, id) ==
  /\ Begin(t)
  /\ \E i \in listed :
       /\ IdOf(i) = id
       /\ listed' = listed \ {i}
       /\ on' = on \ {i}
       /\ StartSave(t, None)
  /\ UNCHANGED running

Remove(t, id) ==
  /\ Begin(t)
  /\ \E i \in listed :
       /\ IdOf(i) = id
       /\ listed' = listed \ {i}
       /\ on' = on \ {i}
       /\ running' = running \ {i}
       /\ StartSave(t, None)

\* toggleSource(id, false)
Disable(t, id) ==
  /\ Begin(t)
  /\ \E i \in listed :
       /\ IdOf(i) = id
       /\ on' = on \ {i}
       /\ running' = running \ {i}
       /\ listed' = listed
       /\ StartSave(t, None)

\* toggleSource(id, true), up to the await of JSSandbox.createSource
Enable(t, id) ==
  /\ Begin(t)
  /\ \E i \in listed, n \in Free(id, listed \cup running) :
       /\ IdOf(i) = id
       /\ task' = [task EXCEPT ![t] = [Idle EXCEPT !.pc = "enable", !.src = i, !.new = n]]
  /\ UNCHANGED <<listed, on, running, disk>>

\* Mutation: the new object counts as enabled although it is not in the list.
EnableDoneUnlisted(t) ==
  LET src == task[t].src
      new == task[t].new
      others == {i \in listed : IdOf(i) # IdOf(new)}
  IN  /\ task[t].pc = "enable"
      /\ listed' = IF src \in listed THEN (listed \ {src}) \cup {new} ELSE listed
      /\ on' = (on \ (others \cup {src})) \cup {new}
      /\ running' = (running \ (others \cup {src})) \cup {new}
      /\ StartSave(t, None)
      /\ UNCHANGED raced

\* ... and after it: the old object is destroyed and replaced where it is found;
\* then every other source is disabled and destroyed.  When the old object has left
\* the list (indexOf is -1) the new one is stored under the property "-1".
EnableDone(t) ==
  LET src == task[t].src
      new == task[t].new
      others == {i \in listed : IdOf(i) # IdOf(new)}
  IN  /\ task[t].pc = "enable"
      /\ listed' = IF src \in listed THEN (listed \ {src}) \cup {new} ELSE listed
      /\ on' = (on \ (others \cup {src})) \cup ({new} \cap listed')
      /\ running' = (running \ (others \cup {src})) \cup {new}
      /\ StartSave(t, None)
      /\ UNCHANGED raced

\* Mutation: the failure returns without saving.
EnableFailedUnsaved(t) ==
  /\ task[t].pc = "enable"
  /\ on' = on \ {task[t].src}
  /\ task' = [task EXCEPT ![t] = Idle]
  /\ UNCHANGED <<listed, running, disk, raced>>

\* createSource returned null: the sandbox failed or timed out.
EnableFailed(t) ==
  /\ task[t].pc = "enable"
  /\ on' = on \ {task[t].src}
  /\ UNCHANGED <<listed, running, raced>>
  /\ StartSave(t, None)

-----------------------------------------------------------------------------
(* reloadJSSources *)

ReadList(t) ==
  /\ task[t].pc = "idle"
  /\ raced' = raced \cup (IF \E u \in Task \ {t} : task[u].pc # "idle" THEN {"reload"} ELSE {})
  /\ task' = [task EXCEPT ![t] = [Idle EXCEPT !.pc = "readScripts", !.list = disk.list]]
  /\ UNCHANGED <<listed, on, running, disk>>

ReadScripts(t) ==
  /\ task[t].pc = "readScripts"
  /\ task' = [task EXCEPT ![t].pc = "readActive", ![t].scripts = disk.scripts]
  /\ UNCHANGED <<listed, on, running, disk, raced>>

\* N holds one new object for every entry of E.
CopiesOf(N, E) ==
  \A id \in Id : Cardinality({i \in N : IdOf(i) = id})
                   = Cardinality({e \in E : IdOf(e.of) = id})

\* The loop from one await to the next: entries are pushed as disabled objects until
\* an entry of the active id comes, whose sandbox is awaited, or the list ends.
RestoreFrom(t, l, rest, active) ==
  LET mine == {e \in rest : IdOf(e.of) = active}
      inUse == l \cup running'
  IN  \E pushed \in IF mine = {} THEN {rest} ELSE SUBSET (rest \ mine) :
      \E N \in SUBSET UNION {Free(id, inUse) : id \in Id} :
        /\ CopiesOf(N, pushed)
        /\ listed' = l \cup N
        /\ IF mine = {}
           THEN StartSave(t, None)
           ELSE \E e \in mine, n \in Free(active, inUse) :
                  /\ task' = [task EXCEPT ![t] = [Idle EXCEPT !.pc = "restore", !.new = n,
                                                    !.list = rest \ (pushed \cup {e})]]
                  /\ UNCHANGED disk

\* After the third read everything in the list is destroyed and removed.
ReadActive(t) ==
  /\ task[t].pc = "readActive"
  /\ on' = {}
  /\ running' = running \ listed
  /\ \E a \in Choices(task[t].list, task[t].scripts, disk.active) :
       RestoreFrom(t, {}, Restorable(task[t].list, task[t].scripts), a)
  /\ UNCHANGED raced

RestoreDone(t) ==
  LET new == task[t].new IN
  /\ task[t].pc = "restore"
  /\ on' = on \cup {new}
  /\ running' = running \cup {new}
  /\ RestoreFrom(t, listed \cup {new}, task[t].list, IdOf(new))
  /\ UNCHANGED raced

\* Mutation: the object is marked enabled before its sandbox is known to run.
RestoreFailedEnabled(t) ==
  /\ task[t].pc = "restore"
  /\ on' = on \cup {task[t].new}
  /\ UNCHANGED <<running, raced>>
  /\ RestoreFrom(t, listed \cup {task[t].new}, task[t].list, None)

\* Mutation: a source that fails to start is not pushed.
RestoreFailedDropped(t) ==
  /\ task[t].pc = "restore"
  /\ UNCHANGED <<on, running, raced>>
  /\ RestoreFrom(t, listed, task[t].list, None)

RestoreFailed(t) ==
  /\ task[t].pc = "restore"
  /\ UNCHANGED <<on, running, raced>>
  /\ RestoreFrom(t, listed \cup {task[t].new}, task[t].list, None)

-----------------------------------------------------------------------------
\* The app dies and starts again: init runs the first reload.
Restart ==
  /\ listed' = {} /\ on' = {} /\ running' = {}
  /\ task' = [t \in Task |-> IF t = Boot
                             THEN [Idle EXCEPT !.pc = "readScripts", !.list = disk.list]
                             ELSE Idle]
  /\ UNCHANGED <<disk, raced>>

Init ==
  /\ listed = {} /\ on = {} /\ running = {}
  /\ disk = [list |-> {}, scripts |-> {}, active |-> None]
  /\ task = [t \in Task |-> Idle]
  /\ raced = {}

Save(t) == SaveScripts(t) \/ SaveActive(t) \/ Return(t)
User(t) == \E id \in Id : Import(t, id) \/ Remove(t, id) \/ Disable(t, id) \/ Enable(t, id)
Toggled(t) == EnableDone(t) \/ EnableFailed(t)
Reload(t) == ReadList(t) \/ ReadScripts(t) \/ ReadActive(t) \/ RestoreDone(t) \/ RestoreFailed(t)

Next == Restart \/ \E t \in Task : Save(t) \/ User(t) \/ Toggled(t) \/ Reload(t)

Spec == Init /\ [][Next]_vars

-----------------------------------------------------------------------------
(* Properties *)

TypeOK ==
  /\ listed \subseteq Instance /\ on \subseteq listed /\ running \subseteq Instance
  /\ disk \in Disk
  /\ task \in [Task -> Call]
  /\ raced \subseteq {"user", "reload"}

\* A source that the list shows as enabled has a sandbox that runs, whatever calls
\* overlap: songs are never resolved through a source that was destroyed.
EnabledRuns == on \subseteq running

\* Whatever calls overlapped and however their writes interleaved: once all have
\* returned, the store holds the list, the scripts and the active source in force.
QuietIsSaved ==
  Quiet => /\ disk.list = Entries(listed, on)
           /\ disk.scripts = IdsOf(listed)
           /\ disk.active \in ActiveOf(on)

\* A restart would initialise a source that is enabled now, and none if none is,
\* although the enabled flags of the list stand in for a missing active id.
RestartRestores ==
  Quiet => Choices(disk.list, disk.scripts, disk.active) \subseteq ActiveOf(on)

\* SourceManager.ets:439, script sources exclude each other, and :161 and :408, none
\* is listed twice: true as long as no call runs into a reload.
SingleSelection ==
  "reload" \notin raced => /\ \A i, j \in on : i = j
                          /\ \A i, j \in listed : IdOf(i) = IdOf(j) => i = j

\* A sandbox that runs belongs to an object of the list, whose removal destroys it:
\* true as long as no call runs into another that awaits a sandbox.
NoOrphanSandbox == raced = {} => running \subseteq listed

\* A source that a restart would restore stays so until the user removes it: neither
\* a crash between the writes nor a failed sandbox loses it (no reload overlapping).
Restored == {IdOf(e.of) : e \in Restorable(disk.list, disk.scripts)}
SourcesSurvive ==
  [][ "reload" \notin raced' =>
        \A id \in Restored \ Restored' : \E t \in Task : Remove(t, id) ]_vars

\* The contract of SourceSelection, with the state a restart would restore standing
\* for the list while a reload is under way.
Loaded == \A t \in Task : task[t].pc \notin Reading \cup {"restore"}
Importing ==
  {id \in Id : \E t \in Task : task[t].pc = "saveList" /\ task[t].new \in {id} \X Slot}
Known == IF Loaded THEN IdsOf(listed) ELSE Restored
Active == IF Loaded /\ on # {} THEN IdOf(CHOOSE i \in on : TRUE) ELSE None
Contract == INSTANCE SourceSelection WITH
  known <- Known, active <- Active, loaded <- Loaded, pending <- Importing, raced <- raced # {}
KeepsContract == Contract!Spec

\* SourceManager.ets:439, without the condition.
ExclusiveSources == \A i, j \in on : i = j
=============================================================================
