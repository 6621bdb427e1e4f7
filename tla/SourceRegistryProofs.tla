------------------------ MODULE SourceRegistryProofs ------------------------
(***************************************************************************)
(* Theorems of SourceRegistry, for every set of ids, objects and callers.  *)
(***************************************************************************)
EXTENDS SourceRegistry, TLAPS

\* The calls between the moment their view of the list is read, or cleared, and the
\* final save: while there is one, the store need not agree with the list.
Reloading == Reading \cup {"restore"}

\* A call that waits for a sandbox holds the object being initialised.
Awaits == \A t \in Task : task[t].pc \in {"enable", "restore"} => task[t].new \in Instance

\* Each key of the store agrees with the list in memory, or a call is at a point
\* from which it will still write that key.
ListSaved ==
  (\A t \in Task : task[t].pc \notin Reloading) => disk.list = Entries(listed, on)
ScriptsSaved ==
  (\A t \in Task : task[t].pc \notin Reloading \cup {"saveList"})
    => disk.scripts = IdsOf(listed)
ActiveSaved ==
  (\A t \in Task : task[t].pc \notin Reloading \cup {"saveList", "saveScripts"})
    => disk.active \in ActiveOf(on)

IInv == TypeOK /\ Awaits /\ EnabledRuns /\ ListSaved /\ ScriptsSaved /\ ActiveSaved

-----------------------------------------------------------------------------
(* Typing of what the actions are built from *)

LEMMA IdleType == Idle \in Call
BY DEF Idle, Call, Reading, Saving

LEMMA FreeType == \A S : \A id \in Id : Free(id, S) \subseteq Instance
BY DEF Free, Instance

LEMMA EntriesType ==
  ASSUME NEW l \in SUBSET Instance, NEW o
  PROVE  Entries(l, o) \in SUBSET Entry
<1>1. \A i \in l : (i \in o) \in BOOLEAN
  BY SMT
<1>2. ASSUME NEW i \in l PROVE [of |-> i, on |-> i \in o] \in Entry
  <2>1. DEFINE b == i \in o
  <2>2. b \in BOOLEAN
    BY <1>1
  <2>3. HIDE DEF b
  <2>4. [of |-> i, on |-> b] \in Entry
    BY <2>2 DEF Entry
  <2>5. QED
    BY <2>4 DEF b
<1>3. QED
  BY <1>2 DEF Entries

LEMMA IdsType == ASSUME NEW l \in SUBSET Instance PROVE IdsOf(l) \in SUBSET Id
BY DEF IdsOf, IdOf, Instance

LEMMA ActiveType ==
  ASSUME NEW o \in SUBSET Instance
  PROVE  ActiveOf(o) \subseteq Id \cup {None}
BY IdsType DEF ActiveOf

LEMMA ChoicesType ==
  ASSUME NEW E \in SUBSET Entry, NEW S \in SUBSET Id, NEW a \in Id \cup {None}
  PROVE  /\ Restorable(E, S) \subseteq E
         /\ Choices(E, S, a) \subseteq Id \cup {None}
BY DEF Restorable, Choices, Entry, IdOf, Instance

\* StartSave leaves the store typed, and the call at the point where the list has
\* been written and the other two keys have not.
LEMMA StartSaveEffect ==
  ASSUME TypeOK, NEW t \in Task, NEW about \in Instance \cup {None},
         listed' \subseteq Instance, StartSave(t, about)
  PROVE  /\ disk' \in Disk
         /\ task' \in [Task -> Call]
         /\ disk'.list = Entries(listed', on')
         /\ task'[t].pc = "saveList"
         /\ \A u \in Task \ {t} : task'[u] = task[u]
<1>1. Entries(listed', on') \in SUBSET Entry
  BY EntriesType
<1>2. disk' \in Disk /\ disk'.list = Entries(listed', on')
  BY <1>1 DEF StartSave, TypeOK, Disk
<1>3. [Idle EXCEPT !.pc = "saveList", !.new = about] \in Call
  BY DEF Idle, Call, Reading, Saving
<1>4. [Idle EXCEPT !.pc = "saveList", !.new = about].pc = "saveList"
  BY DEF Idle
<1>5. QED
  BY <1>2, <1>3, <1>4 DEF StartSave, TypeOK

\* A call that saves the list it has changed settles the first key; the other two
\* wait for the steps that follow, so the parts about the store are kept.
LEMMA StartSaveKeeps ==
  ASSUME IInv, NEW t \in Task, NEW about \in Instance \cup {None},
         listed' \subseteq Instance, StartSave(t, about)
  PROVE  Awaits' /\ ListSaved' /\ ScriptsSaved' /\ ActiveSaved'
<1>1. /\ disk'.list = Entries(listed', on')
      /\ task'[t].pc = "saveList"
      /\ \A u \in Task \ {t} : task'[u] = task[u]
  BY StartSaveEffect DEF IInv
<1>2. Awaits'
  BY <1>1 DEF IInv, Awaits
<1>3. ListSaved'
  BY <1>1 DEF ListSaved
<1>4. ScriptsSaved' /\ ActiveSaved'
  BY <1>1 DEF ScriptsSaved, ActiveSaved
<1>5. QED
  BY <1>2, <1>3, <1>4

-----------------------------------------------------------------------------
(* The inductive invariant *)

LEMMA InitInv == Init => IInv
<1> SUFFICES ASSUME Init PROVE IInv
  OBVIOUS
<1>1. TypeOK
  BY IdleType DEF Init, TypeOK, Disk
<1>2. Awaits
  BY DEF Init, Awaits, Idle
<1>3. EnabledRuns
  BY DEF Init, EnabledRuns
<1>4. ListSaved /\ ScriptsSaved /\ ActiveSaved
  BY DEF Init, ListSaved, ScriptsSaved, ActiveSaved, Entries, IdsOf, ActiveOf
<1>5. QED
  BY <1>1, <1>2, <1>3, <1>4 DEF IInv

\* The later writes of save.
LEMMA SaveInv == ASSUME IInv, NEW t \in Task, Save(t) PROVE IInv'
<1> USE DEF IInv
<1>1. CASE SaveScripts(t)
  <2>1. IdsOf(listed) \in SUBSET Id
    BY IdsType DEF TypeOK
  <2>2. [Idle EXCEPT !.pc = "saveScripts"] \in Call
    BY DEF Idle, Call, Reading, Saving
  <2>3. disk' \in Disk /\ disk'.list = disk.list /\ disk'.active = disk.active
        /\ disk'.scripts = IdsOf(listed)
    BY <1>1, <2>1 DEF SaveScripts, TypeOK, Disk
  <2>4. task' \in [Task -> Call] /\ task'[t].pc = "saveScripts"
        /\ \A u \in Task \ {t} : task'[u] = task[u]
    BY <1>1, <2>2 DEF SaveScripts, TypeOK, Idle
  <2>5. TypeOK' /\ EnabledRuns'
    BY <1>1, <2>3, <2>4 DEF SaveScripts, TypeOK, EnabledRuns
  <2>6. Awaits'
    BY <2>4 DEF Awaits
  <2>7. ListSaved' /\ ScriptsSaved' /\ ActiveSaved'
    BY <1>1, <2>3, <2>4 DEF SaveScripts, ListSaved, ScriptsSaved, ActiveSaved, Reloading, Reading
  <2>8. QED
    BY <2>5, <2>6, <2>7
<1>2. CASE SaveActive(t)
  <2>1. PICK a \in ActiveOf(on) : disk' = [disk EXCEPT !.active = a]
    BY <1>2 DEF SaveActive
  <2>2. a \in Id \cup {None}
    BY <2>1, ActiveType DEF TypeOK
  <2>3. disk' \in Disk /\ disk'.list = disk.list /\ disk'.scripts = disk.scripts
        /\ disk'.active = a
    BY <2>1, <2>2 DEF TypeOK, Disk
  <2>4. task' \in [Task -> Call] /\ task'[t].pc = "saveActive"
        /\ \A u \in Task \ {t} : task'[u] = task[u]
    BY <1>2 DEF SaveActive, TypeOK, Call, Saving
  <2>5. TypeOK' /\ EnabledRuns'
    BY <1>2, <2>3, <2>4 DEF SaveActive, TypeOK, EnabledRuns
  <2>6. Awaits'
    BY <2>4 DEF Awaits
  <2>7. ListSaved' /\ ScriptsSaved' /\ ActiveSaved'
    BY <1>2, <2>1, <2>3, <2>4 DEF SaveActive, ListSaved, ScriptsSaved, ActiveSaved, Reloading, Reading
  <2>8. QED
    BY <2>5, <2>6, <2>7
<1>3. CASE Return(t)
  <2>1. task' \in [Task -> Call] /\ task'[t].pc = "idle" /\ task[t].pc = "saveActive"
        /\ \A u \in Task \ {t} : task'[u] = task[u]
    BY <1>3, IdleType DEF Return, TypeOK, Idle
  <2>2. TypeOK' /\ EnabledRuns'
    BY <1>3, <2>1 DEF Return, TypeOK, EnabledRuns
  <2>3. Awaits'
    BY <2>1 DEF Awaits
  <2>4. ListSaved' /\ ScriptsSaved' /\ ActiveSaved'
    BY <1>3, <2>1 DEF Return, ListSaved, ScriptsSaved, ActiveSaved, Reloading, Reading
  <2>5. QED
    BY <2>2, <2>3, <2>4
<1>4. QED
  BY <1>1, <1>2, <1>3 DEF Save

\* The operations of the settings page.
LEMMA UserInv == ASSUME IInv, NEW t \in Task, User(t) PROVE IInv'
<1> USE DEF IInv
<1>r. ASSUME Begin(t) PROVE raced' \subseteq {"user", "reload"}
  BY <1>r DEF Begin, TypeOK
<1>0. PICK id \in Id : Import(t, id) \/ Remove(t, id) \/ Disable(t, id) \/ Enable(t, id)
  BY DEF User
<1>1. CASE Import(t, id)
  <2>1. PICK n \in Free(id, listed \cup running),
             old \in (LET same == {i \in listed : IdOf(i) = id}
                      IN IF same = {} THEN {None} ELSE same) :
          /\ listed' = (listed \ {old}) \cup {n}
          /\ on' = on \ {old}
          /\ running' = running \ {old}
          /\ StartSave(t, n)
    BY <1>1 DEF Import
  <2>2. n \in Instance
    BY FreeType
  <2>3. /\ listed' \subseteq Instance /\ on' \subseteq listed' /\ running' \subseteq Instance
        /\ on' \subseteq running'
    BY <2>1, <2>2 DEF TypeOK, EnabledRuns
  <2>4. disk' \in Disk /\ task' \in [Task -> Call]
    BY <2>1, <2>2, <2>3, StartSaveEffect
  <2>5. Awaits' /\ ListSaved' /\ ScriptsSaved' /\ ActiveSaved'
    BY <2>1, <2>2, <2>3, StartSaveKeeps
  <2>6. QED
    BY <1>1, <1>r, <2>3, <2>4, <2>5 DEF Import, TypeOK, EnabledRuns
<1>2. CASE Remove(t, id)
  <2>1. PICK i \in listed : /\ listed' = listed \ {i} /\ on' = on \ {i}
                            /\ running' = running \ {i} /\ StartSave(t, None)
    BY <1>2 DEF Remove
  <2>2. /\ listed' \subseteq Instance /\ on' \subseteq listed' /\ running' \subseteq Instance
        /\ on' \subseteq running'
    BY <2>1 DEF TypeOK, EnabledRuns
  <2>3. disk' \in Disk /\ task' \in [Task -> Call]
    BY <2>1, <2>2, StartSaveEffect
  <2>4. Awaits' /\ ListSaved' /\ ScriptsSaved' /\ ActiveSaved'
    BY <2>1, <2>2, StartSaveKeeps
  <2>5. QED
    BY <1>2, <1>r, <2>2, <2>3, <2>4 DEF Remove, TypeOK, EnabledRuns
<1>3. CASE Disable(t, id)
  <2>1. PICK i \in listed : /\ listed' = listed /\ on' = on \ {i}
                            /\ running' = running \ {i} /\ StartSave(t, None)
    BY <1>3 DEF Disable
  <2>2. /\ listed' \subseteq Instance /\ on' \subseteq listed' /\ running' \subseteq Instance
        /\ on' \subseteq running'
    BY <2>1 DEF TypeOK, EnabledRuns
  <2>3. disk' \in Disk /\ task' \in [Task -> Call]
    BY <2>1, <2>2, StartSaveEffect
  <2>4. Awaits' /\ ListSaved' /\ ScriptsSaved' /\ ActiveSaved'
    BY <2>1, <2>2, StartSaveKeeps
  <2>5. QED
    BY <1>3, <1>r, <2>2, <2>3, <2>4 DEF Disable, TypeOK, EnabledRuns
<1>4. CASE Enable(t, id)
  <2>1. PICK i \in listed, n \in Free(id, listed \cup running) :
          task' = [task EXCEPT ![t] = [Idle EXCEPT !.pc = "enable", !.src = i, !.new = n]]
    BY <1>4 DEF Enable
  <2>2. n \in Instance /\ i \in Instance
    BY FreeType DEF TypeOK
  <2>3. /\ [Idle EXCEPT !.pc = "enable", !.src = i, !.new = n] \in Call
        /\ [Idle EXCEPT !.pc = "enable", !.src = i, !.new = n].pc = "enable"
        /\ [Idle EXCEPT !.pc = "enable", !.src = i, !.new = n].new = n
    BY <2>2 DEF Idle, Call, Reading, Saving
  <2>4. /\ task' \in [Task -> Call] /\ task'[t].pc = "enable" /\ task'[t].new = n
        /\ task[t].pc = "idle"
        /\ \A u \in Task \ {t} : task'[u] = task[u]
    BY <1>4, <2>1, <2>3 DEF TypeOK, Enable, Begin
  <2>5. TypeOK' /\ EnabledRuns'
    BY <1>4, <1>r, <2>4 DEF Enable, TypeOK, EnabledRuns
  <2>6. Awaits'
    BY <2>2, <2>4 DEF Awaits
  <2>7. ListSaved' /\ ScriptsSaved' /\ ActiveSaved'
    BY <1>4, <2>4 DEF Enable, ListSaved, ScriptsSaved, ActiveSaved, Reloading, Reading
  <2>8. QED
    BY <2>5, <2>6, <2>7
<1>5. QED
  BY <1>0, <1>1, <1>2, <1>3, <1>4

\* What toggleSource does once the sandbox has answered.
LEMMA ToggledInv == ASSUME IInv, NEW t \in Task, Toggled(t) PROVE IInv'
<1> USE DEF IInv
<1>1. CASE EnableDone(t)
  <2>1. task[t].new \in Instance
    BY <1>1 DEF EnableDone, Awaits
  <2>2. /\ listed' \subseteq Instance /\ on' \subseteq listed' /\ running' \subseteq Instance
        /\ on' \subseteq running'
    BY <1>1, <2>1 DEF EnableDone, TypeOK, EnabledRuns
  <2>3. disk' \in Disk /\ task' \in [Task -> Call]
    BY <1>1, <2>2, StartSaveEffect DEF EnableDone
  <2>4. Awaits' /\ ListSaved' /\ ScriptsSaved' /\ ActiveSaved'
    BY <1>1, <2>2, StartSaveKeeps DEF EnableDone
  <2>5. QED
    BY <1>1, <2>2, <2>3, <2>4 DEF EnableDone, TypeOK, EnabledRuns
<1>2. CASE EnableFailed(t)
  <2>1. /\ listed' \subseteq Instance /\ on' \subseteq listed' /\ running' \subseteq Instance
        /\ on' \subseteq running'
    BY <1>2 DEF EnableFailed, TypeOK, EnabledRuns
  <2>2. disk' \in Disk /\ task' \in [Task -> Call]
    BY <1>2, <2>1, StartSaveEffect DEF EnableFailed
  <2>3. Awaits' /\ ListSaved' /\ ScriptsSaved' /\ ActiveSaved'
    BY <1>2, <2>1, StartSaveKeeps DEF EnableFailed
  <2>4. QED
    BY <1>2, <2>1, <2>2, <2>3 DEF EnableFailed, TypeOK, EnabledRuns
<1>3. QED
  BY <1>1, <1>2 DEF Toggled

\* The loop of reloadJSSources ends in a save, or in the await of a sandbox during
\* which the call is excused from the agreement of store and memory.
LEMMA RestoreKeeps ==
  ASSUME IInv, NEW t \in Task, NEW l \in SUBSET Instance, NEW rest \in SUBSET Entry,
         NEW active \in Id \cup {None}, on' \subseteq l, on' \subseteq running',
         running' \subseteq Instance, raced' \subseteq {"user", "reload"},
         RestoreFrom(t, l, rest, active)
  PROVE  IInv'
<1> USE DEF IInv
<1> DEFINE mine == {e \in rest : IdOf(e.of) = active}
           inUse == l \cup running'
<1>1. PICK pushed \in (IF mine = {} THEN {rest} ELSE SUBSET (rest \ mine)),
           N \in SUBSET UNION {Free(id, inUse) : id \in Id} :
        /\ listed' = l \cup N
        /\ IF mine = {}
           THEN StartSave(t, None)
           ELSE \E e \in mine, n \in Free(active, inUse) :
                  /\ task' = [task EXCEPT ![t] = [Idle EXCEPT !.pc = "restore", !.new = n,
                                                    !.list = rest \ (pushed \cup {e})]]
                  /\ UNCHANGED disk
  BY DEF RestoreFrom
<1>2. N \subseteq Instance
  BY FreeType
<1>3. listed' \subseteq Instance /\ on' \subseteq listed'
  BY <1>1, <1>2
<1>4. CASE mine = {}
  <2>1. StartSave(t, None)
    BY <1>1, <1>4
  <2>2. disk' \in Disk /\ task' \in [Task -> Call]
    BY <1>3, <2>1, StartSaveEffect
  <2>3. Awaits' /\ ListSaved' /\ ScriptsSaved' /\ ActiveSaved'
    BY <1>3, <2>1, StartSaveKeeps
  <2>4. QED
    BY <1>3, <2>2, <2>3 DEF TypeOK, EnabledRuns
<1>5. CASE mine # {}
  <2>1. PICK e \in mine, n \in Free(active, inUse) :
          /\ task' = [task EXCEPT ![t] = [Idle EXCEPT !.pc = "restore", !.new = n,
                                            !.list = rest \ (pushed \cup {e})]]
          /\ UNCHANGED disk
    BY <1>1, <1>5
  <2>2. active \in Id
    BY <2>1 DEF Entry, IdOf, Instance
  <2>3. n \in Instance
    BY <2>2, FreeType
  <2>4. DEFINE c == [Idle EXCEPT !.pc = "restore", !.new = n, !.list = rest \ (pushed \cup {e})]
  <2>5. c \in Call /\ c.pc = "restore" /\ c.new = n
    BY <2>3 DEF Idle, Call, Reading, Saving
  <2>6. HIDE DEF c
  <2>7. /\ task' \in [Task -> Call] /\ task'[t].pc = "restore" /\ task'[t].new = n
        /\ \A u \in Task \ {t} : task'[u] = task[u]
    BY <2>1, <2>5 DEF TypeOK, c
  <2>8. TypeOK' /\ EnabledRuns'
    BY <1>3, <2>1, <2>7 DEF TypeOK, EnabledRuns
  <2>9. Awaits'
    BY <2>3, <2>7 DEF Awaits
  <2>10. ListSaved' /\ ScriptsSaved' /\ ActiveSaved'
    BY <2>7 DEF ListSaved, ScriptsSaved, ActiveSaved, Reloading
  <2>11. QED
    BY <2>8, <2>9, <2>10
<1>6. QED
  BY <1>4, <1>5

LEMMA ReloadInv == ASSUME IInv, NEW t \in Task, Reload(t) PROVE IInv'
<1> USE DEF IInv
<1>1. CASE ReadList(t)
  <2>1. disk.list \in SUBSET Entry
    BY DEF TypeOK, Disk
  <2>2. DEFINE c == [Idle EXCEPT !.pc = "readScripts", !.list = disk.list]
  <2>3. c \in Call /\ c.pc = "readScripts"
    BY <2>1 DEF Idle, Call, Reading, Saving
  <2>4. HIDE DEF c
  <2>5. /\ task' \in [Task -> Call] /\ task'[t].pc = "readScripts"
        /\ \A u \in Task \ {t} : task'[u] = task[u]
    BY <1>1, <2>3 DEF ReadList, TypeOK, c
  <2>6. TypeOK' /\ EnabledRuns'
    BY <1>1, <2>5 DEF ReadList, TypeOK, EnabledRuns
  <2>7. Awaits'
    BY <2>5 DEF Awaits
  <2>8. ListSaved' /\ ScriptsSaved' /\ ActiveSaved'
    BY <2>5 DEF ListSaved, ScriptsSaved, ActiveSaved, Reloading, Reading
  <2>9. QED
    BY <2>6, <2>7, <2>8
<1>2. CASE ReadScripts(t)
  <2>1. disk.scripts \in SUBSET Id
    BY DEF TypeOK, Disk
  <2>2. /\ task' \in [Task -> Call] /\ task'[t].pc = "readActive"
        /\ \A u \in Task \ {t} : task'[u] = task[u]
    BY <1>2, <2>1 DEF ReadScripts, TypeOK, Call, Reading
  <2>3. TypeOK' /\ EnabledRuns'
    BY <1>2, <2>2 DEF ReadScripts, TypeOK, EnabledRuns
  <2>4. Awaits'
    BY <2>2 DEF Awaits
  <2>5. ListSaved' /\ ScriptsSaved' /\ ActiveSaved'
    BY <2>2 DEF ListSaved, ScriptsSaved, ActiveSaved, Reloading, Reading
  <2>6. QED
    BY <2>3, <2>4, <2>5
<1>3. CASE ReadActive(t)
  <2>1. /\ task[t].list \in SUBSET Entry /\ task[t].scripts \in SUBSET Id
        /\ disk.active \in Id \cup {None}
    BY DEF TypeOK, Call, Disk
  <2>2. PICK a \in Choices(task[t].list, task[t].scripts, disk.active) :
          RestoreFrom(t, {}, Restorable(task[t].list, task[t].scripts), a)
    BY <1>3 DEF ReadActive
  <2>3. a \in Id \cup {None} /\ Restorable(task[t].list, task[t].scripts) \in SUBSET Entry
    BY <2>1, <2>2, ChoicesType
  <2>4. on' = {} /\ running' \subseteq Instance /\ raced' \subseteq {"user", "reload"}
    BY <1>3 DEF ReadActive, TypeOK
  <2>5. QED
    BY <2>2, <2>3, <2>4, RestoreKeeps
<1>4. CASE RestoreDone(t)
  <2>1. task[t].new \in Instance /\ task[t].list \in SUBSET Entry
    BY <1>4 DEF RestoreDone, Awaits, TypeOK, Call
  <2>2. IdOf(task[t].new) \in Id \cup {None}
    BY <2>1 DEF IdOf, Instance
  <2>3. listed \cup {task[t].new} \in SUBSET Instance
    BY <2>1 DEF TypeOK
  <2>4. /\ on' \subseteq listed \cup {task[t].new} /\ on' \subseteq running'
        /\ running' \subseteq Instance /\ raced' \subseteq {"user", "reload"}
    BY <1>4, <2>1 DEF RestoreDone, TypeOK, EnabledRuns
  <2>5. RestoreFrom(t, listed \cup {task[t].new}, task[t].list, IdOf(task[t].new))
    BY <1>4 DEF RestoreDone
  <2>6. QED
    BY <2>1, <2>2, <2>3, <2>4, <2>5, RestoreKeeps
<1>5. CASE RestoreFailed(t)
  <2>1. task[t].new \in Instance /\ task[t].list \in SUBSET Entry
    BY <1>5 DEF RestoreFailed, Awaits, TypeOK, Call
  <2>2. listed \cup {task[t].new} \in SUBSET Instance
    BY <2>1 DEF TypeOK
  <2>3. /\ on' \subseteq listed \cup {task[t].new} /\ on' \subseteq running'
        /\ running' \subseteq Instance /\ raced' \subseteq {"user", "reload"}
    BY <1>5 DEF RestoreFailed, TypeOK, EnabledRuns
  <2>4. RestoreFrom(t, listed \cup {task[t].new}, task[t].list, None)
    BY <1>5 DEF RestoreFailed
  <2>5. QED
    BY <2>1, <2>2, <2>3, <2>4, RestoreKeeps
<1>6. QED
  BY <1>1, <1>2, <1>3, <1>4, <1>5 DEF Reload

LEMMA RestartInv == ASSUME IInv, Restart PROVE IInv'
<1> USE DEF IInv
<1>1. disk.list \in SUBSET Entry
  BY DEF TypeOK, Disk
<1>2. DEFINE c == [Idle EXCEPT !.pc = "readScripts", !.list = disk.list]
<1>3. c \in Call /\ c.pc = "readScripts"
  BY <1>1 DEF Idle, Call, Reading, Saving
<1>4. HIDE DEF c
<1>5. task' = [t \in Task |-> IF t = Boot THEN c ELSE Idle]
  BY DEF Restart, c
<1>6. /\ task' \in [Task -> Call] /\ task'[Boot].pc = "readScripts"
      /\ \A t \in Task : task'[t].pc \notin {"enable", "restore"}
  BY <1>3, <1>5, IdleType, RegistryAssumption DEF Idle
<1>7. TypeOK' /\ EnabledRuns'
  BY <1>6 DEF Restart, TypeOK, EnabledRuns
<1>8. Awaits'
  BY <1>6 DEF Awaits
<1>9. ListSaved' /\ ScriptsSaved' /\ ActiveSaved'
  BY <1>6, RegistryAssumption DEF ListSaved, ScriptsSaved, ActiveSaved, Reloading, Reading
<1>10. QED
  BY <1>7, <1>8, <1>9

LEMMA NextInv == IInv /\ [Next]_vars => IInv'
<1> SUFFICES ASSUME IInv, [Next]_vars PROVE IInv'
  OBVIOUS
<1>1. CASE UNCHANGED vars
  BY <1>1 DEF vars, IInv, TypeOK, Awaits, EnabledRuns, ListSaved, ScriptsSaved, ActiveSaved
<1>2. CASE Restart
  BY <1>2, RestartInv
<1>3. ASSUME NEW t \in Task, Save(t) \/ User(t) \/ Toggled(t) \/ Reload(t)
      PROVE  IInv'
  BY <1>3, SaveInv, UserInv, ToggledInv, ReloadInv
<1>4. QED
  BY <1>1, <1>2, <1>3 DEF Next

LEMMA Inductive == Spec => []IInv
BY InitInv, NextInv, PTL DEF Spec

-----------------------------------------------------------------------------
(* The theorems *)

\* Type correctness of the registry, the store and the calls in flight.
THEOREM TypeCorrect == Spec => []TypeOK
<1>1. IInv => TypeOK
  BY DEF IInv
<1>2. QED
  BY Inductive, <1>1, PTL

\* However toggles, imports, removals and reloads interleave at their awaits, an
\* enabled source of the list has a running sandbox (SourceManager.toggleSource).
THEOREM EnabledCorrect == Spec => []EnabledRuns
<1>1. IInv => EnabledRuns
  BY DEF IInv
<1>2. QED
  BY Inductive, <1>1, PTL

\* However the three awaited writes of several saves interleave (SourceManager.save),
\* the store agrees with memory as soon as no call is in flight.
THEOREM SaveCorrect == Spec => []QuietIsSaved
<1>1. IInv => QuietIsSaved
  BY DEF IInv, QuietIsSaved, Quiet, ListSaved, ScriptsSaved, ActiveSaved, Reloading, Reading
<1>2. QED
  BY Inductive, <1>1, PTL

\* What a restart would initialise then is a source that is enabled now, or none
\* when none is, although the stored flags stand in for a missing active id.
THEOREM RestartCorrect == Spec => []RestartRestores
<1>1. IInv => RestartRestores
  <2> SUFFICES ASSUME IInv, Quiet
               PROVE  Choices(disk.list, disk.scripts, disk.active) \subseteq ActiveOf(on)
    BY DEF RestartRestores
  <2>1. /\ disk.list = Entries(listed, on)
        /\ disk.scripts = IdsOf(listed)
        /\ disk.active \in ActiveOf(on)
    BY DEF IInv, Quiet, ListSaved, ScriptsSaved, ActiveSaved, Reloading, Reading
  <2>2. on \subseteq listed /\ listed \subseteq Instance
    BY DEF IInv, TypeOK
  <2>3. \A e \in disk.list : e.of \in listed /\ (e.on => e.of \in on)
    <3> SUFFICES ASSUME NEW e \in disk.list
                 PROVE  e.of \in listed /\ (e.on => e.of \in on)
      OBVIOUS
    <3>1. PICK i \in listed : e = [of |-> i, on |-> i \in on]
      BY <2>1 DEF Entries
    <3>2. e.of = i /\ e.on = (i \in on)
      BY <3>1
    <3>3. e.on => i \in on
      BY <3>2
    <3>4. QED
      BY <3>2, <3>3
  <2>4. CASE on = {}
    <3>1. disk.active = None /\ ActiveOf(on) = {None}
      BY <2>1, <2>4 DEF ActiveOf
    <3>2. \A e \in disk.list : ~e.on /\ IdOf(e.of) # None
      BY <2>2, <2>3, <2>4, RegistryAssumption DEF IdOf, Instance
    <3>3. QED
      BY <3>1, <3>2 DEF Choices, Restorable
  <2>5. CASE on # {}
    <3>1. disk.active \in IdsOf(on) /\ ActiveOf(on) = IdsOf(on)
      BY <2>1, <2>5 DEF ActiveOf
    <3>2. PICK i \in on : disk.active = IdOf(i)
      BY <3>1 DEF IdsOf
    <3>3. DEFINE e == [of |-> i, on |-> i \in on]
    <3>4. e \in disk.list /\ IdOf(e.of) = disk.active
      BY <2>1, <2>2, <3>2 DEF Entries
    <3>5. IdOf(e.of) \in disk.scripts
      BY <2>1, <2>2, <3>2 DEF IdsOf
    <3>6. Choices(disk.list, disk.scripts, disk.active) = {disk.active}
      BY <3>4, <3>5 DEF Choices, Restorable
    <3>7. QED
      BY <3>1, <3>6
  <2>6. QED
    BY <2>4, <2>5
<1>2. QED
  BY Inductive, <1>1, PTL
=============================================================================
