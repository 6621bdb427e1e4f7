------------------------ MODULE SourceContractProofs ------------------------
(***************************************************************************)
(* SourceRegistry implements SourceSelection, for every set of ids, objects*)
(* and callers, with the properties that hold until a call runs into a     *)
(* reload.                                                                 *)
(***************************************************************************)
EXTENDS SourceRegistryProofs, FiniteSetTheorems

(* The inductive invariant, in parts.  All but the last hold until a call  *)
(* has run into a reload, the last until a call has run into any other.    *)

Clean == "reload" \notin raced

OneEach(l) == \A i, j \in l : IdOf(i) = IdOf(j) => i = j
OneEntryEach(E) == \A d, e \in E : IdOf(d.of) = IdOf(e.of) => d = e
IdsOfEntries(E) == {IdOf(e.of) : e \in E}

\* While a call reloads there is no other.
Solo == \A t, u \in Task : task[t].pc \in Reloading /\ u # t => task[u].pc = "idle"

\* At most one source is on, no id is listed or stored twice.
Unique == (\A i, j \in on : i = j) /\ OneEach(listed) /\ OneEntryEach(disk.list)

\* A call that awaits a sandbox holds a new object, not listed, of the id it is for.
Enabling ==
  \A t \in Task : task[t].pc = "enable" =>
    /\ IdOf(task[t].src) = IdOf(task[t].new)
    /\ task[t].new \notin listed
    /\ \A u \in Task \ {t} : task[u].pc = "enable" => task[t].new # task[u].new

\* What a reload has read is still what is stored.
Fresh ==
  \A t \in Task :
    /\ task[t].pc \in Reading => task[t].list = disk.list
    /\ task[t].pc = "readActive" => task[t].scripts = disk.scripts

\* While a sandbox is awaited, the ids listed so far, that of the object awaited and
\* those still to come are distinct, and together those a restart would restore.
Halfway ==
  \A t \in Task : task[t].pc = "restore" =>
    /\ on = {}
    /\ OneEntryEach(task[t].list)
    /\ IdOf(task[t].new) \notin IdsOf(listed) \cup IdsOfEntries(task[t].list)
    /\ IdsOf(listed) \cap IdsOfEntries(task[t].list) = {}
    /\ IdsOf(listed) \cup {IdOf(task[t].new)} \cup IdsOfEntries(task[t].list) = Restored

\* A listed source whose script is not stored is being imported.
ScriptsKnown == Loaded => IdsOf(listed) \ Importing \subseteq disk.scripts

Parts == Solo /\ Unique /\ Enabling /\ Fresh /\ Halfway /\ ScriptsKnown
CInv == Clean => Parts

\* Without races the object that a call will replace is in the list, and every
\* sandbox that runs belongs to one.
Listed ==
  raced = {} =>
    /\ running \subseteq listed
    /\ \A t \in Task : task[t].pc = "enable" =>
         /\ task[t].src \in listed
         /\ \A u \in Task \ {t} : task[u].pc # "enable"

-----------------------------------------------------------------------------
(* Ids of objects and entries *)

LEMMA IdType == \A i \in Instance : IdOf(i) \in Id
BY DEF Instance, IdOf

LEMMA OfId == \A id \in Id : \A i : i \in {id} \X Slot <=> i \in Instance /\ IdOf(i) = id
BY DEF Instance, IdOf

LEMMA EntryIdType == \A e \in Entry : e.of \in Instance /\ IdOf(e.of) \in Id
BY IdType DEF Entry

\* An object that Free offers is new.
LEMMA FreeIsNew ==
  ASSUME NEW id \in Id, NEW inUse, NEW n \in Free(id, inUse)
  PROVE  /\ n \in Instance /\ IdOf(n) = id /\ n \notin inUse
         /\ \A t \in Task : task[t].pc \in {"enable", "restore"} => n # task[t].new
BY OfId DEF Free, Held

\* The stored entries of a list have its ids.
LEMMA EntriesIds ==
  ASSUME NEW l \in SUBSET Instance, NEW o
  PROVE  /\ IdsOfEntries(Entries(l, o)) = IdsOf(l)
         /\ OneEach(l) => OneEntryEach(Entries(l, o))
<1>1. \A e \in Entries(l, o) : e.of \in l /\ e = [of |-> e.of, on |-> e.of \in o]
  BY DEF Entries
<1>2. ASSUME NEW i \in l PROVE \E e \in Entries(l, o) : e.of = i
  <2>1. DEFINE b == i \in o
  <2>2. [of |-> i, on |-> b] \in Entries(l, o)
    BY DEF Entries
  <2>3. HIDE DEF b
  <2>4. [of |-> i, on |-> b].of = i
    OBVIOUS
  <2>5. QED
    BY <2>2, <2>4
<1>3. IdsOfEntries(Entries(l, o)) = IdsOf(l)
  BY <1>1, <1>2 DEF IdsOfEntries, IdsOf
<1>4. ASSUME OneEach(l), NEW d \in Entries(l, o), NEW e \in Entries(l, o), IdOf(d.of) = IdOf(e.of)
      PROVE  d = e
  <2>1. d.of = e.of
    BY <1>1, <1>4 DEF OneEach
  <2>2. QED
    BY <1>1, <2>1
<1>5. QED
  BY <1>3, <1>4 DEF OneEntryEach

\* New objects, one for each entry, have the ids of the entries.
LEMMA CopiesIds ==
  ASSUME NEW N \in SUBSET Instance, NEW E \in SUBSET Entry, OneEntryEach(E), CopiesOf(N, E)
  PROVE  OneEach(N) /\ IdsOf(N) = IdsOfEntries(E)
<1> DEFINE Nof(id) == {i \in N : IdOf(i) = id}
           Eof(id) == {e \in E : IdOf(e.of) = id}
<1>1. ASSUME NEW id \in Id PROVE IsFiniteSet(Nof(id)) /\ Cardinality(Nof(id)) = Cardinality(Eof(id))
  <2>1. IsFiniteSet({id} \X Slot)
    BY FS_Singleton, FS_Product, RegistryAssumption
  <2>2. Nof(id) \in SUBSET ({id} \X Slot)
    BY OfId
  <2>3. IsFiniteSet(Nof(id))
    BY <2>1, <2>2, FS_Subset
  <2>4. QED
    BY <2>3 DEF CopiesOf
<1>2. ASSUME NEW id \in Id, NEW e \in E, IdOf(e.of) = id PROVE \E i : Nof(id) = {i}
  <2>1. Eof(id) = {e}
    BY <1>2 DEF OneEntryEach
  <2>2. Cardinality(Nof(id)) = 1
    BY <1>1, <2>1, FS_Singleton
  <2>3. QED
    BY <1>1, <2>2, FS_Singleton
<1>3. ASSUME NEW id \in Id, id \notin IdsOfEntries(E) PROVE Nof(id) = {}
  <2>1. Eof(id) = {}
    BY <1>3 DEF IdsOfEntries
  <2>2. Cardinality(Nof(id)) = 0
    BY <1>1, <2>1, FS_EmptySet
  <2>3. QED
    BY <1>1, <2>2, FS_EmptySet
<1>4. \A i \in N : IdOf(i) \in Id /\ i \in Nof(IdOf(i))
  BY IdType
<1>5. IdsOf(N) \subseteq IdsOfEntries(E)
  BY <1>3, <1>4 DEF IdsOf
<1>6. IdsOfEntries(E) \subseteq IdsOf(N)
  BY <1>2, EntryIdType DEF IdsOf, IdsOfEntries
<1>7. ASSUME NEW i \in N, NEW j \in N, IdOf(i) = IdOf(j) PROVE i = j
  <2>1. PICK e \in E : IdOf(e.of) = IdOf(i)
    BY <1>5 DEF IdsOf, IdsOfEntries
  <2>2. PICK k : Nof(IdOf(i)) = {k}
    BY <1>2, <1>4, <2>1
  <2>3. QED
    BY <1>4, <1>7, <2>2
<1>8. QED
  BY <1>5, <1>6, <1>7 DEF OneEach

-----------------------------------------------------------------------------
(* What the actions do to the list, while no call has run into a reload *)

\* A call that begins or goes on, and is no reload, finds no reload.
LEMMA NoReload ==
  ASSUME CInv, Clean, Clean', NEW t \in Task, task[t].pc \notin Reloading,
         task[t].pc # "idle" \/ Begin(t)
  PROVE  Loaded
<1>1. CASE task[t].pc # "idle"
  BY <1>1 DEF CInv, Parts, Solo, Loaded, Reloading
<1>2. CASE Begin(t)
  <2>1. \A u \in Task \ {t} : task[u].pc \notin Reloading
    BY <1>2 DEF Begin, Clean, Busy, Reloading
  <2>2. QED
    BY <2>1 DEF Loaded, Reloading
<1>3. QED
  BY <1>1, <1>2

\* After save has begun no call reloads, if no other did, and all that is left to
\* show of the invariant is that the list is as it should be.
LEMMA SaveBegun ==
  ASSUME IInv, CInv, Clean, NEW t \in Task, NEW about \in Instance \cup {None},
         \A u \in Task \ {t} : task[u].pc \notin Reloading,
         listed' \subseteq Instance, OneEach(listed'), \A i, j \in on' : i = j,
         \A u \in Task \ {t} : task[u].pc = "enable" => task[u].new \notin listed',
         StartSave(t, about)
  PROVE  Solo' /\ Unique' /\ Enabling' /\ Fresh' /\ Halfway' /\ Loaded'
<1>1. /\ disk'.list = Entries(listed', on')
      /\ task'[t].pc = "saveList"
      /\ \A u \in Task \ {t} : task'[u] = task[u]
  BY StartSaveEffect DEF IInv
<1>2. \A u \in Task : task'[u].pc \notin Reading /\ task'[u].pc # "restore"
  BY <1>1 DEF Reloading, Reading
<1>3. Solo' /\ Loaded'
  BY <1>2 DEF Solo, Loaded, Reloading
<1>4. Fresh'
  <2> SUFFICES ASSUME NEW u \in Task
               PROVE (/\ task[u].pc \in Reading => task[u].list = disk.list
                      /\ task[u].pc = "readActive" => task[u].scripts = disk.scripts)'
    BY DEF Fresh
  <2>1. "readActive" \in Reading
    BY DEF Reading
  <2>2. QED
    BY <1>2, <2>1
<1>5. Halfway'
  BY <1>2 DEF Halfway
<1>6. Unique'
  BY <1>1, EntriesIds DEF Unique
<1>7. Enabling'
  BY <1>1 DEF CInv, Parts, Enabling
<1>8. QED
  BY <1>3, <1>4, <1>5, <1>6, <1>7

\* The sources being imported, when a call begins to save.
LEMMA ImportingThen ==
  ASSUME TypeOK, NEW t \in Task, NEW about \in Instance \cup {None}, task[t].pc # "saveList",
         StartSave(t, about)
  PROVE  \A id \in Id : id \in Importing' <=> id \in Importing \/ (about \in Instance /\ IdOf(about) = id)
<1>1. /\ task'[t].pc = "saveList" /\ task'[t].new = about
      /\ \A u \in Task \ {t} : task'[u] = task[u]
  BY DEF StartSave, TypeOK, Idle
<1>2. QED
  BY <1>1, OfId DEF Importing

\* ... and when the tasks change in no way that matters for it.
LEMMA ImportingKept ==
  ASSUME NEW t \in Task, \A u \in Task \ {t} : task'[u] = task[u],
         task[t].pc # "saveList", task'[t].pc # "saveList"
  PROVE  Importing' = Importing
BY DEF Importing

\* Import replaces the object of its id, or adds one.
LEMMA ImportEffect ==
  ASSUME IInv, CInv, Clean, NEW t \in Task, NEW id \in Id, Import(t, id)
  PROVE  \E n \in Instance :
           /\ IdOf(n) = id /\ n \notin listed \cup running /\ StartSave(t, n)
           /\ \A u \in Task : task[u].pc = "enable" => n # task[u].new
           /\ listed' = {i \in listed : IdOf(i) # id} \cup {n}
           /\ on' = {i \in on : IdOf(i) # id}
           /\ running' = running \ {i \in listed : IdOf(i) = id}
<1>1. PICK n \in Free(id, listed \cup running),
           old \in (LET same == {i \in listed : IdOf(i) = id}
                    IN IF same = {} THEN {None} ELSE same) :
        /\ listed' = (listed \ {old}) \cup {n}
        /\ on' = on \ {old}
        /\ running' = running \ {old}
        /\ StartSave(t, n)
  BY DEF Import
<1>2. /\ n \in Instance /\ IdOf(n) = id /\ n \notin listed \cup running
      /\ \A u \in Task : task[u].pc = "enable" => n # task[u].new
  BY FreeIsNew
<1>3. on \subseteq listed /\ listed \subseteq Instance /\ running \subseteq Instance
  BY DEF IInv, TypeOK
<1>4. CASE {i \in listed : IdOf(i) = id} = {}
  <2>1. old \notin Instance
    BY <1>1, <1>4, RegistryAssumption
  <2>2. QED
    BY <1>1, <1>2, <1>3, <1>4, <2>1
<1>5. CASE {i \in listed : IdOf(i) = id} # {}
  <2>1. old \in listed /\ IdOf(old) = id
    BY <1>1, <1>5
  <2>2. {i \in listed : IdOf(i) = id} = {old}
    BY <2>1 DEF CInv, Parts, Unique, OneEach
  <2>3. /\ listed' = {i \in listed : IdOf(i) # id} \cup {n}
        /\ on' = {i \in on : IdOf(i) # id}
        /\ running' = running \ {i \in listed : IdOf(i) = id}
    BY <1>1, <1>3, <2>1, <2>2
  <2>4. QED
    BY <1>1, <1>2, <2>3
<1>6. QED
  BY <1>4, <1>5

\* Remove takes the only object of its id out.
LEMMA RemoveEffect ==
  ASSUME IInv, CInv, Clean, NEW t \in Task, NEW id \in Id, Remove(t, id)
  PROVE  /\ id \in IdsOf(listed) /\ StartSave(t, None)
         /\ listed' = {i \in listed : IdOf(i) # id}
         /\ on' = {i \in on : IdOf(i) # id}
         /\ running' = running \ {i \in listed : IdOf(i) = id}
<1>1. PICK i \in listed : /\ IdOf(i) = id /\ StartSave(t, None)
                          /\ listed' = listed \ {i} /\ on' = on \ {i} /\ running' = running \ {i}
  BY DEF Remove
<1>2. on \subseteq listed
  BY DEF IInv, TypeOK
<1>3. {j \in listed : IdOf(j) = id} = {i}
  BY <1>1 DEF CInv, Parts, Unique, OneEach
<1>4. QED
  BY <1>1, <1>2, <1>3 DEF IdsOf

\* A call whose sandbox has started puts its object in the place of the old one, if
\* that is still listed, and leaves at most one source on.
LEMMA EnableDoneEffect ==
  ASSUME IInv, CInv, Clean, NEW t \in Task, EnableDone(t)
  PROVE  /\ StartSave(t, None)
         /\ task[t].new \in Instance /\ task[t].new \notin listed
         /\ IdOf(task[t].src) = IdOf(task[t].new)
         /\ listed' = IF task[t].src \in listed
                      THEN {i \in listed : IdOf(i) # IdOf(task[t].new)} \cup {task[t].new}
                      ELSE listed
         /\ on' \subseteq listed' /\ \A i, j \in on' : i = j
         /\ task[t].src \in listed => on' = {task[t].new}
         /\ running' = (running \ ({i \in listed : IdOf(i) # IdOf(task[t].new)} \cup {task[t].src}))
                         \cup {task[t].new}
<1> DEFINE src == task[t].src
           new == task[t].new
           others == {i \in listed : IdOf(i) # IdOf(new)}
<1>1. /\ listed' = IF src \in listed THEN (listed \ {src}) \cup {new} ELSE listed
      /\ on' = (on \ (others \cup {src})) \cup ({new} \cap listed')
      /\ running' = (running \ (others \cup {src})) \cup {new}
      /\ StartSave(t, None) /\ task[t].pc = "enable"
  BY DEF EnableDone
<1>2. new \in Instance /\ new \notin listed /\ IdOf(src) = IdOf(new)
  BY <1>1 DEF IInv, Awaits, CInv, Parts, Enabling
<1>3. on \subseteq listed /\ \A i, j \in on : i = j
  BY DEF IInv, TypeOK, CInv, Parts, Unique
<1>4. CASE src \in listed
  <2>1. \A i \in listed : i # src <=> IdOf(i) # IdOf(new)
    BY <1>2, <1>4 DEF CInv, Parts, Unique, OneEach
  <2>2. listed \ {src} = others /\ others \cup {src} = listed
    BY <1>4, <2>1
  <2>3. listed' = others \cup {new} /\ on' = {new}
    BY <1>1, <1>3, <1>4, <2>2
  <2>4. QED
    BY <1>1, <1>2, <1>4, <2>3
<1>5. CASE src \notin listed
  <2>1. on' \subseteq on /\ listed' = listed
    BY <1>1, <1>2, <1>5
  <2>2. QED
    BY <1>1, <1>2, <1>3, <1>5, <2>1
<1>6. QED
  BY <1>4, <1>5

\* The two ways out of the loop of reloadJSSources: the list is complete and is
\* saved, or the sandbox of the active source is awaited.
Ended(t, l, rest, active) ==
  /\ active \notin IdsOfEntries(rest)
  /\ StartSave(t, None)
  /\ IdsOf(listed') = IdsOf(l) \cup IdsOfEntries(rest)
Awaiting(t, l, rest, active, n, more) ==
  /\ task' = [task EXCEPT ![t] = [Idle EXCEPT !.pc = "restore", !.new = n, !.list = more]]
  /\ UNCHANGED disk
  /\ IdOf(n) = active
  /\ active \notin IdsOf(listed') \cup IdsOfEntries(more)
  /\ IdsOf(listed') \cap IdsOfEntries(more) = {}
  /\ IdsOf(listed') \cup {active} \cup IdsOfEntries(more) = IdsOf(l) \cup IdsOfEntries(rest)

\* The loop lists new objects, one of each id, until it ends in one of these ways.
LEMMA RestoreEffect ==
  ASSUME NEW t \in Task, NEW l \in SUBSET Instance, NEW rest \in SUBSET Entry,
         NEW active \in Id \cup {None}, OneEach(l), OneEntryEach(rest),
         IdsOf(l) \cap IdsOfEntries(rest) = {}, RestoreFrom(t, l, rest, active)
  PROVE  /\ listed' \subseteq Instance /\ OneEach(listed') /\ l \subseteq listed'
         /\ \/ Ended(t, l, rest, active)
            \/ \E n \in Instance, more \in SUBSET rest : Awaiting(t, l, rest, active, n, more)
<1> DEFINE mine == {e \in rest : IdOf(e.of) = active}
           inUse == l \cup running'
<1>1. PICK pushed \in (IF mine = {} THEN {rest} ELSE SUBSET (rest \ mine)),
           N \in SUBSET UNION {Free(id, inUse) : id \in Id} :
        /\ CopiesOf(N, pushed)
        /\ listed' = l \cup N
        /\ IF mine = {}
           THEN StartSave(t, None)
           ELSE \E e \in mine, n \in Free(active, inUse) :
                  /\ task' = [task EXCEPT ![t] = [Idle EXCEPT !.pc = "restore", !.new = n,
                                                    !.list = rest \ (pushed \cup {e})]]
                  /\ UNCHANGED disk
  BY DEF RestoreFrom
<1>2. pushed \subseteq rest
  BY <1>1
<1>3. N \subseteq Instance
  BY FreeType
<1>4. OneEntryEach(pushed)
  BY <1>2 DEF OneEntryEach
<1>5. OneEach(N) /\ IdsOf(N) = IdsOfEntries(pushed)
  BY <1>1, <1>2, <1>3, <1>4, CopiesIds
<1>6. IdsOfEntries(pushed) \subseteq IdsOfEntries(rest)
  BY <1>2 DEF IdsOfEntries
<1>7. IdsOf(listed') = IdsOf(l) \cup IdsOfEntries(pushed)
  BY <1>1, <1>5 DEF IdsOf
<1>8. \A i \in l, j \in N : IdOf(i) # IdOf(j)
  BY <1>5, <1>6 DEF IdsOf
<1>9. listed' \subseteq Instance /\ OneEach(listed') /\ l \subseteq listed'
  BY <1>1, <1>3, <1>5, <1>8 DEF OneEach
<1>10. CASE mine = {}
  BY <1>1, <1>7, <1>9, <1>10 DEF IdsOfEntries, Ended
<1>11. CASE mine # {}
  <2>1. PICK e \in mine, n \in Free(active, inUse) :
          /\ task' = [task EXCEPT ![t] = [Idle EXCEPT !.pc = "restore", !.new = n,
                                            !.list = rest \ (pushed \cup {e})]]
          /\ UNCHANGED disk
    BY <1>1, <1>11
  <2> DEFINE more == rest \ (pushed \cup {e})
  <2>2. active \in Id /\ active \in IdsOfEntries(rest) /\ pushed \subseteq rest \ mine
    BY <1>1, <1>11, <2>1, EntryIdType DEF IdsOfEntries
  <2>3. n \in Instance /\ IdOf(n) = active
    BY <2>2, FreeIsNew
  <2>4. mine = {e}
    BY DEF OneEntryEach
  <2>5. rest = pushed \cup {e} \cup more /\ e \notin pushed \cup more /\ pushed \cap more = {}
    BY <1>2, <2>2, <2>4
  <2>6. /\ IdsOfEntries(rest) = IdsOfEntries(pushed) \cup {active} \cup IdsOfEntries(more)
        /\ active \notin IdsOfEntries(pushed) \cup IdsOfEntries(more)
        /\ IdsOfEntries(pushed) \cap IdsOfEntries(more) = {}
    <3>1. IdOf(e.of) = active
      BY <2>4
    <3>2. IdsOfEntries(rest) = IdsOfEntries(pushed) \cup {active} \cup IdsOfEntries(more)
      BY <2>5, <3>1 DEF IdsOfEntries
    <3>3. active \notin IdsOfEntries(pushed) \cup IdsOfEntries(more)
      BY <2>2, <2>4, <2>5 DEF IdsOfEntries
    <3>4. IdsOfEntries(pushed) \cap IdsOfEntries(more) = {}
      BY <2>5 DEF OneEntryEach, IdsOfEntries
    <3>5. QED
      BY <3>2, <3>3, <3>4
  <2>7. /\ active \notin IdsOf(listed') \cup IdsOfEntries(more)
        /\ IdsOf(listed') \cap IdsOfEntries(more) = {}
        /\ IdsOf(listed') \cup {active} \cup IdsOfEntries(more) = IdsOf(l) \cup IdsOfEntries(rest)
    BY <1>7, <2>2, <2>6
  <2>8. more \in SUBSET rest
    OBVIOUS
  <2>9. Awaiting(t, l, rest, active, n, more)
    BY <2>1, <2>3, <2>7 DEF Awaiting
  <2>10. QED
    BY <1>9, <2>3, <2>8, <2>9
<1>12. QED
  BY <1>10, <1>11

-----------------------------------------------------------------------------
(* The steps *)

\* A step of a call that neither reloads nor enables and leaves the list alone.
LEMMA ElsewhereStep ==
  ASSUME CInv, Clean, Loaded, NEW t \in Task, \A u \in Task \ {t} : task'[u] = task[u],
         task'[t].pc \notin Reloading \cup {"enable"}, UNCHANGED <<listed, on>>,
         disk'.list = disk.list
  PROVE  Solo' /\ Unique' /\ Enabling' /\ Fresh' /\ Halfway' /\ Loaded'
<1>1. \A u \in Task : task'[u].pc \notin Reading /\ task'[u].pc # "restore"
  BY DEF Loaded, Reloading
<1>2. Solo' /\ Loaded'
  BY <1>1 DEF Solo, Loaded, Reloading
<1>3. Fresh' /\ Halfway'
  BY <1>1 DEF Fresh, Halfway, Reading
<1>4. Unique' /\ Enabling'
  BY DEF CInv, Parts, Unique, Enabling
<1>5. QED
  BY <1>2, <1>3, <1>4

LEMMA SaveParts ==
  ASSUME IInv, CInv, Listed, Clean, Clean', NEW t \in Task, Save(t)
  PROVE  Parts' /\ Listed' /\ Loaded /\ Loaded'
<1>1. task[t].pc \in Saving /\ task'[t].pc \in {"idle", "saveScripts", "saveActive"}
      /\ UNCHANGED <<listed, on, running, raced>>
      /\ \A u \in Task \ {t} : task'[u] = task[u]
  BY DEF Save, SaveScripts, SaveActive, Return, Saving, IInv, TypeOK, Idle, Call
<1>2. Loaded
  BY <1>1, NoReload DEF Reloading, Reading, Saving
<1>3. disk'.list = disk.list
  BY DEF Save, SaveScripts, SaveActive, Return, IInv, TypeOK, Disk
<1>4. Solo' /\ Unique' /\ Enabling' /\ Fresh' /\ Halfway' /\ Loaded'
  BY <1>1, <1>2, <1>3, ElsewhereStep DEF Reloading, Reading
<1>5. ScriptsKnown'
  <2>1. CASE SaveScripts(t)
    BY <1>1, <2>1 DEF SaveScripts, ScriptsKnown, IInv, TypeOK, Disk
  <2>2. CASE SaveActive(t) \/ Return(t)
    <3>1. disk'.scripts = disk.scripts /\ task[t].pc # "saveList"
      BY <2>2 DEF SaveActive, Return, IInv, TypeOK, Disk
    <3>2. Importing' = Importing
      BY <1>1, <3>1, ImportingKept
    <3>3. QED
      BY <1>1, <1>2, <3>1, <3>2 DEF ScriptsKnown, CInv, Parts
  <2>3. QED
    BY <2>1, <2>2 DEF Save
<1>6. Listed'
  BY <1>1 DEF Listed
<1>7. QED
  BY <1>2, <1>4, <1>5, <1>6 DEF Parts

LEMMA ImportParts ==
  ASSUME IInv, CInv, Listed, Clean, Clean', NEW t \in Task, NEW id \in Id, Import(t, id)
  PROVE  Parts' /\ Listed' /\ Loaded /\ Loaded'
<1>1. PICK n \in Instance :
        /\ IdOf(n) = id /\ n \notin listed \cup running /\ StartSave(t, n)
        /\ \A u \in Task : task[u].pc = "enable" => n # task[u].new
        /\ listed' = {i \in listed : IdOf(i) # id} \cup {n}
        /\ on' = {i \in on : IdOf(i) # id}
        /\ running' = running \ {i \in listed : IdOf(i) = id}
  BY ImportEffect
<1>2. Begin(t) /\ task[t].pc = "idle"
  BY DEF Import, Begin
<1>3. Loaded
  BY <1>2, NoReload DEF Reloading, Reading
<1>4. listed' \subseteq Instance /\ OneEach(listed') /\ (\A i, j \in on' : i = j)
      /\ \A u \in Task \ {t} : task[u].pc = "enable" => task[u].new \notin listed'
  BY <1>1 DEF IInv, TypeOK, CInv, Parts, Unique, OneEach, Enabling
<1>5. Solo' /\ Unique' /\ Enabling' /\ Fresh' /\ Halfway' /\ Loaded'
  BY <1>1, <1>3, <1>4, SaveBegun DEF Loaded, Reloading
<1>6. ScriptsKnown'
  <2>1. \A x \in Id : x \in Importing' <=> x \in Importing \/ x = id
    BY <1>1, <1>2, ImportingThen DEF IInv
  <2>2. IdsOf(listed') \subseteq IdsOf(listed) \cup {id} /\ IdsOf(listed') \subseteq Id
    BY <1>1, <1>4, IdsType DEF IdsOf
  <2>3. disk'.scripts = disk.scripts
    BY <1>1 DEF StartSave, IInv, TypeOK, Disk
  <2>4. QED
    BY <1>3, <2>1, <2>2, <2>3 DEF ScriptsKnown, CInv, Parts
<1>7. Listed'
  <2> SUFFICES ASSUME raced' = {} PROVE Listed'
    BY DEF Listed
  <2>1. raced = {} /\ \A u \in Task \ {t} : task[u].pc # "enable"
    BY <1>2 DEF Begin, Busy
  <2>2. running' \subseteq listed'
    BY <1>1, <2>1 DEF Listed
  <2>3. \A u \in Task : task'[u].pc # "enable"
    BY <1>1, <1>4, <2>1, StartSaveEffect DEF IInv
  <2>4. QED
    BY <2>2, <2>3 DEF Listed
<1>8. QED
  BY <1>3, <1>5, <1>6, <1>7 DEF Parts

\* Steps that save, import nothing and add no id to the list.
LEMMA SavingParts ==
  ASSUME IInv, CInv, Clean, Loaded, NEW t \in Task, task[t].pc # "saveList",
         listed' \subseteq Instance, OneEach(listed'), \A i, j \in on' : i = j,
         \A u \in Task \ {t} : task[u].pc = "enable" => task[u].new \notin listed',
         IdsOf(listed') \subseteq IdsOf(listed), StartSave(t, None)
  PROVE  Parts' /\ Loaded' /\ Importing' = Importing
<1>1. Solo' /\ Unique' /\ Enabling' /\ Fresh' /\ Halfway' /\ Loaded'
  BY SaveBegun DEF Loaded, Reloading
<1>2. Importing' = Importing
  <2>1. \A x \in Id : x \in Importing' <=> x \in Importing
    BY ImportingThen, RegistryAssumption DEF IInv
  <2>2. QED
    BY <2>1 DEF Importing
<1>3. disk'.scripts = disk.scripts
  BY DEF StartSave, IInv, TypeOK, Disk
<1>4. ScriptsKnown'
  BY <1>2, <1>3 DEF ScriptsKnown, CInv, Parts
<1>5. QED
  BY <1>1, <1>2, <1>4 DEF Parts

LEMMA RemoveParts ==
  ASSUME IInv, CInv, Listed, Clean, Clean', NEW t \in Task, NEW id \in Id, Remove(t, id)
  PROVE  Parts' /\ Listed' /\ Loaded /\ Loaded' /\ Importing' = Importing
<1>1. /\ StartSave(t, None)
      /\ listed' = {i \in listed : IdOf(i) # id}
      /\ on' = {i \in on : IdOf(i) # id}
      /\ running' = running \ {i \in listed : IdOf(i) = id}
  BY RemoveEffect
<1>2. Begin(t) /\ task[t].pc = "idle"
  BY DEF Remove, Begin
<1>3. Loaded
  BY <1>2, NoReload DEF Reloading, Reading
<1>4. listed' \subseteq Instance /\ OneEach(listed') /\ (\A i, j \in on' : i = j)
      /\ (\A u \in Task \ {t} : task[u].pc = "enable" => task[u].new \notin listed')
      /\ IdsOf(listed') \subseteq IdsOf(listed)
  BY <1>1 DEF IInv, TypeOK, CInv, Parts, Unique, OneEach, Enabling, IdsOf
<1>5. Parts' /\ Loaded' /\ Importing' = Importing
  BY <1>1, <1>2, <1>3, <1>4, SavingParts
<1>6. Listed'
  <2> SUFFICES ASSUME raced' = {} PROVE Listed'
    BY DEF Listed
  <2>1. raced = {} /\ \A u \in Task \ {t} : task[u].pc # "enable"
    BY <1>2 DEF Begin, Busy
  <2>2. running' \subseteq listed'
    BY <1>1, <2>1 DEF Listed
  <2>3. \A u \in Task : task'[u].pc # "enable"
    BY <1>1, <1>4, <2>1, StartSaveEffect DEF IInv
  <2>4. QED
    BY <2>2, <2>3 DEF Listed
<1>7. QED
  BY <1>3, <1>5, <1>6

LEMMA DisableParts ==
  ASSUME IInv, CInv, Listed, Clean, Clean', NEW t \in Task, NEW id \in Id, Disable(t, id)
  PROVE  Parts' /\ Listed' /\ Loaded /\ Loaded' /\ Importing' = Importing
<1>1. PICK i \in listed : /\ StartSave(t, None) /\ listed' = listed
                          /\ on' = on \ {i} /\ running' = running \ {i}
  BY DEF Disable
<1>2. Begin(t) /\ task[t].pc = "idle"
  BY DEF Disable, Begin
<1>3. Loaded
  BY <1>2, NoReload DEF Reloading, Reading
<1>4. listed' \subseteq Instance /\ OneEach(listed') /\ (\A j, k \in on' : j = k)
      /\ (\A u \in Task \ {t} : task[u].pc = "enable" => task[u].new \notin listed')
      /\ IdsOf(listed') \subseteq IdsOf(listed)
  BY <1>1 DEF IInv, TypeOK, CInv, Parts, Unique, OneEach, Enabling, IdsOf
<1>5. Parts' /\ Loaded' /\ Importing' = Importing
  BY <1>1, <1>2, <1>3, <1>4, SavingParts
<1>6. Listed'
  <2> SUFFICES ASSUME raced' = {} PROVE Listed'
    BY DEF Listed
  <2>1. raced = {} /\ \A u \in Task \ {t} : task[u].pc # "enable"
    BY <1>2 DEF Begin, Busy
  <2>2. running' \subseteq listed'
    BY <1>1, <2>1 DEF Listed
  <2>3. \A u \in Task : task'[u].pc # "enable"
    BY <1>1, <1>4, <2>1, StartSaveEffect DEF IInv
  <2>4. QED
    BY <2>2, <2>3 DEF Listed
<1>7. QED
  BY <1>3, <1>5, <1>6

LEMMA EnableParts ==
  ASSUME IInv, CInv, Listed, Clean, Clean', NEW t \in Task, NEW id \in Id, Enable(t, id)
  PROVE  Parts' /\ Listed' /\ Loaded /\ Loaded' /\ Importing' = Importing
<1>1. PICK i \in listed, n \in Free(id, listed \cup running) :
        /\ IdOf(i) = id
        /\ task' = [task EXCEPT ![t] = [Idle EXCEPT !.pc = "enable", !.src = i, !.new = n]]
  BY DEF Enable
<1>2. /\ task'[t].pc = "enable" /\ task'[t].src = i /\ task'[t].new = n
      /\ \A u \in Task \ {t} : task'[u] = task[u]
  BY <1>1 DEF IInv, TypeOK, Idle
<1>3. IdOf(n) = id /\ n \notin listed /\ \A u \in Task : task[u].pc = "enable" => n # task[u].new
  BY FreeIsNew
<1>4. Begin(t) /\ task[t].pc = "idle" /\ UNCHANGED <<listed, on, running, disk>>
  BY DEF Enable, Begin
<1>5. Loaded
  BY <1>4, NoReload DEF Reloading, Reading
<1>6. \A u \in Task : task'[u].pc \notin Reading /\ task'[u].pc # "restore"
  BY <1>2, <1>5 DEF Loaded, Reading
<1>7. Solo' /\ Loaded' /\ Fresh' /\ Halfway'
  BY <1>6 DEF Solo, Loaded, Fresh, Halfway, Reloading, Reading
<1>8. Unique'
  BY <1>4 DEF CInv, Parts, Unique
<1>9. Enabling'
  BY <1>1, <1>2, <1>3, <1>4 DEF CInv, Parts, Enabling
<1>10. Importing' = Importing
  BY <1>2, <1>4, ImportingKept
<1>11. ScriptsKnown'
  BY <1>4, <1>5, <1>10 DEF ScriptsKnown, CInv, Parts
<1>12. Listed'
  <2> SUFFICES ASSUME raced' = {} PROVE Listed'
    BY DEF Listed
  <2>1. raced = {} /\ \A u \in Task \ {t} : task[u].pc # "enable"
    BY <1>4 DEF Begin, Busy
  <2>2. QED
    BY <1>1, <1>2, <1>4, <2>1 DEF Listed
<1>13. QED
  BY <1>5, <1>7, <1>8, <1>9, <1>10, <1>11, <1>12 DEF Parts

LEMMA EnableDoneParts ==
  ASSUME IInv, CInv, Listed, Clean, Clean', NEW t \in Task, EnableDone(t)
  PROVE  Parts' /\ Listed' /\ Loaded /\ Loaded' /\ Importing' = Importing
<1> DEFINE src == task[t].src
           new == task[t].new
<1>1. /\ StartSave(t, None) /\ new \in Instance /\ new \notin listed /\ IdOf(src) = IdOf(new)
      /\ listed' = IF src \in listed THEN {i \in listed : IdOf(i) # IdOf(new)} \cup {new} ELSE listed
      /\ on' \subseteq listed' /\ (\A i, j \in on' : i = j)
      /\ running' = (running \ ({i \in listed : IdOf(i) # IdOf(new)} \cup {src})) \cup {new}
  BY EnableDoneEffect
<1>2. task[t].pc = "enable" /\ raced' = raced
  BY DEF EnableDone
<1>3. Loaded
  BY <1>2, NoReload DEF Reloading, Reading
<1>4. listed' \subseteq Instance /\ OneEach(listed')
      /\ \A u \in Task \ {t} : task[u].pc = "enable" => task[u].new \notin listed'
  BY <1>1, <1>2 DEF IInv, TypeOK, CInv, Parts, Unique, OneEach, Enabling
<1>5. IdsOf(listed') \subseteq IdsOf(listed)
  BY <1>1 DEF IdsOf
<1>6. Parts' /\ Loaded' /\ Importing' = Importing
  BY <1>1, <1>2, <1>3, <1>4, <1>5, SavingParts
<1>7. Listed'
  <2> SUFFICES ASSUME raced' = {} PROVE Listed'
    BY DEF Listed
  <2>1. /\ running \subseteq listed /\ src \in listed
        /\ \A u \in Task \ {t} : task[u].pc # "enable"
    BY <1>2 DEF Listed
  <2>2. \A i \in listed : IdOf(i) = IdOf(new) => i = src
    BY <1>1, <2>1 DEF CInv, Parts, Unique, OneEach
  <2>3. running' \subseteq listed'
    BY <1>1, <2>1, <2>2
  <2>4. \A u \in Task : task'[u].pc # "enable"
    BY <1>1, <1>4, <2>1, StartSaveEffect DEF IInv
  <2>5. QED
    BY <2>3, <2>4 DEF Listed
<1>8. QED
  BY <1>3, <1>6, <1>7

LEMMA EnableFailedParts ==
  ASSUME IInv, CInv, Listed, Clean, Clean', NEW t \in Task, EnableFailed(t)
  PROVE  Parts' /\ Listed' /\ Loaded /\ Loaded' /\ Importing' = Importing
<1>1. /\ StartSave(t, None) /\ on' = on \ {task[t].src} /\ listed' = listed /\ running' = running
      /\ task[t].pc = "enable" /\ raced' = raced
  BY DEF EnableFailed
<1>2. Loaded
  BY <1>1, NoReload DEF Reloading, Reading
<1>3. listed' \subseteq Instance /\ OneEach(listed') /\ (\A j, k \in on' : j = k)
      /\ (\A u \in Task \ {t} : task[u].pc = "enable" => task[u].new \notin listed')
      /\ IdsOf(listed') \subseteq IdsOf(listed)
  BY <1>1 DEF IInv, TypeOK, CInv, Parts, Unique, OneEach, Enabling, IdsOf
<1>4. Parts' /\ Loaded' /\ Importing' = Importing
  BY <1>1, <1>2, <1>3, SavingParts
<1>5. Listed'
  BY <1>1, <1>3, StartSaveEffect DEF Listed, IInv
<1>6. QED
  BY <1>2, <1>4, <1>5

\* A reload has the store for itself: it begins with every other call returned.
LEMMA ReadListParts ==
  ASSUME IInv, CInv, Listed, Clean, Clean', NEW t \in Task, ReadList(t)
  PROVE  Parts' /\ Listed' /\ Quiet /\ ~Loaded' /\ Importing' = {}
<1>1. task[t].pc = "idle" /\ UNCHANGED <<listed, on, running, disk>> /\ raced \subseteq raced'
  BY DEF ReadList
<1>2. \A u \in Task \ {t} : task[u].pc = "idle"
  BY DEF ReadList, Clean
<1>3. /\ task'[t].pc = "readScripts" /\ task'[t].list = disk.list
      /\ \A u \in Task \ {t} : task'[u] = task[u]
  BY DEF ReadList, IInv, TypeOK, Idle
<1>4. Quiet /\ ~Loaded' /\ Importing' = {}
  BY <1>1, <1>2, <1>3 DEF Quiet, Loaded, Reading, Importing
<1>5. Solo' /\ Enabling' /\ Halfway' /\ ScriptsKnown'
  BY <1>2, <1>3, <1>4 DEF Solo, Enabling, Halfway, ScriptsKnown, Reloading, Reading
<1>6. Fresh'
  BY <1>1, <1>2, <1>3 DEF Fresh, Reading
<1>7. Unique'
  BY <1>1 DEF CInv, Parts, Unique
<1>8. Listed'
  BY <1>1, <1>2, <1>3 DEF Listed
<1>9. QED
  BY <1>4, <1>5, <1>6, <1>7, <1>8 DEF Parts

LEMMA ReadScriptsParts ==
  ASSUME IInv, CInv, Listed, Clean, NEW t \in Task, ReadScripts(t)
  PROVE  Parts' /\ Listed' /\ ~Loaded /\ ~Loaded' /\ Importing = {} /\ Importing' = {}
<1>1. task[t].pc = "readScripts" /\ UNCHANGED <<listed, on, running, disk, raced>>
  BY DEF ReadScripts
<1>2. \A u \in Task \ {t} : task[u].pc = "idle"
  BY <1>1 DEF CInv, Parts, Solo, Reloading, Reading
<1>3. /\ task'[t].pc = "readActive" /\ task'[t].list = disk.list /\ task'[t].scripts = disk.scripts
      /\ \A u \in Task \ {t} : task'[u] = task[u]
  <2>1. task[t].list = disk.list
    BY <1>1 DEF CInv, Parts, Fresh, Reading
  <2>2. QED
    BY <2>1 DEF ReadScripts, IInv, TypeOK, Call
<1>4. ~Loaded /\ ~Loaded' /\ Importing = {} /\ Importing' = {}
  BY <1>1, <1>2, <1>3 DEF Loaded, Reading, Importing
<1>5. Solo' /\ Enabling' /\ Halfway' /\ ScriptsKnown'
  BY <1>2, <1>3, <1>4 DEF Solo, Enabling, Halfway, ScriptsKnown, Reloading, Reading
<1>6. Fresh'
  BY <1>1, <1>2, <1>3 DEF Fresh, Reading
<1>7. Unique'
  BY <1>1 DEF CInv, Parts, Unique
<1>8. Listed'
  BY <1>1, <1>2, <1>3 DEF Listed
<1>9. QED
  BY <1>4, <1>5, <1>6, <1>7, <1>8 DEF Parts

\* The loop keeps the ids a restart would restore, and ends with all of them listed.
LEMMA RestoreParts ==
  ASSUME IInv, CInv, Clean, NEW t \in Task, \A u \in Task \ {t} : task[u].pc = "idle",
         task[t].pc # "saveList", NEW l \in SUBSET Instance, NEW rest \in SUBSET Entry,
         NEW active \in Id \cup {None}, OneEach(l), OneEntryEach(rest),
         IdsOf(l) \cap IdsOfEntries(rest) = {}, IdsOf(l) \cup IdsOfEntries(rest) = Restored,
         on' \subseteq l, \A i, j \in on' : i = j, active \in IdsOfEntries(rest) => on' = {},
         raced = {} => running' \subseteq l, raced' = raced, RestoreFrom(t, l, rest, active)
  PROVE  /\ Parts' /\ Listed' /\ Importing' = {} /\ Restored' = Restored
         /\ Loaded' => IdsOf(listed') = Restored
<1>1. listed' \subseteq Instance /\ OneEach(listed') /\ l \subseteq listed'
  BY RestoreEffect
<1>2. ASSUME active \notin IdsOfEntries(rest), StartSave(t, None),
             IdsOf(listed') = IdsOf(l) \cup IdsOfEntries(rest)
      PROVE  /\ Parts' /\ Listed' /\ Importing' = {} /\ Restored' = Restored
             /\ IdsOf(listed') = Restored
  <2>1. Solo' /\ Unique' /\ Enabling' /\ Fresh' /\ Halfway' /\ Loaded'
    BY <1>1, <1>2, SaveBegun DEF Reloading, Reading
  <2>2. /\ disk'.list = Entries(listed', on') /\ disk'.scripts = disk.scripts
        /\ task'[t].pc = "saveList" /\ task'[t].new = None
        /\ \A u \in Task \ {t} : task'[u] = task[u]
    BY <1>1, <1>2, StartSaveEffect DEF StartSave, IInv, TypeOK, Disk, Idle
  <2>3. Restored \subseteq disk.scripts
    BY DEF Restored, Restorable
  <2>4. Restored' = Restored
    <3>1. IdsOfEntries(disk'.list) = Restored
      BY <1>1, <1>2, <2>2, EntriesIds
    <3>2. Restored' = IdsOfEntries(disk'.list) \cap disk'.scripts
      BY DEF Restored, Restorable, IdsOfEntries
    <3>3. QED
      BY <2>2, <2>3, <3>1, <3>2
  <2>5. Importing' = {}
    BY <2>2, RegistryAssumption, OfId DEF Importing
  <2>6. ScriptsKnown'
    BY <1>2, <2>2, <2>3 DEF ScriptsKnown
  <2>7. Listed'
    BY <1>1, <2>2 DEF Listed
  <2>8. QED
    BY <1>2, <2>1, <2>4, <2>5, <2>6, <2>7 DEF Parts
<1>3. ASSUME NEW n \in Instance, NEW more \in SUBSET rest, Awaiting(t, l, rest, active, n, more)
      PROVE  Parts' /\ Listed' /\ Importing' = {} /\ Restored' = Restored /\ ~Loaded'
  <2> USE <1>3 DEF Awaiting
  <2>1. /\ task'[t].pc = "restore" /\ task'[t].new = n /\ task'[t].list = more
        /\ \A u \in Task \ {t} : task'[u] = task[u]
    BY <1>3 DEF IInv, TypeOK, Idle
  <2>2. ~Loaded' /\ Importing' = {} /\ Restored' = Restored
    BY <1>3, <2>1 DEF Loaded, Importing, Restored
  <2>3. Solo' /\ Enabling' /\ ScriptsKnown' /\ Fresh'
    BY <2>1, <2>2 DEF Solo, Enabling, ScriptsKnown, Fresh, Reloading, Reading
  <2>4. Unique'
    BY <1>1, <1>3 DEF CInv, Parts, Unique
  <2>5. on' = {}
    <3>1. active \in IdsOfEntries(rest) \/ active \in IdsOf(l)
      BY <1>3
    <3>2. IdsOf(l) \subseteq IdsOf(listed')
      BY <1>1 DEF IdsOf
    <3>3. QED
      BY <1>3, <3>1, <3>2
  <2>6. OneEntryEach(more)
    BY DEF OneEntryEach
  <2>7. Halfway'
    BY <1>3, <2>1, <2>2, <2>5, <2>6 DEF Halfway
  <2>8. Listed'
    BY <1>1, <2>1 DEF Listed
  <2>9. QED
    BY <2>2, <2>3, <2>4, <2>7, <2>8 DEF Parts
<1>4. QED
  BY <1>2, <1>3, RestoreEffect DEF Ended

LEMMA ReadActiveParts ==
  ASSUME IInv, CInv, Listed, Clean, NEW t \in Task, ReadActive(t)
  PROVE  /\ Parts' /\ Listed' /\ ~Loaded /\ Importing = {} /\ Importing' = {} /\ Restored' = Restored
         /\ Loaded' => IdsOf(listed') = Restored
<1> DEFINE rest == Restorable(disk.list, disk.scripts)
<1>1. /\ task[t].pc = "readActive" /\ on' = {} /\ running' = running \ listed /\ raced' = raced
      /\ task[t].list = disk.list /\ task[t].scripts = disk.scripts
  BY DEF ReadActive, CInv, Parts, Fresh, Reading
<1>2. \A u \in Task \ {t} : task[u].pc = "idle"
  BY <1>1 DEF CInv, Parts, Solo, Reloading, Reading
<1>3. disk.list \in SUBSET Entry /\ disk.scripts \in SUBSET Id /\ disk.active \in Id \cup {None}
  BY DEF IInv, TypeOK, Disk
<1>4. PICK a \in Choices(disk.list, disk.scripts, disk.active) : RestoreFrom(t, {}, rest, a)
  BY <1>1 DEF ReadActive
<1>5. a \in Id \cup {None} /\ rest \in SUBSET Entry /\ rest \subseteq disk.list
  BY <1>3, <1>4, ChoicesType
<1>6. OneEntryEach(rest) /\ OneEach({})
  BY <1>5 DEF CInv, Parts, Unique, OneEntryEach, OneEach
<1>7. IdsOfEntries(rest) = Restored /\ IdsOf({}) = {}
  BY DEF Restored, IdsOfEntries, IdsOf
<1>8. raced = {} => running' \subseteq {}
  BY <1>1 DEF Listed
<1>9. ~Loaded /\ Importing = {}
  BY <1>1, <1>2 DEF Loaded, Importing, Reading
<1>10. QED
  <2> HIDE DEF rest
  <2>1. {} \in SUBSET Instance /\ on' \subseteq {} /\ (\A i, j \in on' : i = j)
        /\ task[t].pc # "saveList"
        /\ IdsOf({}) \cap IdsOfEntries(rest) = {} /\ IdsOf({}) \cup IdsOfEntries(rest) = Restored
    BY <1>1, <1>7
  <2>2. QED
    BY <1>1, <1>2, <1>4, <1>5, <1>6, <1>8, <1>9, <2>1, RestoreParts

\* Where the loop goes on from, once the sandbox it awaited has answered.
LEMMA HalfwayOn ==
  ASSUME IInv, CInv, Clean, NEW t \in Task, task[t].pc = "restore"
  PROVE  /\ \A u \in Task \ {t} : task[u].pc = "idle"
         /\ on = {} /\ ~Loaded /\ Importing = {}
         /\ task[t].new \in Instance /\ task[t].list \in SUBSET Entry
         /\ listed \cup {task[t].new} \in SUBSET Instance
         /\ OneEach(listed \cup {task[t].new}) /\ OneEntryEach(task[t].list)
         /\ IdOf(task[t].new) \notin IdsOfEntries(task[t].list)
         /\ IdsOf(listed \cup {task[t].new}) \cap IdsOfEntries(task[t].list) = {}
         /\ IdsOf(listed \cup {task[t].new}) \cup IdsOfEntries(task[t].list) = Restored
<1>1. \A u \in Task \ {t} : task[u].pc = "idle"
  BY DEF CInv, Parts, Solo, Reloading, Reading
<1>2. ~Loaded /\ Importing = {}
  BY <1>1 DEF Loaded, Importing, Reading
<1>3. /\ task[t].new \in Instance /\ task[t].list \in SUBSET Entry
      /\ listed \cup {task[t].new} \in SUBSET Instance
  BY DEF IInv, Awaits, TypeOK, Call
<1>4. /\ on = {} /\ OneEntryEach(task[t].list)
      /\ IdOf(task[t].new) \notin IdsOf(listed) \cup IdsOfEntries(task[t].list)
      /\ IdsOf(listed) \cap IdsOfEntries(task[t].list) = {}
      /\ IdsOf(listed) \cup {IdOf(task[t].new)} \cup IdsOfEntries(task[t].list) = Restored
  BY DEF CInv, Parts, Halfway
<1>5. IdsOf(listed \cup {task[t].new}) = IdsOf(listed) \cup {IdOf(task[t].new)}
  BY DEF IdsOf
<1>6. OneEach(listed \cup {task[t].new})
  BY <1>4 DEF CInv, Parts, Unique, OneEach, IdsOf
<1>7. QED
  BY <1>1, <1>2, <1>3, <1>4, <1>5, <1>6

LEMMA RestoreDoneParts ==
  ASSUME IInv, CInv, Listed, Clean, NEW t \in Task, RestoreDone(t)
  PROVE  /\ Parts' /\ Listed' /\ ~Loaded /\ Importing = {} /\ Importing' = {} /\ Restored' = Restored
         /\ Loaded' => IdsOf(listed') = Restored
<1> DEFINE new == task[t].new
           l == listed \cup {new}
<1>1. /\ task[t].pc = "restore" /\ on' = on \cup {new} /\ running' = running \cup {new}
      /\ raced' = raced /\ RestoreFrom(t, l, task[t].list, IdOf(new))
  BY DEF RestoreDone
<1>2. raced = {} => running' \subseteq l
  BY <1>1 DEF Listed
<1>3. on' = {new} /\ on' \subseteq l /\ (\A i, j \in on' : i = j) /\ task[t].pc # "saveList"
  BY <1>1, HalfwayOn
<1>4. IdOf(new) \in Id \cup {None} /\ IdOf(new) \notin IdsOfEntries(task[t].list)
  BY <1>1, HalfwayOn, IdType
<1>5. QED
  BY <1>1, <1>2, <1>3, <1>4, HalfwayOn, RestoreParts

LEMMA RestoreFailedParts ==
  ASSUME IInv, CInv, Listed, Clean, NEW t \in Task, RestoreFailed(t)
  PROVE  /\ Parts' /\ Listed' /\ ~Loaded /\ Importing = {} /\ Importing' = {} /\ Restored' = Restored
         /\ Loaded' => IdsOf(listed') = Restored
<1> DEFINE new == task[t].new
           l == listed \cup {new}
<1>1. /\ task[t].pc = "restore" /\ on' = on /\ running' = running
      /\ raced' = raced /\ RestoreFrom(t, l, task[t].list, None)
  BY DEF RestoreFailed
<1>2. raced = {} => running' \subseteq l
  BY <1>1 DEF Listed
<1>3. on' = {} /\ on' \subseteq l /\ (\A i, j \in on' : i = j) /\ task[t].pc # "saveList"
  BY <1>1, HalfwayOn
<1>4. /\ \A u \in Task \ {t} : task[u].pc = "idle"
      /\ ~Loaded /\ Importing = {}
      /\ task[t].list \in SUBSET Entry /\ l \in SUBSET Instance
      /\ OneEach(l) /\ OneEntryEach(task[t].list)
      /\ IdsOf(l) \cap IdsOfEntries(task[t].list) = {}
      /\ IdsOf(l) \cup IdsOfEntries(task[t].list) = Restored
  BY <1>1, HalfwayOn
<1>5. None \in Id \cup {None} /\ (None \in IdsOfEntries(task[t].list) => on' = {})
  BY <1>3
<1>6. QED
  <2> HIDE DEF l
  <2>1. QED
    BY <1>1, <1>2, <1>3, <1>4, <1>5, RestoreParts

\* The app that starts again reloads, and nothing else is under way.
LEMMA RestartParts ==
  ASSUME IInv, CInv, Clean, Restart
  PROVE  /\ Parts' /\ Listed' /\ ~Loaded' /\ Importing' = {} /\ Restored' = Restored
<1>1. /\ task'[Boot].pc = "readScripts" /\ task'[Boot].list = disk.list
      /\ \A u \in Task \ {Boot} : task'[u].pc = "idle"
  BY RegistryAssumption DEF Restart, Idle
<1>2. ~Loaded' /\ Importing' = {} /\ Restored' = Restored
  BY <1>1, RegistryAssumption DEF Restart, Loaded, Importing, Reading, Restored
<1>3. Solo' /\ Enabling' /\ Halfway' /\ ScriptsKnown'
  BY <1>1, <1>2 DEF Solo, Enabling, Halfway, ScriptsKnown, Reloading, Reading
<1>4. Fresh'
  BY <1>1 DEF Fresh, Restart, Reading
<1>5. Unique'
  BY DEF Restart, CInv, Parts, Unique, OneEach
<1>6. Listed'
  BY <1>1 DEF Restart, Listed
<1>7. QED
  BY <1>2, <1>3, <1>4, <1>5, <1>6 DEF Parts

\* What has raced stays so.
LEMMA RacedGrows == ASSUME [Next]_vars PROVE raced \subseteq raced'
<1>1. ASSUME NEW t \in Task, Begin(t) PROVE raced \subseteq raced'
  BY <1>1 DEF Begin
<1>2. ASSUME NEW t \in Task, User(t) PROVE raced \subseteq raced'
  BY <1>1, <1>2 DEF User, Import, Remove, Disable, Enable
<1>3. ASSUME NEW t \in Task, Save(t) \/ Toggled(t) PROVE raced \subseteq raced'
  BY <1>3 DEF Save, SaveScripts, SaveActive, Return, Toggled, EnableDone, EnableFailed
<1>4. ASSUME NEW t \in Task, Reload(t) PROVE raced \subseteq raced'
  BY <1>4 DEF Reload, ReadList, ReadScripts, ReadActive, RestoreDone, RestoreFailed
<1>5. QED
  BY <1>2, <1>3, <1>4 DEF Next, Restart, vars

LEMMA InitContract == Init => CInv /\ Listed
<1> SUFFICES ASSUME Init PROVE CInv /\ Listed
  OBVIOUS
<1>1. \A t \in Task : task[t].pc = "idle"
  BY DEF Init, Idle
<1>2. Solo /\ Enabling /\ Fresh /\ Halfway
  BY <1>1 DEF Solo, Enabling, Fresh, Halfway, Reloading, Reading
<1>3. Unique /\ ScriptsKnown
  BY DEF Init, Unique, OneEach, OneEntryEach, ScriptsKnown, IdsOf
<1>4. Listed
  BY <1>1 DEF Listed, Init
<1>5. QED
  BY <1>2, <1>3, <1>4 DEF CInv, Parts

LEMMA NextContract == IInv /\ CInv /\ Listed /\ [Next]_vars => CInv' /\ Listed'
<1> SUFFICES ASSUME IInv, CInv, Listed, [Next]_vars PROVE CInv' /\ Listed'
  OBVIOUS
<1>1. CASE ~Clean'
  BY <1>1 DEF CInv, Listed, Clean
<1>2. CASE Clean'
  <2>1. Clean
    BY <1>2, RacedGrows DEF Clean
  <2>2. CASE UNCHANGED vars
    <3>1. Restored' = Restored /\ Importing' = Importing /\ (Loaded' <=> Loaded)
      BY <2>2 DEF vars, Restored, Importing, Loaded
    <3>2. Solo' /\ Unique' /\ Enabling' /\ Fresh'
      BY <2>1, <2>2 DEF vars, CInv, Parts, Solo, Unique, Enabling, Fresh
    <3>3. Halfway' /\ ScriptsKnown'
      BY <2>1, <2>2, <3>1 DEF vars, CInv, Parts, Halfway, ScriptsKnown
    <3>4. Listed'
      BY <2>2 DEF vars, Listed
    <3>5. QED
      BY <3>2, <3>3, <3>4 DEF CInv, Parts
  <2>3. CASE Restart
    BY <2>1, <2>3, RestartParts DEF CInv
  <2>4. ASSUME NEW t \in Task, Save(t) \/ User(t) PROVE CInv' /\ Listed'
    BY <1>2, <2>1, <2>4, SaveParts, ImportParts, RemoveParts, DisableParts, EnableParts DEF User, CInv
  <2>5. ASSUME NEW t \in Task, Toggled(t) \/ Reload(t) PROVE CInv' /\ Listed'
    BY <1>2, <2>1, <2>5, EnableDoneParts, EnableFailedParts, ReadListParts, ReadScriptsParts,
       ReadActiveParts, RestoreDoneParts, RestoreFailedParts DEF Toggled, Reload, CInv
  <2>6. QED
    BY <2>2, <2>3, <2>4, <2>5 DEF Next
<1>3. QED
  BY <1>1, <1>2

LEMMA ContractInductive == Spec => [](IInv /\ CInv /\ Listed)
<1>1. Init => IInv /\ CInv /\ Listed
  BY InitInv, InitContract
<1>2. (IInv /\ CInv /\ Listed) /\ [Next]_vars => (IInv /\ CInv /\ Listed)'
  BY NextInv, NextContract
<1>3. QED
  BY <1>1, <1>2, PTL DEF Spec

-----------------------------------------------------------------------------
(* What a restart would restore *)

\* While no call reloads, that is what is listed and has its script stored.
LEMMA RestoredIs == IInv /\ Loaded => Restored = IdsOf(listed) \cap disk.scripts
<1> SUFFICES ASSUME IInv, Loaded PROVE Restored = IdsOf(listed) \cap disk.scripts
  OBVIOUS
<1>1. disk.list = Entries(listed, on)
  BY DEF IInv, ListSaved, Loaded, Reloading
<1>2. IdsOfEntries(disk.list) = IdsOf(listed)
  BY <1>1, EntriesIds DEF IInv, TypeOK
<1>3. Restored = IdsOfEntries(disk.list) \cap disk.scripts
  BY DEF Restored, Restorable, IdsOfEntries
<1>4. QED
  BY <1>2, <1>3

\* Steps that keep what they find.
LEMMA RestoredGrows ==
  ASSUME IInv, IInv', Loaded, Loaded',
         IdsOf(listed) \cap disk.scripts \subseteq IdsOf(listed') \cap disk'.scripts
  PROVE  Restored \subseteq Restored'
<1>1. Restored = IdsOf(listed) \cap disk.scripts
  BY RestoredIs
<1>2. (IInv /\ Loaded => Restored = IdsOf(listed) \cap disk.scripts)'
  BY RestoredIs, PTL
<1>3. QED
  BY <1>1, <1>2

\* What each of the steps that neither read nor restore does to the ids listed.
LEMMA IdsListed ==
  ASSUME IInv, CInv, Listed, Clean, NEW t \in Task
  PROVE  /\ Save(t) => IdsOf(listed') = IdsOf(listed) /\ disk.scripts \cap IdsOf(listed) \subseteq disk'.scripts
         /\ \A id \in Id : Import(t, id) => IdsOf(listed') = IdsOf(listed) \cup {id} /\ disk'.scripts = disk.scripts
         /\ \A id \in Id : Remove(t, id) => IdsOf(listed') = IdsOf(listed) \ {id} /\ disk'.scripts = disk.scripts
         /\ \A id \in Id : Disable(t, id) \/ Enable(t, id)
              => IdsOf(listed') = IdsOf(listed) /\ disk'.scripts = disk.scripts
         /\ Toggled(t) => IdsOf(listed') = IdsOf(listed) /\ disk'.scripts = disk.scripts
<1> DEFINE Kept == disk'.scripts = disk.scripts
<1>0. ASSUME NEW about, StartSave(t, about) PROVE Kept
  BY <1>0 DEF StartSave, IInv, TypeOK, Disk
<1>1. ASSUME Save(t)
      PROVE  IdsOf(listed') = IdsOf(listed) /\ disk.scripts \cap IdsOf(listed) \subseteq disk'.scripts
  BY <1>1 DEF Save, SaveScripts, SaveActive, Return, IInv, TypeOK, Disk
<1>2. ASSUME NEW id \in Id, Import(t, id) PROVE IdsOf(listed') = IdsOf(listed) \cup {id} /\ Kept
  <2>1. PICK n \in Instance : /\ IdOf(n) = id /\ StartSave(t, n)
                              /\ listed' = {i \in listed : IdOf(i) # id} \cup {n}
    BY <1>2, ImportEffect
  <2>2. QED
    BY <1>0, <2>1 DEF IdsOf
<1>3. ASSUME NEW id \in Id, Remove(t, id) PROVE IdsOf(listed') = IdsOf(listed) \ {id} /\ Kept
  <2>1. listed' = {i \in listed : IdOf(i) # id} /\ StartSave(t, None)
    BY <1>3, RemoveEffect
  <2>2. QED
    BY <1>0, <2>1 DEF IdsOf
<1>4. ASSUME NEW id \in Id, Disable(t, id) \/ Enable(t, id) PROVE IdsOf(listed') = IdsOf(listed) /\ Kept
  BY <1>0, <1>4 DEF Disable, Enable
<1>5. ASSUME EnableDone(t) PROVE IdsOf(listed') = IdsOf(listed) /\ Kept
  <2>1. /\ StartSave(t, None) /\ IdOf(task[t].src) = IdOf(task[t].new)
        /\ listed' = IF task[t].src \in listed
                     THEN {i \in listed : IdOf(i) # IdOf(task[t].new)} \cup {task[t].new}
                     ELSE listed
    BY <1>5, EnableDoneEffect
  <2>2. QED
    BY <1>0, <2>1 DEF IdsOf
<1>6. ASSUME EnableFailed(t) PROVE IdsOf(listed') = IdsOf(listed) /\ Kept
  BY <1>0, <1>6 DEF EnableFailed
<1>7. QED
  BY <1>1, <1>2, <1>3, <1>4, <1>5, <1>6 DEF Toggled

LEMMA SurviveStep ==
  IInv /\ CInv /\ Listed /\ IInv' /\ [Next]_vars
    => ["reload" \notin raced' =>
          \A id \in Restored \ Restored' : \E t \in Task : Remove(t, id)]_vars
<1> SUFFICES ASSUME IInv, CInv, Listed, IInv', Next, Clean', NEW id \in Restored \ Restored'
             PROVE  \E t \in Task : Remove(t, id)
  BY DEF Clean
<1>1. Clean
  BY RacedGrows DEF Clean
<1>2. ~(Restored \subseteq Restored')
  OBVIOUS
<1>3. ~Restart
  BY <1>1, <1>2, RestartParts
<1>4. PICK t \in Task : Save(t) \/ User(t) \/ Toggled(t) \/ Reload(t)
  BY <1>3 DEF Next
<1>5. CASE Save(t)
  <2>1. Loaded /\ Loaded'
    BY <1>1, <1>5, SaveParts
  <2>2. QED
    BY <1>1, <1>2, <1>5, <2>1, IdsListed, RestoredGrows
<1>6. CASE User(t)
  <2>1. PICK x \in Id : Import(t, x) \/ Remove(t, x) \/ Disable(t, x) \/ Enable(t, x)
    BY <1>6 DEF User
  <2>2. Loaded /\ Loaded'
    BY <1>1, <2>1, ImportParts, RemoveParts, DisableParts, EnableParts
  <2>3. Remove(t, x)
    <3>1. ASSUME Import(t, x) \/ Disable(t, x) \/ Enable(t, x)
          PROVE  IdsOf(listed) \subseteq IdsOf(listed') /\ disk'.scripts = disk.scripts
      BY <1>1, <3>1, IdsListed
    <3>2. QED
      BY <1>2, <2>1, <2>2, <3>1, RestoredGrows
  <2>4. id = x
    <3>1. Restored = IdsOf(listed) \cap disk.scripts
      BY <2>2, RestoredIs
    <3>2. (IInv /\ Loaded => Restored = IdsOf(listed) \cap disk.scripts)'
      BY RestoredIs, PTL
    <3>3. IdsOf(listed') = IdsOf(listed) \ {x} /\ disk'.scripts = disk.scripts
      BY <1>1, <2>3, IdsListed
    <3>4. QED
      BY <2>2, <3>1, <3>2, <3>3
  <2>5. QED
    BY <2>3, <2>4
<1>7. CASE Toggled(t)
  <2>1. Loaded /\ Loaded'
    BY <1>1, <1>7, EnableDoneParts, EnableFailedParts DEF Toggled
  <2>2. QED
    BY <1>1, <1>2, <1>7, <2>1, IdsListed, RestoredGrows
<1>8. CASE Reload(t)
  <2>1. ASSUME ReadList(t) \/ ReadScripts(t) PROVE Restored' = Restored
    BY <2>1 DEF ReadList, ReadScripts, Restored
  <2>2. ASSUME ReadActive(t) \/ RestoreDone(t) \/ RestoreFailed(t) PROVE Restored' = Restored
    BY <1>1, <2>2, ReadActiveParts, RestoreDoneParts, RestoreFailedParts
  <2>3. QED
    BY <1>2, <1>8, <2>1, <2>2 DEF Reload
<1>9. QED
  BY <1>4, <1>5, <1>6, <1>7, <1>8

-----------------------------------------------------------------------------
(* The theorems about the list and the store *)

\* Script sources exclude each other and none is listed twice, whatever calls
\* overlap, until one runs into a reload (SourceManager.toggleSource,
\* registerJSSource, reloadJSSources).
THEOREM SelectionCorrect == Spec => []SingleSelection
<1>1. IInv /\ CInv /\ Listed => SingleSelection
  BY DEF SingleSelection, CInv, Clean, Parts, Unique, OneEach
<1>2. QED
  BY ContractInductive, <1>1, PTL

\* No sandbox runs on without an object in the list that can destroy it, until a
\* call runs into another that awaits a sandbox (SourceManager.toggleSource).
THEOREM OrphansCorrect == Spec => []NoOrphanSandbox
<1>1. IInv /\ CInv /\ Listed => NoOrphanSandbox
  BY DEF NoOrphanSandbox, Listed
<1>2. QED
  BY ContractInductive, <1>1, PTL

\* A source that a restart would bring back is lost only to the user's removal:
\* no crash between the awaited writes of save and no sandbox that fails to start
\* loses it (SourceManager.save, reloadJSSources).
THEOREM SurviveCorrect == Spec => SourcesSurvive
BY SurviveStep, ContractInductive, PTL DEF Spec, SourcesSurvive

-----------------------------------------------------------------------------
(* SourceRegistry implements SourceSelection *)

LEMMA ActiveIs ==
  CInv /\ Clean => /\ \A i \in on : Loaded => Active = IdOf(i)
                   /\ on = {} \/ ~Loaded => Active = None
<1> SUFFICES ASSUME CInv, Clean
             PROVE  /\ \A i \in on : Loaded => Active = IdOf(i)
                    /\ on = {} \/ ~Loaded => Active = None
  OBVIOUS
<1>1. ASSUME NEW i \in on PROVE i = CHOOSE j \in on : TRUE
  BY <1>1 DEF CInv, Parts, Unique
<1>2. QED
  BY <1>1 DEF Active

LEMMA KnownIs == /\ Loaded => Known = IdsOf(listed)
                 /\ ~Loaded => Known = Restored
BY DEF Known

\* The source that resolves songs, when the list changes.
LEMMA ActiveThen ==
  ASSUME IInv, CInv, CInv', Clean, Clean', Loaded, Loaded', NEW id \in Id
  PROVE  /\ on' = on => Active' = Active
         /\ on' = {i \in on : IdOf(i) # id} => Active' = IF Active = id THEN None ELSE Active
         /\ \A i \in Instance : on' = {i} => Active' = IdOf(i)
         /\ \A i : on' = on \ {i} => Active' = Active \/ (i \in on /\ Active = IdOf(i) /\ Active' = None)
<1>1. (CInv /\ Clean => /\ \A i \in on : Loaded => Active = IdOf(i)
                        /\ on = {} \/ ~Loaded => Active = None)'
  BY ActiveIs, PTL
<1>2. /\ \A i \in on : Active = IdOf(i)
      /\ on = {} => Active = None
      /\ \A i \in on' : Active' = IdOf(i)
      /\ on' = {} => Active' = None
  BY <1>1, ActiveIs
<1>3. \A i, j \in on : i = j
  BY DEF CInv, Parts, Unique
<1>4. None # id
  BY RegistryAssumption
<1>5. QED
  BY <1>2, <1>3, <1>4

\* A step of the contract while nothing has raced.
LEMMA ContractNext ==
  /\ raced' # {} => Contract!Next
  /\ raced = {} /\ raced' = {} /\ Contract!Step => Contract!Next
BY DEF Contract!Next

LEMMA InitRefines == Init => Contract!Init
<1> SUFFICES ASSUME Init PROVE Contract!Init
  OBVIOUS
<1>1. \A t \in Task : task[t].pc = "idle"
  BY DEF Init, Idle
<1>2. Loaded /\ Importing = {}
  BY <1>1 DEF Loaded, Importing, Reading
<1>3. Known = {} /\ Active = None
  BY <1>2 DEF Init, Known, Active, IdsOf
<1>4. QED
  BY <1>2, <1>3 DEF Contract!Init, Init

\* The operations on a list that is loaded.
LEMMA SaveRefines ==
  ASSUME IInv, CInv, Listed, CInv', Clean, Clean', NEW t \in Task, Save(t)
  PROVE  Contract!Stored
<1>1. Loaded /\ Loaded'
  BY SaveParts
<1>2. UNCHANGED <<listed, on>>
  BY DEF Save, SaveScripts, SaveActive, Return
<1>3. /\ task'[t].pc # "saveList"
      /\ \A u \in Task \ {t} : task'[u] = task[u]
  BY DEF Save, SaveScripts, SaveActive, Return, IInv, TypeOK, Idle, Call
<1>4. Importing' \subseteq Importing
  BY <1>3 DEF Importing
<1>5. Known' = Known /\ Active' = Active
  BY <1>1, <1>2 DEF Known, Active
<1>6. QED
  BY <1>1, <1>4, <1>5 DEF Contract!Stored

LEMMA UserRefines ==
  ASSUME IInv, CInv, Listed, CInv', Clean, Clean', NEW t \in Task, User(t)
  PROVE  Contract!Step
<1>1. PICK id \in Id : Import(t, id) \/ Remove(t, id) \/ Disable(t, id) \/ Enable(t, id)
  BY DEF User
<1>2. Loaded /\ Loaded'
  BY <1>1, ImportParts, RemoveParts, DisableParts, EnableParts
<1>3. Known = IdsOf(listed) /\ Known' = IdsOf(listed')
  BY <1>2 DEF Known
<1>4. CASE Import(t, id)
  <2>1. PICK n \in Instance : /\ IdOf(n) = id /\ StartSave(t, n)
                              /\ on' = {i \in on : IdOf(i) # id}
    BY <1>4, ImportEffect
  <2>2. task[t].pc # "saveList"
    BY <1>4 DEF Import, Begin
  <2>3. \A x \in Id : x \in Importing' <=> x \in Importing \/ x = id
    BY <2>1, <2>2, ImportingThen DEF IInv
  <2>4. Importing' = Importing \cup {id}
    BY <2>3 DEF Importing
  <2>5. Active' = IF Active = id THEN None ELSE Active
    BY <1>2, <2>1, ActiveThen
  <2>6. Known' = Known \cup {id}
    BY <1>3, <1>4, IdsListed
  <2>7. Contract!Import(id)
    BY <1>2, <2>4, <2>5, <2>6 DEF Contract!Import
  <2>8. QED
    BY <2>7 DEF Contract!Step
<1>5. CASE Remove(t, id)
  <2>1. id \in Known /\ on' = {i \in on : IdOf(i) # id}
    BY <1>3, <1>5, RemoveEffect
  <2>2. Active' = IF Active = id THEN None ELSE Active
    BY <1>2, <2>1, ActiveThen
  <2>3. Known' = Known \ {id} /\ Importing' = Importing
    BY <1>3, <1>5, IdsListed, RemoveParts
  <2>4. Contract!Remove(id)
    BY <1>2, <2>1, <2>2, <2>3 DEF Contract!Remove
  <2>5. QED
    BY <2>4 DEF Contract!Step
<1>6. CASE Disable(t, id)
  <2>1. PICK i \in listed : IdOf(i) = id /\ on' = on \ {i}
    BY <1>6 DEF Disable
  <2>2. Active' = Active \/ (Active = id /\ Active' = None)
    BY <1>2, <2>1, ActiveThen
  <2>3. Known' = Known /\ Importing' = Importing
    BY <1>3, <1>6, IdsListed, DisableParts
  <2>4. Contract!Stored \/ Contract!Deselect(id)
    BY <1>2, <2>2, <2>3 DEF Contract!Stored, Contract!Deselect
  <2>5. QED
    BY <2>4 DEF Contract!Step
<1>7. CASE Enable(t, id)
  <2>1. Active' = Active
    BY <1>2, <1>7, ActiveThen DEF Enable
  <2>2. Known' = Known /\ Importing' = Importing
    BY <1>3, <1>7, IdsListed, EnableParts
  <2>3. Contract!Stored
    BY <1>2, <2>1, <2>2 DEF Contract!Stored
  <2>4. QED
    BY <2>3 DEF Contract!Step
<1>8. QED
  BY <1>1, <1>4, <1>5, <1>6, <1>7

LEMMA ToggledRefines ==
  ASSUME IInv, CInv, Listed, CInv', raced = {}, raced' = {}, NEW t \in Task, Toggled(t)
  PROVE  Contract!Step
<1>1. Clean /\ Clean'
  BY DEF Clean
<1>2. Loaded /\ Loaded' /\ Importing' = Importing
  BY <1>1, EnableDoneParts, EnableFailedParts DEF Toggled
<1>3. Known' = Known
  BY <1>1, <1>2, IdsListed DEF Known
<1>4. CASE EnableDone(t)
  <2>1. task[t].src \in listed
    BY <1>4 DEF EnableDone, Listed
  <2>2. /\ task[t].new \in Instance /\ IdOf(task[t].src) = IdOf(task[t].new)
        /\ on' = {task[t].new}
    BY <1>1, <1>4, <2>1, EnableDoneEffect
  <2> DEFINE id == IdOf(task[t].new)
  <2>3. id \in Id /\ id \in Known
    BY <1>2, <2>1, <2>2, IdType DEF Known, IdsOf
  <2>4. Active' = id
    BY <1>1, <1>2, <2>2, <2>3, ActiveThen
  <2>5. Contract!Select(id)
    BY <1>2, <1>3, <2>3, <2>4 DEF Contract!Select
  <2>6. QED
    BY <2>3, <2>5 DEF Contract!Step
<1>5. CASE EnableFailed(t)
  <2> DEFINE i == task[t].src
  <2>1. on' = on \ {i} /\ on \subseteq Instance
    BY <1>5 DEF EnableFailed, IInv, TypeOK
  <2>2. CASE i \in on
    <3>1. IdOf(i) \in Id
      BY <2>1, <2>2, IdType
    <3>2. Active' = Active \/ (Active = IdOf(i) /\ Active' = None)
      BY <1>1, <1>2, <2>1, <3>1, ActiveThen
    <3>3. Contract!Stored \/ Contract!Deselect(IdOf(i))
      BY <1>2, <1>3, <3>2 DEF Contract!Stored, Contract!Deselect
    <3>4. QED
      BY <3>1, <3>3 DEF Contract!Step
  <2>3. CASE i \notin on
    <3>1. on' = on
      BY <2>1, <2>3
    <3>2. Active' = Active
      BY <1>2, <3>1 DEF Active
    <3>3. Contract!Stored
      BY <1>2, <1>3, <3>2 DEF Contract!Stored
    <3>4. QED
      BY <3>3 DEF Contract!Step
  <2>4. QED
    BY <2>2, <2>3
<1>6. QED
  BY <1>4, <1>5 DEF Toggled

\* A reload begins when all imports have returned: it forgets none.
LEMMA ReadListRefines ==
  ASSUME IInv, CInv, Listed, CInv', Clean, Clean', NEW t \in Task, ReadList(t)
  PROVE  Contract!Unload
<1>1. Quiet /\ ~Loaded' /\ Importing' = {}
  BY ReadListParts
<1>2. Loaded /\ Importing = {} /\ disk.scripts = IdsOf(listed)
  BY <1>1 DEF Quiet, Loaded, Importing, Reading, Reloading, IInv, ScriptsSaved
<1>3. Known = IdsOf(listed) /\ Restored = IdsOf(listed)
  BY <1>2, RestoredIs DEF Known
<1>4. Known' = Restored' /\ Restored' = Restored
  BY <1>1 DEF Known, ReadList, Restored
<1>5. Active' = None
  BY <1>1 DEF Active
<1>6. QED
  BY <1>1, <1>3, <1>4, <1>5 DEF Contract!Unload

\* While it goes on nothing seems to happen, and at its end all that was stored is
\* listed again.
LEMMA RestoringRefines ==
  ASSUME IInv, CInv, Listed, CInv', Clean, Clean', NEW t \in Task, TypeOK',
         ReadScripts(t) \/ ReadActive(t) \/ RestoreDone(t) \/ RestoreFailed(t)
  PROVE  Contract!Stored \/ Contract!Load
<1>1. ~Loaded /\ Importing = {} /\ Importing' = {}
  BY ReadScriptsParts, ReadActiveParts, RestoreDoneParts, RestoreFailedParts
<1>2. Restored' = Restored
  BY ReadActiveParts, RestoreDoneParts, RestoreFailedParts DEF ReadScripts, Restored
<1>3. Known = Restored /\ Active = None
  BY <1>1 DEF Known, Active
<1>4. CASE ~Loaded'
  <2>1. Known' = Restored' /\ Active' = None
    BY <1>4 DEF Known, Active
  <2>2. Loaded' = Loaded
    BY <1>1, <1>4 DEF Loaded
  <2>3. QED
    BY <1>1, <1>2, <1>3, <2>1, <2>2 DEF Contract!Stored
<1>5. CASE Loaded'
  <2>1. IdsOf(listed') = Restored /\ Known' = IdsOf(listed')
    BY <1>5, ReadScriptsParts, ReadActiveParts, RestoreDoneParts, RestoreFailedParts DEF Known
  <2>2. Active' \in IdsOf(listed') \cup {None}
    <3>1. (CInv /\ Clean => /\ \A i \in on : Loaded => Active = IdOf(i)
                            /\ on = {} \/ ~Loaded => Active = None)'
      BY ActiveIs, PTL
    <3>2. on' \subseteq listed'
      BY DEF TypeOK
    <3>3. CASE on' = {}
      BY <3>1, <3>3
    <3>4. CASE on' # {}
      <4>1. PICK i \in on' : Active' = IdOf(i)
        BY <1>5, <3>1, <3>4
      <4>2. QED
        BY <3>2, <4>1 DEF IdsOf
    <3>5. QED
      BY <3>3, <3>4
  <2>3. QED
    BY <1>1, <1>2, <1>3, <1>5, <2>1, <2>2 DEF Contract!Load
<1>6. QED
  BY <1>4, <1>5

\* A crash between the writes of save forgets at most an import under way.
LEMMA RestartRefines ==
  ASSUME IInv, CInv, Clean, Restart
  PROVE  Contract!Unload
<1>1. ~Loaded' /\ Importing' = {} /\ Restored' = Restored
  BY RestartParts
<1>2. Known' = Restored /\ Active' = None
  BY <1>1 DEF Known, Active
<1>3. Restored \subseteq Known /\ Known \ Importing \subseteq Restored
  <2>1. CASE Loaded
    BY <2>1, RestoredIs DEF Known, CInv, Parts, ScriptsKnown
  <2>2. CASE ~Loaded
    BY <2>2 DEF Known
  <2>3. QED
    BY <2>1, <2>2
<1>4. QED
  BY <1>1, <1>2, <1>3 DEF Contract!Unload

LEMMA StepRefines ==
  IInv /\ CInv /\ Listed /\ IInv' /\ CInv' /\ [Next]_vars => [Contract!Next]_(Contract!vars)
<1> SUFFICES ASSUME IInv, CInv, Listed, IInv', CInv', [Next]_vars
             PROVE  [Contract!Next]_(Contract!vars)
  OBVIOUS
<1>1. CASE raced' # {}
  BY <1>1, ContractNext
<1>2. CASE raced' = {} /\ UNCHANGED vars
  <2>1. UNCHANGED <<Known, Active, Importing>> /\ (Loaded' <=> Loaded)
    <3>1. Loaded' <=> Loaded
      BY <1>2 DEF vars, Loaded
    <3>2. Restored' = Restored /\ Importing' = Importing
      BY <1>2 DEF vars, Restored, Importing
    <3>3. QED
      BY <1>2, <3>1, <3>2 DEF vars, Known, Active
  <2>2. QED
    BY <1>2, <2>1 DEF vars, Contract!vars
<1>3. CASE raced' = {} /\ Next
  <2>1. raced = {} /\ Clean /\ Clean'
    BY <1>3, RacedGrows DEF Clean
  <2>2. CASE Restart
    <3>1. Contract!Unload
      BY <2>1, <2>2, RestartRefines
    <3>2. QED
      BY <1>3, <2>1, <3>1, ContractNext DEF Contract!Step
  <2>3. ASSUME NEW t \in Task, Save(t) \/ User(t) \/ Toggled(t) \/ Reload(t) PROVE Contract!Step
    <3>1. CASE Save(t)
      BY <2>1, <3>1, SaveRefines DEF Contract!Step
    <3>2. CASE User(t)
      BY <2>1, <3>2, UserRefines
    <3>3. CASE Toggled(t)
      BY <1>3, <2>1, <3>3, ToggledRefines
    <3>4. CASE ReadList(t)
      BY <2>1, <3>4, ReadListRefines DEF Contract!Step
    <3>5. CASE ReadScripts(t) \/ ReadActive(t) \/ RestoreDone(t) \/ RestoreFailed(t)
      BY <2>1, <3>5, RestoringRefines DEF Contract!Step, IInv
    <3>6. QED
      BY <2>3, <3>1, <3>2, <3>3, <3>4, <3>5 DEF Reload
  <2>4. QED
    BY <1>3, <2>1, <2>2, <2>3, ContractNext DEF Next
<1>4. QED
  BY <1>1, <1>2, <1>3

\* As long as no call runs into an unfinished one, SourceManager, with its sandboxes,
\* its awaits, its three stored keys and its restarts, does what SourceSelection
\* promises: at most one source is active, each operation takes effect at once and
\* no source whose import had returned is forgotten.
THEOREM ContractKept == Spec => KeepsContract
<1>1. Init => Contract!Init
  BY InitRefines
<1>2. QED
  BY <1>1, StepRefines, ContractInductive, InitInv, NextInv, PTL DEF Spec, KeepsContract, Contract!Spec
=============================================================================
