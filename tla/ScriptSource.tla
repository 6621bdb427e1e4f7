----------------------------- MODULE ScriptSource -----------------------------
(***************************************************************************)
(* JSScriptSource objects and what they hold: a QuickJS or a JSVM virtual  *)
(* machine, or a registration in the one web page that all scripts share.  *)
(* JSSandbox.createSource runs init, which tries QuickJS, then the page,   *)
(* then JSVM, against a timer of 15 s; when the timer comes first the      *)
(* object is destroyed and init goes on.  One action is what the           *)
(* JavaScript thread does from one await to the next.  What the page is    *)
(* asked to run it runs in the order of the requests, so a request takes   *)
(* effect when it is issued and its answer is awaited.                     *)
(***************************************************************************)
CONSTANTS Source,  \* the objects, each initialised once
          Name,    \* the names of the scripts, the keys of the page's tables
          NameOf,  \* the name of each object: an update or a second attempt repeats it
          None

VARIABLES init,   \* init[s]: the await at which init of s is, "new" or "done"
          wait,   \* wait[s]: what the caller of createSource has been told
          vm,     \* vm[s]: the machine that bridge and handle of s refer to, or None
          live,   \* the machines in the tables of the two native bridges
          ready,  \* the objects with isReady
          web,    \* the objects with useWebExecutor
          page,   \* the executor's page
          shared  \* history: objects that were not alone with their name

vars == <<init, wait, vm, live, ready, web, page, shared>>

-----------------------------------------------------------------------------
(* Types and helpers *)

\* Handles are never reused and an object makes at most one machine of each engine.
Machine == {"quick", "jsvm"} \X Source

ASSUME SourceAssumption ==
  /\ NameOf \in [Source -> Name]
  /\ None \notin Source \cup Machine

InPage == {"webEval", "webDrive", "webCheck", "webDiag"}
Stage == {"new", "quick", "jsvm", "done"} \cup InPage

\* handler, state: __source_handlers__ and __source_initByScript__.  loaded: the
\* scripts evaluated since the page was loaded; begun: those that have not reported.
Page == [up : BOOLEAN, handler : [Name -> Source \cup {None}],
         state : [Name -> {"none", "begun", "inited", "failed"}],
         loaded : SUBSET Source, begun : SUBSET Source]

EmptyPage == [up |-> FALSE, handler |-> [n \in Name |-> None],
              state |-> [n \in Name |-> "none"], loaded |-> {}, begun |-> {}]

\* createVM enters a new machine in its bridge's table, destroyVM takes one out.
CreateVM(table, m) == table \cup {m}
DestroyVM(m) == live \ {m}

\* Mutation: the key is ignored.
CleanedAll(n) == [page EXCEPT !.handler = EmptyPage.handler, !.state = EmptyPage.state]

\* Mutation: the state is overwritten instead of deleted.
CleanedToNull(n) == [page EXCEPT !.handler[n] = None, !.state[n] = None]

\* __source_destroySource__: the entries of a name are deleted.
Cleaned(n) == [page EXCEPT !.handler[n] = None, !.state[n] = "none"]

\* The preload and the script of s are evaluated.
Evaluated(s) == [page EXCEPT !.state[NameOf[s]] = "begun",
                             !.loaded = @ \cup {s}, !.begun = @ \cup {s}]

Others(s) == {t \in Source \ {s} : NameOf[t] = NameOf[s]}
InUse(t) == wait[t] \in {"waiting", "accepted"} \/ init[t] \notin {"new", "done"}

\* The promise of initWithTimeout, unless the timer has settled it.
Settle(s, result) ==
  wait' = [wait EXCEPT ![s] = IF @ = "waiting" THEN result ELSE @]

-----------------------------------------------------------------------------
(* JSSandbox.createSource and destroy *)

\* initWithNativeBridge to its first await: the machine is created and evaluates the
\* script, or one of the two failed and nothing is held.  others: the other machines.
StartMachine(s, engine, others) ==
  /\ init' = [init EXCEPT ![s] = engine]
  /\ \/ vm' = [vm EXCEPT ![s] = <<engine, s>>] /\ live' = CreateVM(others, <<engine, s>>)
     \/ vm' = [vm EXCEPT ![s] = None] /\ live' = others

Create(s) ==
  /\ wait[s] = "none"
  /\ wait' = [wait EXCEPT ![s] = "waiting"]
  /\ StartMachine(s, "quick", live)
  /\ LET rivals == {t \in Others(s) : InUse(t)} IN
       shared' = shared \cup rivals \cup (IF rivals = {} THEN {} ELSE {s})
  /\ UNCHANGED <<ready, web, page>>

\* Mutation: the registration in the page is left.
ReleaseButWeb(s) ==
  /\ live' = DestroyVM(vm[s])
  /\ vm' = [vm EXCEPT ![s] = None]
  /\ ready' = ready \ {s}
  /\ UNCHANGED <<init, web, page, shared>>

\* destroy
Release(s) ==
  /\ page' = IF s \in web THEN Cleaned(NameOf[s]) ELSE page
  /\ live' = DestroyVM(vm[s])
  /\ vm' = [vm EXCEPT ![s] = None]
  /\ web' = web \ {s} /\ ready' = ready \ {s}
  /\ UNCHANGED <<init, shared>>

\* Mutation: the timer does not ask whether init has settled the promise.
TimeOutSettled(s) ==
  /\ wait[s] \in {"waiting", "accepted"}
  /\ wait' = [wait EXCEPT ![s] = IF @ = "waiting" THEN "timedOut" ELSE @]
  /\ Release(s)

\* Mutation: the object is dropped without being destroyed.
TimeOutUndestroyed(s) ==
  /\ wait[s] = "waiting"
  /\ wait' = [wait EXCEPT ![s] = "timedOut"]
  /\ UNCHANGED <<init, vm, live, ready, web, page, shared>>

\* The timer of initWithTimeout: only the caller's wait ends.
TimeOut(s) ==
  /\ wait[s] = "waiting"
  /\ wait' = [wait EXCEPT ![s] = "timedOut"]
  /\ Release(s)

\* The source manager destroys an object that createSource gave it.
Destroy(s) ==
  /\ wait[s] = "accepted"
  /\ wait' = [wait EXCEPT ![s] = "released"]
  /\ Release(s)

-----------------------------------------------------------------------------
(* init: the native machines *)

\* The script reports inited while it is driven, and the check of its globals is ok.
NativeInited(s) ==
  /\ init[s] \in {"quick", "jsvm"} /\ vm[s] # None
  /\ init' = [init EXCEPT ![s] = "done"]
  /\ ready' = ready \cup {s}
  /\ Settle(s, "accepted")
  /\ UNCHANGED <<vm, live, web, page, shared>>

\* An error, no report for 6 s or a failed check: QuickJS is given up, and the page
\* evaluates the script if it is up; else JSVM does.
QuickFailed(s) ==
  /\ init[s] = "quick"
  /\ ready' = ready \ {s}
  /\ IF page.up
     THEN /\ init' = [init EXCEPT ![s] = "webEval"]
          /\ web' = web \cup {s}
          /\ page' = Evaluated(s)
          /\ vm' = [vm EXCEPT ![s] = None]
          /\ live' = DestroyVM(vm[s])
     ELSE /\ StartMachine(s, "jsvm", DestroyVM(vm[s]))
          /\ UNCHANGED <<web, page>>
  /\ UNCHANGED <<wait, shared>>

\* JSVM was the last resort.
JsvmFailed(s) ==
  /\ init[s] = "jsvm"
  /\ init' = [init EXCEPT ![s] = "done"]
  /\ vm' = [vm EXCEPT ![s] = None]
  /\ live' = DestroyVM(vm[s])
  /\ ready' = ready \ {s}
  /\ Settle(s, "failed")
  /\ UNCHANGED <<web, page, shared>>

-----------------------------------------------------------------------------
(* init: the page *)

\* An exception between the first and the last await in the page: the registration is
\* cleaned up by name, and JSVM is tried.
LeavePage(s) ==
  /\ page' = Cleaned(NameOf[s])
  /\ web' = web \ {s}
  /\ StartMachine(s, "jsvm", live)
  /\ UNCHANGED <<wait, ready, shared>>

WebEvaluated(s) ==
  /\ init[s] = "webEval"
  /\ init' = [init EXCEPT ![s] = "webDrive"]
  /\ UNCHANGED <<wait, vm, live, ready, web, page, shared>>

\* driveWebInitRequests has read that the name is inited.
WebInited(s) ==
  /\ init[s] = "webDrive" /\ page.state[NameOf[s]] = "inited"
  /\ init' = [init EXCEPT ![s] = "webCheck"]
  /\ UNCHANGED <<wait, vm, live, ready, web, page, shared>>

\* The evaluation or the check answers with an error, the script reports one, or 6 s
\* have passed without a report.
WebFailed(s) ==
  /\ init[s] \in {"webEval", "webDrive", "webCheck"}
  /\ LeavePage(s)

\* The check found sourceApi, which every script's preload defines for all of them.
WebChecked(s) ==
  /\ init[s] = "webCheck" /\ page.loaded # {}
  /\ init' = [init EXCEPT ![s] = "webDiag"]
  /\ ready' = ready \cup {s}
  /\ UNCHANGED <<wait, vm, live, web, page, shared>>

\* The diagnosis has answered, or thrown: init returns true.
WebDone(s) ==
  /\ init[s] = "webDiag"
  /\ init' = [init EXCEPT ![s] = "done"]
  /\ Settle(s, "accepted")
  /\ UNCHANGED <<vm, live, ready, web, page, shared>>

-----------------------------------------------------------------------------
(* The page *)

\* A script that was evaluated registers its handler and reports that it is inited;
\* the second report under a name is rejected.
ScriptReports(s) ==
  /\ s \in page.begun
  /\ page' = [page EXCEPT !.handler[NameOf[s]] = s, !.state[NameOf[s]] = "inited",
                          !.begun = @ \ {s}]
  /\ UNCHANGED <<init, wait, vm, live, ready, web, shared>>

\* Its report is malformed.
ScriptFails(s) ==
  /\ s \in page.begun /\ page.state[NameOf[s]] # "inited"
  /\ page' = [page EXCEPT !.state[NameOf[s]] = "failed", !.begun = @ \ {s}]
  /\ UNCHANGED <<init, wait, vm, live, ready, web, shared>>

\* runJs has waited for 8 s, or the renderer has exited: the page is loaded afresh.
PageLost ==
  /\ page' = EmptyPage
  /\ UNCHANGED <<init, wait, vm, live, ready, web, shared>>

PageEnd ==
  /\ ~page.up
  /\ page' = [page EXCEPT !.up = TRUE]
  /\ UNCHANGED <<init, wait, vm, live, ready, web, shared>>

-----------------------------------------------------------------------------
Init ==
  /\ init = [s \in Source |-> "new"]
  /\ wait = [s \in Source |-> "none"]
  /\ vm = [s \in Source |-> None]
  /\ live = {} /\ ready = {} /\ web = {} /\ shared = {}
  /\ page = EmptyPage

Advance(s) ==
  \/ NativeInited(s) \/ QuickFailed(s) \/ JsvmFailed(s)
  \/ WebEvaluated(s) \/ WebInited(s) \/ WebFailed(s) \/ WebChecked(s) \/ WebDone(s)

Manage(s) == Create(s) \/ TimeOut(s) \/ Destroy(s)

Script(s) == ScriptReports(s) \/ ScriptFails(s)

Next == PageLost \/ PageEnd \/ \E s \in Source : Manage(s) \/ Advance(s) \/ Script(s)

Spec == Init /\ [][Next]_vars

-----------------------------------------------------------------------------
(* Properties *)

TypeOK ==
  /\ init \in [Source -> Stage]
  /\ wait \in [Source -> {"none", "waiting", "accepted", "failed", "timedOut", "released"}]
  /\ vm \in [Source -> Machine \cup {None}]
  /\ live \subseteq Machine /\ ready \subseteq Source /\ web \subseteq Source
  /\ page \in Page /\ shared \subseteq Source

\* The leak of the code: an init that has outlived its timer gave up QuickJS or the page,
\* and its JSVM machine has passed.  createSource has dropped the object, nobody destroys it.
LeftBehind(s) == wait[s] = "timedOut" /\ init[s] = "done" /\ vm[s] = <<"jsvm", s>>

\* The machines in the bridges' tables are those the objects refer to: no object loses
\* a machine it has made or uses one that was freed, though a late init and a destroy
\* cross.  And only objects in use have a machine, but for the leak above.
MachinesAreHeld ==
  /\ live = {vm[s] : s \in Source} \ {None}
  /\ \A s \in Source : vm[s] # None => InUse(s) \/ LeftBehind(s)

\* What createSource returned works until it is destroyed: it is ready and has either
\* its machine or the page.  The timer never strikes a source that was handed out.
AcceptedWorks ==
  \A s \in Source : wait[s] = "accepted" =>
    /\ s \in ready
    /\ IF s \in web THEN vm[s] = None ELSE vm[s] \in live

\* A source that failed in time or was destroyed after use has given everything back;
\* only an init that outlived its timer may leave something.
EndedIsReclaimed ==
  \A s \in Source : wait[s] \in {"failed", "released"} =>
    init[s] = "done" /\ vm[s] = None /\ s \notin ready \cup web

\* A source in the page finds a handler under its name as long as the page was not
\* lost and it has shared its name with no other object that was in use.
HandlerIsThere ==
  \A s \in Source : wait[s] = "accepted" /\ s \in web /\ s \in page.loaded /\ s \notin shared =>
    page.handler[NameOf[s]] # None
=============================================================================
