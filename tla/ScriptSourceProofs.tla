-------------------------- MODULE ScriptSourceProofs --------------------------
(***************************************************************************)
(* Proofs about ScriptSource, for any number of objects and names.         *)
(***************************************************************************)
EXTENDS ScriptSource, TLAPS

(***************************************************************************)
(* The inductive invariant.                                                *)
(***************************************************************************)

\* What an object holds at each stage of its init, timed out or not.
Holds ==
  \A s \in Source :
    /\ vm[s] \in {None, <<"quick", s>>, <<"jsvm", s>>}
    /\ init[s] \in InPage \cup {"new"} => vm[s] = None
    /\ init[s] \in {"new", "quick", "jsvm"} => s \notin web
    /\ s \in web => vm[s] = None

\* How far init is when the caller of createSource waits or has been answered, and
\* what the object has by then.
Answers ==
  \A s \in Source :
    /\ wait[s] = "none" <=> init[s] = "new"
    /\ wait[s] \in {"accepted", "failed", "released"} => init[s] = "done"
    /\ wait[s] = "waiting" => init[s] # "done"
    /\ wait[s] = "waiting" /\ init[s] \in InPage => s \in web
    /\ wait[s] = "waiting" /\ init[s] = "webDiag" => s \in ready
    /\ wait[s] = "timedOut" => vm[s] # <<"quick", s>>

\* MachinesAreHeld, one machine at a time.
Tables ==
  /\ \A s \in Source : vm[s] # None => vm[s] \in live
  /\ \A m \in live : \E s \in Source : vm[s] = m

IInv == TypeOK /\ Holds /\ Answers /\ Tables /\ AcceptedWorks /\ EndedIsReclaimed

LEMMA InitInv == Init => IInv
<1> SUFFICES ASSUME Init PROVE IInv
  OBVIOUS
<1>1. TypeOK
  BY DEF Init, TypeOK, Stage, Page, EmptyPage
<1>2. Holds /\ Answers /\ Tables /\ AcceptedWorks /\ EndedIsReclaimed
  BY DEF Init, Holds, Answers, Tables, AcceptedWorks, EndedIsReclaimed, InPage
<1>3. QED
  BY <1>1, <1>2 DEF IInv

(***************************************************************************)
(* Types.                                                                  *)
(***************************************************************************)

\* What the page's tables are after the calls of the page.
LEMMA PageTypes ==
  ASSUME page \in Page
  PROVE  /\ EmptyPage \in Page
         /\ \A x \in Name : Cleaned(x) \in Page
         /\ \A s \in Source : Evaluated(s) \in Page
<1>1. EmptyPage \in Page
  BY DEF EmptyPage, Page
<1>2. \A x \in Name : Cleaned(x) \in Page
  BY DEF Cleaned, Page
<1>3. \A s \in Source : Evaluated(s) \in Page
  <2> SUFFICES ASSUME NEW s \in Source PROVE Evaluated(s) \in Page
    OBVIOUS
  <2>1. page.state \in [Name -> {"none", "begun", "inited", "failed"}]
        /\ page.loaded \subseteq Source /\ page.begun \subseteq Source
    BY DEF Page
  <2>2. [page.state EXCEPT ![NameOf[s]] = "begun"] \in [Name -> {"none", "begun", "inited", "failed"}]
    BY <2>1
  <2>3. page.loaded \cup {s} \in SUBSET Source /\ page.begun \cup {s} \in SUBSET Source
    BY <2>1
  <2> DEFINE state == [page.state EXCEPT ![NameOf[s]] = "begun"]
             loaded == page.loaded \cup {s}
             begun == page.begun \cup {s}
  <2>4. Evaluated(s) = [page EXCEPT !.state = state, !.loaded = loaded, !.begun = begun]
    BY DEF Evaluated, Page
  <2> HIDE DEF state, loaded, begun
  <2>5. QED
    BY <2>2, <2>3, <2>4 DEF Page, state, loaded, begun
<1>4. QED
  BY <1>1, <1>2, <1>3

LEMMA TypeStep == TypeOK /\ [Next]_vars => TypeOK'
<1> SUFFICES ASSUME TypeOK, [Next]_vars PROVE TypeOK'
  OBVIOUS
<1> USE SourceAssumption DEF TypeOK
<1>1. CASE UNCHANGED vars
  BY <1>1 DEF vars
<1>2. CASE PageLost \/ PageEnd
  BY <1>2, PageTypes DEF PageLost, PageEnd, Page
<1>3. ASSUME NEW s \in Source, Manage(s) PROVE TypeOK'
  <2>1. CASE Create(s)
    BY <2>1 DEF Create, StartMachine, CreateVM, Machine, Stage, Others, InUse
  <2>2. CASE TimeOut(s)
    BY <2>2, PageTypes DEF TimeOut, Release, DestroyVM
  <2>3. CASE Destroy(s)
    BY <2>3, PageTypes DEF Destroy, Release, DestroyVM
  <2>4. QED
    BY <1>3, <2>1, <2>2, <2>3 DEF Manage
<1>4. ASSUME NEW s \in Source, Advance(s) PROVE TypeOK'
  <2>1. CASE NativeInited(s)
    BY <2>1 DEF NativeInited, Settle, Stage
  <2>2. CASE QuickFailed(s)
    BY <2>2, PageTypes DEF QuickFailed, StartMachine, CreateVM, DestroyVM, Machine, Stage, InPage
  <2>3. CASE JsvmFailed(s)
    BY <2>3 DEF JsvmFailed, Settle, DestroyVM, Stage
  <2>4. CASE WebEvaluated(s) \/ WebInited(s)
    BY <2>4 DEF WebEvaluated, WebInited, Stage, InPage
  <2>5. CASE WebFailed(s)
    BY <2>5, PageTypes DEF WebFailed, LeavePage, StartMachine, CreateVM, Machine, Stage
  <2>6. CASE WebChecked(s)
    BY <2>6 DEF WebChecked, Stage, InPage
  <2>7. CASE WebDone(s)
    BY <2>7 DEF WebDone, Settle, Stage
  <2>8. QED
    BY <1>4, <2>1, <2>2, <2>3, <2>4, <2>5, <2>6, <2>7 DEF Advance
<1>5. ASSUME NEW s \in Source, Script(s) PROVE TypeOK'
  <2>1. page' \in Page
    <3>1. page.handler \in [Name -> Source \cup {None}]
          /\ page.state \in [Name -> {"none", "begun", "inited", "failed"}]
          /\ page.begun \subseteq Source
      BY DEF Page
    <3> DEFINE handler == [page.handler EXCEPT ![NameOf[s]] = s]
               state(x) == [page.state EXCEPT ![NameOf[s]] = x]
               begun == page.begun \ {s}
    <3>2. /\ handler \in [Name -> Source \cup {None}]
          /\ \A x \in {"inited", "failed"} :
               state(x) \in [Name -> {"none", "begun", "inited", "failed"}]
          /\ begun \in SUBSET Source
      BY <3>1
    <3>3. \/ page' = [page EXCEPT !.handler = handler, !.state = state("inited"), !.begun = begun]
          \/ page' = [page EXCEPT !.state = state("failed"), !.begun = begun]
      BY <1>5 DEF Script, ScriptReports, ScriptFails, Page
    <3> HIDE DEF handler, state, begun
    <3>4. QED
      BY <3>2, <3>3 DEF Page
  <2>2. QED
    BY <1>5, <2>1 DEF Script, ScriptReports, ScriptFails
<1>6. QED
  BY <1>1, <1>2, <1>3, <1>4, <1>5 DEF Next

(***************************************************************************)
(* The steps that preserve the rest of the invariant.                      *)
(***************************************************************************)

Rest == Holds /\ Answers /\ Tables /\ AcceptedWorks /\ EndedIsReclaimed

LEMMA CreateStep == ASSUME TypeOK, Rest, NEW s \in Source, Create(s) PROVE Rest'
<1> USE SourceAssumption DEF Rest, TypeOK, InPage, Machine
<1>1. Holds'
  BY DEF Create, StartMachine, CreateVM, Holds, Answers
<1>2. Answers'
  BY DEF Create, StartMachine, CreateVM, Answers, Holds
<1>3. Tables'
  BY DEF Create, StartMachine, CreateVM, Tables, Holds, Answers
<1>4. AcceptedWorks'
  BY DEF Create, StartMachine, CreateVM, AcceptedWorks, Answers, Holds, Tables
<1>5. EndedIsReclaimed'
  BY DEF Create, StartMachine, CreateVM, EndedIsReclaimed, Answers, Holds
<1>6. QED
  BY <1>1, <1>2, <1>3, <1>4, <1>5

LEMMA TimeOutStep == ASSUME TypeOK, Rest, NEW s \in Source, TimeOut(s) PROVE Rest'
<1> USE SourceAssumption DEF Rest, TypeOK, InPage, Machine
<1>1. Holds'
  BY DEF TimeOut, Release, DestroyVM, Holds
<1>2. Answers'
  BY DEF TimeOut, Release, DestroyVM, Answers, Holds
<1>3. Tables'
  BY DEF TimeOut, Release, DestroyVM, Tables, Holds
<1>4. AcceptedWorks'
  BY DEF TimeOut, Release, DestroyVM, AcceptedWorks, Answers, Holds, Tables
<1>5. EndedIsReclaimed'
  BY DEF TimeOut, Release, DestroyVM, EndedIsReclaimed, Answers, Holds
<1>6. QED
  BY <1>1, <1>2, <1>3, <1>4, <1>5

LEMMA DestroyStep == ASSUME TypeOK, Rest, NEW s \in Source, Destroy(s) PROVE Rest'
<1> USE SourceAssumption DEF Rest, TypeOK, InPage, Machine
<1>1. Holds'
  BY DEF Destroy, Release, DestroyVM, Holds
<1>2. Answers'
  BY DEF Destroy, Release, DestroyVM, Answers, Holds
<1>3. Tables'
  BY DEF Destroy, Release, DestroyVM, Tables, Holds
<1>4. AcceptedWorks'
  BY DEF Destroy, Release, DestroyVM, AcceptedWorks, Answers, Holds, Tables
<1>5. EndedIsReclaimed'
  BY DEF Destroy, Release, DestroyVM, EndedIsReclaimed, Answers, Holds
<1>6. QED
  BY <1>1, <1>2, <1>3, <1>4, <1>5

LEMMA NativeInitedStep == ASSUME TypeOK, Rest, NEW s \in Source, NativeInited(s) PROVE Rest'
<1> USE SourceAssumption DEF Rest, TypeOK, InPage, Machine
<1>1. Holds'
  BY DEF NativeInited, Settle, Holds
<1>2. Answers'
  BY DEF NativeInited, Settle, Answers, Holds
<1>3. Tables'
  BY DEF NativeInited, Settle, Tables, Holds
<1>4. AcceptedWorks'
  BY DEF NativeInited, Settle, AcceptedWorks, Answers, Holds, Tables
<1>5. EndedIsReclaimed'
  BY DEF NativeInited, Settle, EndedIsReclaimed, Answers, Holds
<1>6. QED
  BY <1>1, <1>2, <1>3, <1>4, <1>5

LEMMA QuickFailedStep == ASSUME TypeOK, Rest, NEW s \in Source, QuickFailed(s) PROVE Rest'
<1> USE SourceAssumption DEF Rest, TypeOK, InPage, Machine
<1>1. Holds'
  BY DEF QuickFailed, StartMachine, CreateVM, DestroyVM, Holds
<1>2. Answers'
  BY DEF QuickFailed, StartMachine, CreateVM, DestroyVM, Answers, Holds
<1>3. Tables'
  BY DEF QuickFailed, StartMachine, CreateVM, DestroyVM, Tables, Holds
<1>4. AcceptedWorks'
  BY DEF QuickFailed, StartMachine, CreateVM, DestroyVM, AcceptedWorks, Answers, Holds, Tables
<1>5. EndedIsReclaimed'
  BY DEF QuickFailed, StartMachine, CreateVM, DestroyVM, EndedIsReclaimed, Answers, Holds
<1>6. QED
  BY <1>1, <1>2, <1>3, <1>4, <1>5

LEMMA JsvmFailedStep == ASSUME TypeOK, Rest, NEW s \in Source, JsvmFailed(s) PROVE Rest'
<1> USE SourceAssumption DEF Rest, TypeOK, InPage, Machine
<1>1. Holds'
  BY DEF JsvmFailed, Settle, DestroyVM, Holds
<1>2. Answers'
  BY DEF JsvmFailed, Settle, DestroyVM, Answers, Holds
<1>3. Tables'
  BY DEF JsvmFailed, Settle, DestroyVM, Tables, Holds
<1>4. AcceptedWorks'
  BY DEF JsvmFailed, Settle, DestroyVM, AcceptedWorks, Answers, Holds, Tables
<1>5. EndedIsReclaimed'
  BY DEF JsvmFailed, Settle, DestroyVM, EndedIsReclaimed, Answers, Holds
<1>6. QED
  BY <1>1, <1>2, <1>3, <1>4, <1>5

LEMMA WebStep == ASSUME TypeOK, Rest, NEW s \in Source, WebEvaluated(s) \/ WebInited(s) PROVE Rest'
<1> USE SourceAssumption DEF Rest, TypeOK, InPage, Machine
<1>1. Holds'
  BY DEF WebEvaluated, WebInited, Holds
<1>2. Answers'
  BY DEF WebEvaluated, WebInited, Answers, Holds
<1>3. Tables'
  BY DEF WebEvaluated, WebInited, Tables, Holds
<1>4. AcceptedWorks'
  BY DEF WebEvaluated, WebInited, AcceptedWorks, Answers, Holds, Tables
<1>5. EndedIsReclaimed'
  BY DEF WebEvaluated, WebInited, EndedIsReclaimed, Answers, Holds
<1>6. QED
  BY <1>1, <1>2, <1>3, <1>4, <1>5

LEMMA WebFailedStep == ASSUME TypeOK, Rest, NEW s \in Source, WebFailed(s) PROVE Rest'
<1> USE SourceAssumption DEF Rest, TypeOK, InPage, Machine
<1>1. Holds'
  BY DEF WebFailed, LeavePage, StartMachine, CreateVM, Holds
<1>2. Answers'
  BY DEF WebFailed, LeavePage, StartMachine, CreateVM, Answers, Holds
<1>3. Tables'
  BY DEF WebFailed, LeavePage, StartMachine, CreateVM, Tables, Holds
<1>4. AcceptedWorks'
  BY DEF WebFailed, LeavePage, StartMachine, CreateVM, AcceptedWorks, Answers, Holds, Tables
<1>5. EndedIsReclaimed'
  BY DEF WebFailed, LeavePage, StartMachine, CreateVM, EndedIsReclaimed, Answers, Holds
<1>6. QED
  BY <1>1, <1>2, <1>3, <1>4, <1>5

LEMMA WebCheckedStep == ASSUME TypeOK, Rest, NEW s \in Source, WebChecked(s) PROVE Rest'
<1> USE SourceAssumption DEF Rest, TypeOK, InPage, Machine
<1>1. Holds'
  BY DEF WebChecked, Holds
<1>2. Answers'
  BY DEF WebChecked, Answers, Holds
<1>3. Tables'
  BY DEF WebChecked, Tables, Holds
<1>4. AcceptedWorks'
  BY DEF WebChecked, AcceptedWorks, Answers, Holds, Tables
<1>5. EndedIsReclaimed'
  BY DEF WebChecked, EndedIsReclaimed, Answers, Holds
<1>6. QED
  BY <1>1, <1>2, <1>3, <1>4, <1>5

LEMMA WebDoneStep == ASSUME TypeOK, Rest, NEW s \in Source, WebDone(s) PROVE Rest'
<1> USE SourceAssumption DEF Rest, TypeOK, InPage, Machine
<1>1. Holds'
  BY DEF WebDone, Settle, Holds
<1>2. Answers'
  BY DEF WebDone, Settle, Answers, Holds
<1>3. Tables'
  BY DEF WebDone, Settle, Tables, Holds
<1>4. AcceptedWorks'
  BY DEF WebDone, Settle, AcceptedWorks, Answers, Holds, Tables
<1>5. EndedIsReclaimed'
  BY DEF WebDone, Settle, EndedIsReclaimed, Answers, Holds
<1>6. QED
  BY <1>1, <1>2, <1>3, <1>4, <1>5

LEMMA NextInv == IInv /\ [Next]_vars => IInv'
<1> SUFFICES ASSUME IInv, [Next]_vars PROVE IInv'
  OBVIOUS
<1>1. TypeOK'
  BY TypeStep DEF IInv
<1>2. TypeOK /\ Rest
  BY DEF IInv, Rest
<1>3. CASE UNCHANGED vars \/ PageLost \/ PageEnd
  BY <1>1, <1>2, <1>3 DEF vars, PageLost, PageEnd, Rest, IInv,
     Holds, Answers, Tables, AcceptedWorks, EndedIsReclaimed
<1>4. ASSUME NEW s \in Source, Manage(s) PROVE Rest'
  BY <1>2, <1>4, CreateStep, TimeOutStep, DestroyStep DEF Manage
<1>5. ASSUME NEW s \in Source, Advance(s) PROVE Rest'
  BY <1>2, <1>5, NativeInitedStep, QuickFailedStep, JsvmFailedStep, WebStep, WebFailedStep,
     WebCheckedStep, WebDoneStep DEF Advance
<1>6. ASSUME NEW s \in Source, Script(s) PROVE Rest'
  BY <1>2, <1>6 DEF Script, ScriptReports, ScriptFails, Rest,
     Holds, Answers, Tables, AcceptedWorks, EndedIsReclaimed
<1>7. QED
  BY <1>1, <1>3, <1>4, <1>5, <1>6 DEF Next, IInv, Rest

LEMMA Inductive == Spec => []IInv
<1>1. QED
  BY InitInv, NextInv, PTL DEF Spec

(***************************************************************************)
(* The theorems.                                                           *)
(***************************************************************************)

\* JSScriptSource's fields, the native tables and the page keep their types.
THEOREM TypeCorrect == Spec => []TypeOK
<1>1. IInv => TypeOK
  BY DEF IInv
<1>2. QED
  BY Inductive, <1>1, PTL

\* No virtual machine of quickjs_bridge or jsvm_bridge is lost by its object or referred
\* to after destroyVM, and none outlives the use of its object but the JSVM machine of an
\* init that passes after JSSandbox's time-out.
THEOREM MachinesCorrect == Spec => []MachinesAreHeld
<1>1. IInv => live = {vm[s] : s \in Source} \ {None}
  BY SourceAssumption DEF IInv, TypeOK, Tables
<1>2. ASSUME IInv, NEW s \in Source, vm[s] # None PROVE InUse(s) \/ LeftBehind(s)
  <2>1. wait[s] \in {"waiting", "accepted", "timedOut"}
    BY <1>2 DEF IInv, TypeOK, Holds, Answers, EndedIsReclaimed
  <2>2. CASE wait[s] = "timedOut"
    <3>1. init[s] # "new" /\ vm[s] = <<"jsvm", s>>
      BY <1>2, <2>2 DEF IInv, Holds, Answers
    <3>2. QED
      BY <2>2, <3>1 DEF InUse, LeftBehind
  <2>3. QED
    BY <2>1, <2>2 DEF InUse
<1>3. IInv => MachinesAreHeld
  BY <1>1, <1>2 DEF MachinesAreHeld
<1>4. QED
  BY Inductive, <1>3, PTL

\* A source that createSource returned keeps its machine or its place in the page
\* until the source manager destroys it.
THEOREM AcceptedCorrect == Spec => []AcceptedWorks
<1>1. IInv => AcceptedWorks
  BY DEF IInv
<1>2. QED
  BY Inductive, <1>1, PTL

\* An init that failed before its timer, and destroy, leave nothing behind.
THEOREM ReclaimCorrect == Spec => []EndedIsReclaimed
<1>1. IInv => EndedIsReclaimed
  BY DEF IInv
<1>2. QED
  BY Inductive, <1>1, PTL

(***************************************************************************)
(* HandlerIsThere.                                                         *)
(***************************************************************************)

\* A name that the page calls inited has a handler.
Registered == \A x \in Name : page.state[x] = "inited" => page.handler[x] # None

\* Of the objects of one name, none but the shared ones are in use together.
Alone == \A s \in Source : s \notin shared /\ InUse(s) => \A t \in Others(s) : ~InUse(t)

\* From the moment driveWebInitRequests has seen the report.
Past(s) == \/ wait[s] = "waiting" /\ init[s] \in {"webCheck", "webDiag"}
           \/ wait[s] = "accepted" /\ s \in web

Found ==
  \A s \in Source : Past(s) /\ s \in page.loaded /\ s \notin shared =>
    page.handler[NameOf[s]] # None

HInv == Registered /\ Alone /\ Found

\* What the tables of the page hold after the calls of the page.
LEMMA CleanedFacts ==
  ASSUME page \in Page, NEW n \in Name
  PROVE  /\ Cleaned(n).loaded = page.loaded
         /\ \A x \in Name :
              /\ Cleaned(n).handler[x] = IF x = n THEN None ELSE page.handler[x]
              /\ Cleaned(n).state[x] = IF x = n THEN "none" ELSE page.state[x]
<1> DEFINE handler == [page.handler EXCEPT ![n] = None]
           state == [page.state EXCEPT ![n] = "none"]
<1>1. \A x \in Name : /\ handler[x] = IF x = n THEN None ELSE page.handler[x]
                      /\ state[x] = IF x = n THEN "none" ELSE page.state[x]
  BY DEF Page
<1>2. Cleaned(n) = [page EXCEPT !.handler = handler, !.state = state]
  BY DEF Cleaned, Page
<1> HIDE DEF handler, state
<1>3. Cleaned(n).loaded = page.loaded /\ Cleaned(n).handler = handler /\ Cleaned(n).state = state
  BY <1>2 DEF Page
<1>4. QED
  BY <1>1, <1>3

LEMMA EvaluatedFacts ==
  ASSUME page \in Page, NEW s \in Source
  PROVE  /\ Evaluated(s).loaded = page.loaded \cup {s}
         /\ Evaluated(s).handler = page.handler
         /\ \A x \in Name : Evaluated(s).state[x] = IF x = NameOf[s] THEN "begun" ELSE page.state[x]
<1> DEFINE state == [page.state EXCEPT ![NameOf[s]] = "begun"]
           loaded == page.loaded \cup {s}
           begun == page.begun \cup {s}
<1>1. \A x \in Name : state[x] = IF x = NameOf[s] THEN "begun" ELSE page.state[x]
  BY DEF Page
<1>2. Evaluated(s) = [page EXCEPT !.state = state, !.loaded = loaded, !.begun = begun]
  BY DEF Evaluated, Page
<1> HIDE DEF state, loaded, begun
<1>3. /\ Evaluated(s).loaded = loaded
      /\ Evaluated(s).handler = page.handler
      /\ Evaluated(s).state = state
  BY <1>2 DEF Page
<1>4. QED
  BY <1>1, <1>3 DEF loaded

LEMMA ScriptFacts ==
  ASSUME page \in Page, NEW s \in Source, Script(s)
  PROVE  /\ page'.loaded = page.loaded
         /\ \A x \in Name :
              \/ page'.handler[x] = page.handler[x]
              \/ page'.handler[x] = s
         /\ \A x \in Name : page'.state[x] = "inited" =>
              \/ page'.handler[x] = s
              \/ page.state[x] = "inited" /\ page'.handler[x] = page.handler[x]
<1> DEFINE handler == [page.handler EXCEPT ![NameOf[s]] = s]
           inited == [page.state EXCEPT ![NameOf[s]] = "inited"]
           failed == [page.state EXCEPT ![NameOf[s]] = "failed"]
           begun == page.begun \ {s}
<1>1. \A x \in Name :
        /\ handler[x] = IF x = NameOf[s] THEN s ELSE page.handler[x]
        /\ inited[x] = IF x = NameOf[s] THEN "inited" ELSE page.state[x]
        /\ failed[x] = IF x = NameOf[s] THEN "failed" ELSE page.state[x]
  BY DEF Page
<1>2. \/ page' = [page EXCEPT !.handler = handler, !.state = inited, !.begun = begun]
      \/ page' = [page EXCEPT !.state = failed, !.begun = begun]
  BY DEF Script, ScriptReports, ScriptFails, Page
<1> HIDE DEF handler, inited, failed, begun
<1>3. /\ page'.loaded = page.loaded
      /\ \/ page'.handler = handler /\ page'.state = inited
         \/ page'.handler = page.handler /\ page'.state = failed
  BY <1>2 DEF Page
<1>4. CASE page'.handler = handler /\ page'.state = inited
  BY <1>1, <1>3, <1>4
<1>5. CASE page'.handler = page.handler /\ page'.state = failed
  BY <1>1, <1>3, <1>5
<1>6. QED
  BY <1>3, <1>4, <1>5

LEMMA RegisteredStep == ASSUME IInv, Registered, [Next]_vars PROVE Registered'
<1> USE SourceAssumption DEF Registered
<1>0. page \in Page
  BY DEF IInv, TypeOK
<1>1. CASE UNCHANGED vars \/ PageLost \/ PageEnd
  BY <1>0, <1>1 DEF vars, PageLost, PageEnd, EmptyPage, Page
<1>2. ASSUME NEW s \in Source, Manage(s) PROVE Registered'
  BY <1>0, <1>2, CleanedFacts DEF Manage, Create, TimeOut, Destroy, Release
<1>3. ASSUME NEW s \in Source, Advance(s) PROVE Registered'
  <2>1. CASE NativeInited(s)
    BY <2>1 DEF NativeInited
  <2>2. CASE QuickFailed(s)
    BY <1>0, <2>2, EvaluatedFacts DEF QuickFailed, StartMachine
  <2>3. CASE JsvmFailed(s)
    BY <2>3 DEF JsvmFailed
  <2>4. CASE WebEvaluated(s)
    BY <2>4 DEF WebEvaluated
  <2>5. CASE WebInited(s)
    BY <2>5 DEF WebInited
  <2>6. CASE WebFailed(s)
    BY <1>0, <2>6, CleanedFacts DEF WebFailed, LeavePage
  <2>7. CASE WebChecked(s)
    BY <2>7 DEF WebChecked
  <2>8. CASE WebDone(s)
    BY <2>8 DEF WebDone
  <2>9. QED
    BY <1>3, <2>1, <2>2, <2>3, <2>4, <2>5, <2>6, <2>7, <2>8 DEF Advance
<1>4. ASSUME NEW s \in Source, Script(s) PROVE Registered'
  BY <1>0, <1>4, ScriptFacts
<1>5. QED
  BY <1>1, <1>2, <1>3, <1>4 DEF Next

\* Only Create puts an object to use.
LEMMA UseStep ==
  ASSUME IInv, [Next]_vars
  PROVE  \A t \in Source : InUse(t)' => InUse(t) \/ Create(t)
<1> USE DEF InUse, IInv, TypeOK
<1>1. CASE UNCHANGED vars \/ PageLost \/ PageEnd
  BY <1>1 DEF vars, PageLost, PageEnd
<1>2. ASSUME NEW s \in Source, Manage(s) PROVE \A t \in Source : InUse(t)' => InUse(t) \/ Create(t)
  <2>1. CASE Create(s)
    BY <2>1 DEF Create, StartMachine
  <2>2. CASE TimeOut(s) \/ Destroy(s)
    BY <2>2 DEF TimeOut, Destroy, Release
  <2>3. QED
    BY <1>2, <2>1, <2>2 DEF Manage
<1>3. ASSUME NEW s \in Source, Advance(s) PROVE \A t \in Source : InUse(t)' => InUse(t) \/ Create(t)
  BY <1>3 DEF Advance, NativeInited, QuickFailed, JsvmFailed, WebEvaluated, WebInited, WebFailed,
     WebChecked, WebDone, LeavePage, StartMachine, Settle
<1>4. ASSUME NEW s \in Source, Script(s) PROVE \A t \in Source : InUse(t)' => InUse(t) \/ Create(t)
  BY <1>4 DEF Script, ScriptReports, ScriptFails
<1>5. QED
  BY <1>1, <1>2, <1>3, <1>4 DEF Next

LEMMA SharedStep ==
  ASSUME IInv, [Next]_vars
  PROVE  shared' = shared \/ \E s \in Source : Create(s)
  BY DEF Next, vars, PageLost, PageEnd, Manage, TimeOut, Destroy, Release, Advance, NativeInited,
     QuickFailed, JsvmFailed, WebEvaluated, WebInited, WebFailed, WebChecked, WebDone, LeavePage,
     Script, ScriptReports, ScriptFails

LEMMA AloneStep == ASSUME IInv, Alone, [Next]_vars PROVE Alone'
<1>1. ASSUME NEW c \in Source, Create(c) PROVE Alone'
  <2> SUFFICES ASSUME NEW s \in Source, s \notin shared', InUse(s)', NEW t \in Others(s), InUse(t)'
               PROVE  FALSE
    BY DEF Alone, Others
  <2>1. s \notin shared
    BY <1>1 DEF Create
  <2>2. \A u \in Source \ {c} : InUse(u)' => InUse(u)
    BY <1>1 DEF Create, StartMachine, InUse, IInv, TypeOK
  <2>3. CASE s = c
    BY <1>1, <2>2, <2>3 DEF Create, Others
  <2>4. CASE t = c
    <3>1. s \in Others(c) /\ InUse(s)
      BY <2>2, <2>4 DEF Others
    <3>2. QED
      BY <1>1, <3>1 DEF Create
  <2>5. CASE s # c /\ t # c
    BY <2>1, <2>2, <2>5 DEF Alone, Others
  <2>6. QED
    BY <2>3, <2>4, <2>5
<1>2. CASE shared' = shared /\ ~(\E c \in Source : Create(c))
  <2>1. \A t \in Source : InUse(t)' => InUse(t)
    BY <1>2, UseStep
  <2>2. QED
    BY <1>2, <2>1 DEF Alone, Others
<1>3. QED
  BY <1>1, <1>2, SharedStep

\* A clean-up under the name of t hits no other object that relies on its handler.
LEMMA CleanedStep ==
  ASSUME IInv, HInv, NEW t \in Source, InUse(t), page' = Cleaned(NameOf[t]) \/ page' = page,
         shared' = shared, ~Past(t)', \A s \in Source \ {t} : Past(s)' => Past(s)
  PROVE  Found'
<1> SUFFICES ASSUME NEW s \in Source, Past(s)', s \in page'.loaded, s \notin shared
             PROVE  page'.handler[NameOf[s]] # None
  BY DEF Found
<1>1. s # t /\ Past(s)
  OBVIOUS
<1>2. page \in Page /\ NameOf[s] \in Name /\ NameOf[t] \in Name
  BY SourceAssumption DEF IInv, TypeOK
<1>3. page.handler[NameOf[s]] # None
  BY <1>1, <1>2, CleanedFacts DEF HInv, Found
<1>4. InUse(s)
  BY <1>1 DEF Past, InUse
<1>5. NameOf[s] # NameOf[t]
  BY <1>1, <1>4 DEF HInv, Alone, Others
<1>6. QED
  BY <1>2, <1>3, <1>5, CleanedFacts

LEMMA FoundStep == ASSUME IInv, HInv, [Next]_vars PROVE Found'
<1> USE SourceAssumption
<1>0. page \in Page /\ TypeOK /\ Holds /\ Answers /\ Found
  BY DEF IInv, TypeOK, HInv
<1>1. CASE UNCHANGED vars \/ PageEnd
  BY <1>0, <1>1 DEF vars, PageEnd, Found, Past, Page
<1>2. CASE PageLost
  BY <1>2 DEF PageLost, EmptyPage, Found
<1>3. ASSUME NEW s \in Source, Manage(s) PROVE Found'
  <2>1. CASE Create(s)
    <3>1. \A t \in Source : Past(t)' => Past(t)
      BY <1>0, <2>1 DEF Create, StartMachine, Past, TypeOK
    <3>2. page' = page /\ shared \subseteq shared'
      BY <2>1 DEF Create
    <3>3. QED
      BY <1>0, <3>1, <3>2 DEF Found
  <2>2. CASE TimeOut(s) \/ Destroy(s)
    <3>1. InUse(s) /\ ~Past(s)' /\ \A t \in Source \ {s} : Past(t)' => Past(t)
      BY <1>0, <2>2 DEF TimeOut, Destroy, Release, InUse, Past, TypeOK
    <3>2. (page' = Cleaned(NameOf[s]) \/ page' = page) /\ shared' = shared
      BY <2>2 DEF TimeOut, Destroy, Release
    <3>3. QED
      BY <3>1, <3>2, CleanedStep
  <2>3. QED
    BY <1>3, <2>1, <2>2 DEF Manage
<1>4. ASSUME NEW s \in Source, Advance(s) PROVE Found'
  <2>1. CASE NativeInited(s) \/ JsvmFailed(s)
    <3>1. \A t \in Source : Past(t)' => Past(t)
      BY <1>0, <2>1 DEF NativeInited, JsvmFailed, Settle, Past, TypeOK, Holds, Answers
    <3>2. page' = page /\ shared' = shared
      BY <2>1 DEF NativeInited, JsvmFailed
    <3>3. QED
      BY <1>0, <3>1, <3>2 DEF Found
  <2>2. CASE QuickFailed(s)
    <3>1. ~Past(s)' /\ \A t \in Source \ {s} : Past(t)' => Past(t)
      BY <1>0, <2>2 DEF QuickFailed, StartMachine, Past, TypeOK, Answers
    <3>2. shared' = shared /\ (page' = page \/ page' = Evaluated(s))
      BY <2>2 DEF QuickFailed
    <3>3. QED
      BY <1>0, <3>1, <3>2, EvaluatedFacts DEF Found
  <2>3. CASE WebInited(s)
    <3>1. page.handler[NameOf[s]] # None
      BY <2>3 DEF WebInited, HInv, Registered
    <3>2. \A t \in Source \ {s} : Past(t)' => Past(t)
      BY <1>0, <2>3 DEF WebInited, Past, TypeOK
    <3>3. page' = page /\ shared' = shared
      BY <2>3 DEF WebInited
    <3>4. QED
      BY <1>0, <3>1, <3>2, <3>3 DEF Found
  <2>4. CASE WebEvaluated(s) \/ WebChecked(s) \/ WebDone(s)
    <3>1. \A t \in Source : Past(t)' => Past(t)
      BY <1>0, <2>4 DEF WebEvaluated, WebChecked, WebDone, Settle, Past, TypeOK, Answers
    <3>2. page' = page /\ shared' = shared
      BY <2>4 DEF WebEvaluated, WebChecked, WebDone
    <3>3. QED
      BY <1>0, <3>1, <3>2 DEF Found
  <2>5. CASE WebFailed(s)
    <3>1. InUse(s) /\ ~Past(s)' /\ \A t \in Source \ {s} : Past(t)' => Past(t)
      BY <1>0, <2>5 DEF WebFailed, LeavePage, StartMachine, InUse, Past, TypeOK, Answers
    <3>2. page' = Cleaned(NameOf[s]) /\ shared' = shared
      BY <2>5 DEF WebFailed, LeavePage
    <3>3. QED
      BY <3>1, <3>2, CleanedStep
  <2>6. QED
    BY <1>4, <2>1, <2>2, <2>3, <2>4, <2>5 DEF Advance
<1>5. ASSUME NEW s \in Source, Script(s) PROVE Found'
  <2>1. \A t \in Source : Past(t)' => Past(t)
    BY <1>5 DEF Script, ScriptReports, ScriptFails, Past
  <2>2. shared' = shared
    BY <1>5 DEF Script, ScriptReports, ScriptFails
  <2>3. QED
    BY <1>0, <1>5, <2>1, <2>2, ScriptFacts DEF Found
<1>6. QED
  BY <1>1, <1>2, <1>3, <1>4, <1>5 DEF Next

\* A source accepted in the page finds a handler under its name in
\* __source_handlers__, as long as its name was its own and the page was kept.
THEOREM HandlerCorrect == Spec => []HandlerIsThere
<1>1. Init => HInv
  BY DEF Init, EmptyPage, HInv, Registered, Alone, InUse, Found, Past
<1>2. IInv /\ HInv /\ [Next]_vars => HInv'
  <2> SUFFICES ASSUME IInv, HInv, [Next]_vars PROVE HInv'
    OBVIOUS
  <2>1. QED
    BY RegisteredStep, AloneStep, FoundStep DEF HInv
<1>3. HInv => HandlerIsThere
  BY DEF HInv, Found, Past, HandlerIsThere
<1>4. QED
  BY Inductive, <1>1, <1>2, <1>3, PTL DEF Spec
=============================================================================
