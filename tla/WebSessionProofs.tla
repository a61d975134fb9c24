--------------------------- MODULE WebSessionProofs ---------------------------
(***************************************************************************)
(* For any tabs, specs and requests: the messages and the worker keep      *)
(* their types, the host of an open session has a socket to talk to and no *)
(* job but the one that waits, no spec is given the report of another one, *)
(* and the session is a WebService.                                        *)
(*                                                                         *)
(* TypeOK is not inductive: that a report names a spec, which the host     *)
(* records, needs that a worker only runs what it has instantiated, and    *)
(* that the reports under way name their specs.  ConnectedWhileOpen needs  *)
(* that a page that is ready has once connected.  That a frame without a   *)
(* job is for the current one needs the whole path of a job: as long as    *)
(* nothing has failed there is one token (WholeSession), which goes from   *)
(* the host through page and worker and back, and a report is never behind *)
(* it; after a failure there is no current job any more (CurrentIsNext).   *)
(***************************************************************************)
EXTENDS WebSession, SequenceTheorems, TLAPS

\* Messages from a page: a report names its spec.
Said == {m \in Message : m.kind = "report" => m.job \in Job}

Runtime == [doing : {"idle", "loading", "running", "waiting"},
            load : Job \cup {None}, instance : Job \cup {None}, asked : 0..Requests]

\* Messages.
LEMMA MsgTypes ==
  /\ \A kind \in Kind, j \in Job \cup {None} : Msg(kind, j) \in Message
  /\ \A kind \in Kind \ {"report"}, j \in Job \cup {None} : Msg(kind, j) \in Said
  /\ \A kind \in Kind, j \in Job : Msg(kind, j) \in Said
  /\ \A m \in Message : [m EXCEPT !.kind = "reply"] \in Message
  BY JobsAssumption DEF Msg, Message, Said, Kind

\* Queues.
LEMMA PostTypes ==
  ASSUME NEW S, NEW q \in [Tab -> Seq(S)], NEW t, NEW m \in S
  PROVE  Post(q, t, m) \in [Tab -> Seq(S)]
<1>1. \A u \in Tab : Append(q[u], m) \in Seq(S)
  BY AppendProperties
<1>. QED  BY <1>1 DEF Post

LEMMA PopTypes ==
  ASSUME NEW S, NEW q \in [Tab -> Seq(S)], NEW t \in Tab, q[t] # <<>>
  PROVE  /\ Pop(q, t) \in [Tab -> Seq(S)]
         /\ Head(q[t]) \in S
<1>1. Tail(q[t]) \in Seq(S) /\ Head(q[t]) \in S
  BY HeadTailProperties
<1>. QED  BY <1>1 DEF Pop

\* What a step may leave behind, one conjunct per group of variables.
HostTypes ==
  /\ hostUp \in BOOLEAN /\ ready \in BOOLEAN /\ closed \in BOOLEAN
  /\ browser \in {"none", "running", "gone"}
  /\ start \in {"waiting", "ok", "failed"}
  /\ wsSocket \in Tab \cup {None}
  /\ currentJob \in [id : Job, started : BOOLEAN] \cup {None}
CallerTypes ==
  /\ next \in 1..(NumJobs + 1)
  /\ outcome \in [Job -> {"none", "pending", "resolved", "rejected"}]
  /\ reports \in [Job -> SUBSET Job]
  /\ verdict \in [Job -> {"none", "pass", "fail"}]
TabTypes ==
  /\ conn \in [Tab -> {"new", "open", "closing", "cut", "gone"}]
  /\ reply \in [Tab -> Message \cup {None}]
  /\ completed \in SUBSET Job
  /\ misread \in BOOLEAN
QueueTypes ==
  /\ up \in [Tab -> Seq(Said)] /\ outbox \in [Tab -> Seq(Said)]
  /\ down \in [Tab -> Seq(Message)] /\ inbox \in [Tab -> Seq(Message)]
WorkerTypes ==
  /\ worker \in [Tab -> Runtime]
  /\ \A t \in Tab : worker[t].doing \in {"running", "waiting"} => worker[t].instance \in Job

Typed == HostTypes /\ CallerTypes /\ TabTypes /\ QueueTypes /\ WorkerTypes

LEMMA TypedIsTypeOK == Typed => TypeOK
<1> SUFFICES ASSUME Typed PROVE TypeOK
  OBVIOUS
<1>1. \A q \in [Tab -> Seq(Said)] : q \in [Tab -> Seq(Message)]
  <2> SUFFICES ASSUME NEW q \in [Tab -> Seq(Said)], NEW t \in Tab PROVE q[t] \in Seq(Message)
    OBVIOUS
  <2>1. Said \subseteq Message
    BY DEF Said
  <2>. QED  BY <2>1, SeqMonotonic
<1>. QED
  BY <1>1
     DEF Typed, TypeOK, HostTypes, CallerTypes, TabTypes, QueueTypes, WorkerTypes, Runtime

\* Settling the current job, and closing the session.
LEMMA SettleTypes ==
  ASSUME HostTypes, CallerTypes, NEW how \in {"resolved", "rejected"}, Settle(how)
  PROVE  /\ currentJob' \in [id : Job, started : BOOLEAN] \cup {None}
         /\ outcome' \in [Job -> {"none", "pending", "resolved", "rejected"}]
  BY DEF Settle, HostTypes, CallerTypes

LEMMA CloseTypes ==
  ASSUME HostTypes, CallerTypes, TabTypes, Close
  PROVE  /\ closed' \in BOOLEAN
         /\ start' \in {"waiting", "ok", "failed"}
         /\ wsSocket' \in Tab \cup {None}
         /\ currentJob' \in [id : Job, started : BOOLEAN] \cup {None}
         /\ outcome' \in [Job -> {"none", "pending", "resolved", "rejected"}]
         /\ conn' \in [Tab -> {"new", "open", "closing", "cut", "gone"}]
<1>1. CASE closed
  BY <1>1 DEF Close, HostTypes, CallerTypes, TabTypes
<1>2. CASE ~closed
  <2>1. Settle("rejected")
    BY <1>2 DEF Close
  <2>. QED  BY <1>2, <2>1, SettleTypes DEF Close, HostTypes, TabTypes
<1>. QED  BY <1>1, <1>2

\* What comes from a page is one of the things it says.
LEMMA HearsTypes ==
  ASSUME QueueTypes, NEW t \in Tab, NEW kind, Hears(t, kind)
  PROVE  /\ up' \in [Tab -> Seq(Said)]
         /\ Head(up[t]) \in Said /\ Head(up[t]).kind = kind
  BY PopTypes DEF Hears, QueueTypes

\* The handlers of the host and its caller.
LEMMA HostStepTypes ==
  ASSUME Typed,
         \/ BrowserExits \/ TerminalCloses \/ TerminalExits \/ Submit \/ Continue \/ Finish
         \/ \E t \in Tab : Open(t) \/ Disconnected(t) \/ HostHears(t)
  PROVE  Typed'
<1> USE DEF Typed
<1>1. CASE BrowserExits
  BY <1>1, CloseTypes
     DEF BrowserExits, HostTypes, CallerTypes, TabTypes, QueueTypes, WorkerTypes
<1>2. CASE TerminalCloses
  BY <1>2, CloseTypes
     DEF TerminalCloses, HostTypes, CallerTypes, TabTypes, QueueTypes, WorkerTypes
<1>9. CASE TerminalExits
  BY <1>9 DEF TerminalExits, callerVars, tabVars, HostTypes, CallerTypes, TabTypes,
              QueueTypes, WorkerTypes
<1>3. CASE Submit
  <2>1. next \in Job /\ Msg("load", next) \in Message
    BY <1>3, MsgTypes, JobsAssumption DEF Submit, CallerTypes, Job, Kind
  <2>2. QueueTypes'
    <3>1. Post(down, wsSocket, Msg("load", next)) \in [Tab -> Seq(Message)]
      BY <2>1, PostTypes DEF QueueTypes
    <3>. QED  BY <1>3, <3>1 DEF Submit, QueueTypes, tabVars
  <2>3. HostTypes' /\ CallerTypes'
    <3>1. CASE closed \/ currentJob # None
      BY <1>3, <2>1, <3>1 DEF Submit, HostTypes, CallerTypes
    <3>2. CASE ~(closed \/ currentJob # None)
      <4>1. [id |-> next, started |-> FALSE] \in [id : Job, started : BOOLEAN]
        BY <2>1
      <4>2. /\ outcome' = [outcome EXCEPT ![next] = "pending"]
            /\ currentJob' = [id |-> next, started |-> FALSE]
        BY <1>3, <3>2 DEF Submit
      <4>. QED  BY <1>3, <2>1, <4>1, <4>2 DEF Submit, HostTypes, CallerTypes
    <3>. QED  BY <3>1, <3>2
  <2>. QED  BY <1>3, <2>2, <2>3 DEF Submit, TabTypes, WorkerTypes, tabVars
<1>4. CASE Continue
  <2>1. next \in Job /\ next + 1 \in 1..(NumJobs + 1)
    BY <1>4, JobsAssumption DEF Continue, CallerTypes, Job
  <2>2. HostTypes' /\ TabTypes' /\ outcome' \in [Job -> {"none", "pending", "resolved", "rejected"}]
    BY <1>4, CloseTypes DEF Continue, HostTypes, CallerTypes, TabTypes
  <2>3. CallerTypes'
    BY <1>4, <2>1, <2>2 DEF Continue, CallerTypes
  <2>. QED  BY <1>4, <2>2, <2>3 DEF Continue, QueueTypes, WorkerTypes
<1>5. CASE Finish
  BY <1>5, CloseTypes DEF Finish, HostTypes, CallerTypes, TabTypes, QueueTypes, WorkerTypes
<1>6. ASSUME NEW t \in Tab, Open(t) PROVE Typed'
  <2>1. Msg("ready", None) \in Said
    BY MsgTypes DEF Kind
  <2>2. QueueTypes'
    BY <1>6, <2>1, PostTypes DEF Open, QueueTypes
  <2>. QED
    BY <1>6, <2>2 DEF Open, HostTypes, CallerTypes, TabTypes, WorkerTypes, callerVars
<1>7. ASSUME NEW t \in Tab, Disconnected(t) PROVE Typed'
  BY <1>7, CloseTypes DEF Disconnected, HostTypes, CallerTypes, TabTypes, QueueTypes, WorkerTypes
<1>8. ASSUME NEW t \in Tab, HostHears(t) PROVE Typed'
  <2>1. CASE OnReady(t)
    BY <2>1, HearsTypes
       DEF OnReady, HostTypes, CallerTypes, TabTypes, QueueTypes, WorkerTypes, callerVars, tabVars
  <2>2. CASE OnInstantiated(t)
    <3>1. Msg("start", None) \in Message
      BY MsgTypes DEF Kind
    <3>2. QueueTypes'
      <4>1. Post(down, wsSocket, Msg("start", None)) \in [Tab -> Seq(Message)]
        BY <3>1, PostTypes DEF QueueTypes
      <4>. QED  BY <2>2, <4>1, HearsTypes DEF OnInstantiated, QueueTypes, tabVars
    <3>. QED
      BY <2>2, <3>2, ZenonT(60)
         DEF OnInstantiated, HostTypes, CallerTypes, TabTypes, WorkerTypes, callerVars, tabVars
  <2>3. CASE OnRequest(t)
    <3>1. [Head(up[t]) EXCEPT !.kind = "reply"] \in Message
      BY <2>3, HearsTypes, MsgTypes DEF OnRequest, Said
    <3>2. QueueTypes'
      <4>1. Post(down, wsSocket, [Head(up[t]) EXCEPT !.kind = "reply"])
              \in [Tab -> Seq(Message)]
        BY <3>1, PostTypes DEF QueueTypes
      <4>. QED  BY <2>3, <4>1, HearsTypes DEF OnRequest, QueueTypes, tabVars
    <3>. QED
      BY <2>3, <3>2
         DEF OnRequest, HostTypes, CallerTypes, TabTypes, WorkerTypes, hostVars, callerVars, tabVars
  <2>4. CASE OnReport(t)
    <3>1. Head(up[t]).job \in Job /\ up' \in [Tab -> Seq(Said)]
      BY <2>4, HearsTypes DEF OnReport, Said
    <3>2. reports' \in [Job -> SUBSET Job]
      BY <2>4, <3>1 DEF OnReport, CallerTypes, HostTypes
    <3>. QED
      BY <2>4, <3>1, <3>2, ZenonT(60)
         DEF OnReport, HostTypes, CallerTypes, TabTypes, QueueTypes, WorkerTypes, hostVars, tabVars
  <2>5. CASE OnDone(t)
    BY <2>5, HearsTypes, SettleTypes
       DEF OnDone, HostTypes, CallerTypes, TabTypes, QueueTypes, WorkerTypes, tabVars
  <2>6. CASE OnError(t)
    BY <2>6, HearsTypes, SettleTypes
       DEF OnError, HostTypes, CallerTypes, TabTypes, QueueTypes, WorkerTypes, tabVars
  <2>. QED  BY <1>8, <2>1, <2>2, <2>3, <2>4, <2>5, <2>6 DEF HostHears
<1>. QED  BY <1>1, <1>2, <1>3, <1>4, <1>5, <1>6, <1>7, <1>8, <1>9

\* The page and its worker.
LEMMA TabStepTypes ==
  ASSUME Typed, NEW t \in Tab, Leave(t) \/ PageStep(t) \/ WorkerStep(t) \/ Trap(t)
  PROVE  Typed'
<1> USE DEF Typed
<1>0. /\ worker[t] \in Runtime
      /\ worker[t].doing \in {"running", "waiting"} => worker[t].instance \in Job
      /\ \A w \in Runtime :
           (w.doing \in {"running", "waiting"} => w.instance \in Job) =>
             (worker' = [worker EXCEPT ![t] = w] => WorkerTypes')
  BY DEF WorkerTypes
<1>1. CASE Leave(t)
  BY <1>1 DEF Leave, HostTypes, CallerTypes, TabTypes, QueueTypes, WorkerTypes, hostVars, callerVars
<1>2. CASE PageRelays(t)
  <2>1. QueueTypes'
    BY <1>2, PopTypes, PostTypes DEF PageRelays, QueueTypes
  <2>. QED
    BY <1>2, <2>1 DEF PageRelays, HostTypes, CallerTypes, TabTypes, WorkerTypes, hostVars, callerVars
<1>3. CASE PageReceives(t)
  <2>1. /\ Head(down[t]) \in Message /\ down' \in [Tab -> Seq(Message)]
        /\ Msg("error", None) \in Said
    BY <1>3, PopTypes, MsgTypes DEF PageReceives, QueueTypes, Kind
  <2>2. /\ inbox' \in [Tab -> Seq(Message)] /\ up' \in [Tab -> Seq(Said)]
        /\ reply' \in [Tab -> Message \cup {None}]
    <3>1. /\ Post(inbox, t, Head(down[t])) \in [Tab -> Seq(Message)]
          /\ Post(up, t, Msg("error", None)) \in [Tab -> Seq(Said)]
      BY <2>1, PostTypes DEF QueueTypes
    <3>2. CASE Head(down[t]).kind # "reply"
      BY <1>3, <2>1, <3>1, <3>2 DEF PageReceives, QueueTypes, TabTypes
    <3>3. CASE Head(down[t]).kind = "reply" /\ reply[t] = None
      BY <1>3, <2>1, <3>1, <3>3 DEF PageReceives, QueueTypes, TabTypes
    <3>4. CASE Head(down[t]).kind = "reply" /\ reply[t] # None
      BY <1>3, <2>1, <3>1, <3>4 DEF PageReceives, QueueTypes, TabTypes
    <3>. QED  BY <3>2, <3>3, <3>4
  <2>. QED
    BY <1>3, <2>1, <2>2, ZenonT(60)
       DEF PageReceives, HostTypes, CallerTypes, TabTypes, QueueTypes, WorkerTypes,
           hostVars, callerVars
<1>4. CASE WorkerReceives(t)
  <2>1. /\ Head(inbox[t]) \in Message /\ inbox' \in [Tab -> Seq(Message)]
        /\ Msg("error", None) \in Said
    BY <1>4, PopTypes, MsgTypes DEF WorkerReceives, QueueTypes, Kind
  <2>2. Post(outbox, t, Msg("error", None)) \in [Tab -> Seq(Said)]
    BY <2>1, PostTypes DEF QueueTypes
  <2>3. outbox' \in [Tab -> Seq(Said)] /\ WorkerTypes'
    <3> DEFINE m == Head(inbox[t])
    <3>1. CASE m.kind = "load"
      <4>1. worker' = [worker EXCEPT ![t].doing = "loading", ![t].load = m.job] /\ UNCHANGED outbox
        BY <1>4, <3>1 DEF WorkerReceives
      <4>2. m.job \in Job \cup {None}
        BY <2>1 DEF Message
      <4> HIDE DEF m
      <4>. QED  BY <1>0, <4>1, <4>2 DEF WorkerTypes, Runtime, QueueTypes
    <3>2. CASE m.kind = "start" /\ worker[t].instance # None
      <4>1. worker' = [worker EXCEPT ![t].doing = "running", ![t].asked = 0] /\ UNCHANGED outbox
        BY <1>4, <3>2 DEF WorkerReceives
      <4>2. worker[t].instance \in Job /\ 0 \in 0..Requests
        BY <1>0, <3>2, JobsAssumption DEF Runtime
      <4>. QED  BY <1>0, <4>1, <4>2 DEF WorkerTypes, Runtime, QueueTypes
    <3>3. CASE m.kind # "load" /\ ~(m.kind = "start" /\ worker[t].instance # None)
      <4>1. outbox' = Post(outbox, t, Msg("error", None)) /\ UNCHANGED worker
        BY <1>4, <3>3 DEF WorkerReceives
      <4>. QED  BY <2>2, <4>1 DEF WorkerTypes
    <3>. QED  BY <3>1, <3>2, <3>3
  <2>. QED
    BY <1>4, <2>1, <2>3, ZenonT(60)
       DEF WorkerReceives, HostTypes, CallerTypes, TabTypes, QueueTypes, hostVars, callerVars
<1>5. CASE Instantiate(t)
  <2>1. PICK works \in BOOLEAN :
          /\ worker' = [worker EXCEPT ![t].doing = "idle",
                          ![t].instance = IF works THEN worker[t].load ELSE @]
          /\ outbox' = Post(outbox, t, Msg(IF works THEN "instantiated" ELSE "error",
                                           worker[t].load))
    BY <1>5 DEF Instantiate
  <2>2. Msg(IF works THEN "instantiated" ELSE "error", worker[t].load) \in Said
    BY <1>0, MsgTypes DEF Runtime, Kind
  <2>3. outbox' \in [Tab -> Seq(Said)]
    BY <2>1, <2>2, PostTypes DEF QueueTypes
  <2>4. WorkerTypes'
    BY <1>0, <2>1 DEF WorkerTypes, Runtime
  <2>. QED
    BY <1>5, <2>3, <2>4
       DEF Instantiate, HostTypes, CallerTypes, TabTypes, QueueTypes, hostVars, callerVars
<1>6. CASE Ask(t)
  <2>1. [kind |-> "ask", job |-> worker[t].instance, n |-> worker[t].asked + 1] \in Said
    BY <1>0, <1>6, JobsAssumption DEF Ask, Said, Message, Kind, Runtime
  <2>2. outbox' \in [Tab -> Seq(Said)]
    BY <1>6, <2>1, PostTypes DEF Ask, QueueTypes
  <2>3. WorkerTypes'
    BY <1>0, <1>6, JobsAssumption DEF Ask, WorkerTypes, Runtime
  <2>. QED
    BY <1>6, <2>2, <2>3, ZenonT(60) DEF Ask, HostTypes, CallerTypes, TabTypes, QueueTypes, hostVars, callerVars
<1>7. CASE ReadReply(t)
  <2>1. WorkerTypes'
    BY <1>0, <1>7 DEF ReadReply, WorkerTypes, Runtime
  <2>. QED
    BY <1>7, <2>1
       DEF ReadReply, HostTypes, CallerTypes, TabTypes, QueueTypes, hostVars, callerVars
<1>8. CASE RunToEnd(t)
  <2>1. worker[t].instance \in Job
    BY <1>0, <1>8 DEF RunToEnd
  <2>2. <<Msg("report", worker[t].instance), Msg("done", worker[t].instance)>> \in Seq(Said)
    BY <2>1, MsgTypes DEF Kind
  <2>3. outbox' \in [Tab -> Seq(Said)]
    BY <1>8, <2>2, ConcatProperties DEF RunToEnd, QueueTypes
  <2>4. WorkerTypes'
    BY <1>0, <1>8 DEF RunToEnd, WorkerTypes, Runtime
  <2>. QED
    BY <1>8, <2>1, <2>3, <2>4
       DEF RunToEnd, HostTypes, CallerTypes, TabTypes, QueueTypes, hostVars, callerVars
<1>9. CASE Trap(t)
  <2>1. worker[t].instance \in Job
    BY <1>0, <1>9 DEF Trap
  <2>2. \A said \in {<<>>, <<Msg("report", worker[t].instance)>>} :
          Append(said, Msg("error", worker[t].instance)) \in Seq(Said)
    <3>1. <<>> \in Seq(Said) /\ <<Msg("report", worker[t].instance)>> \in Seq(Said)
      BY <2>1, MsgTypes DEF Kind
    <3>. QED  BY <2>1, <3>1, MsgTypes, AppendProperties DEF Kind
  <2>3. outbox' \in [Tab -> Seq(Said)]
    <3>1. PICK said \in {<<>>, <<Msg("report", worker[t].instance)>>} :
            outbox' = [outbox EXCEPT ![t] = @ \o Append(said, Msg("error", worker[t].instance))]
      BY <1>9 DEF Trap
    <3>2. Append(said, Msg("error", worker[t].instance)) \in Seq(Said)
      BY <2>2
    <3>3. outbox[t] \o Append(said, Msg("error", worker[t].instance)) \in Seq(Said)
      BY <3>2, ConcatProperties DEF QueueTypes
    <3>. QED  BY <3>1, <3>3 DEF QueueTypes
  <2>4. WorkerTypes'
    BY <1>0, <1>9 DEF Trap, WorkerTypes, Runtime
  <2>. QED
    BY <1>9, <2>3, <2>4, ZenonT(60)
       DEF Trap, HostTypes, CallerTypes, TabTypes, QueueTypes, hostVars, callerVars
<1>. QED
  BY <1>1, <1>2, <1>3, <1>4, <1>5, <1>6, <1>7, <1>8, <1>9 DEF PageStep, WorkerStep

LEMMA TypedInitially == Init => Typed
<1> SUFFICES ASSUME Init PROVE Typed
  OBVIOUS
<1>1. /\ <<>> \in Seq(Said) /\ <<>> \in Seq(Message) /\ Asleep \in Runtime
      /\ Asleep.doing = "idle"
  BY JobsAssumption DEF Asleep, Runtime
<1>2. HostTypes
  BY Zenon DEF Init, HostTypes
<1>3. CallerTypes
  BY JobsAssumption DEF Init, CallerTypes
<1>4. TabTypes
  BY DEF Init, TabTypes
<1>5. QueueTypes /\ WorkerTypes
  BY <1>1 DEF Init, QueueTypes, WorkerTypes
<1>. QED  BY <1>2, <1>3, <1>4, <1>5 DEF Typed

LEMMA TypedStep == Typed /\ [Next]_vars => Typed'
<1> SUFFICES ASSUME Typed, [Next]_vars PROVE Typed'
  OBVIOUS
<1>1. CASE Next
  BY <1>1, HostStepTypes, TabStepTypes DEF Next
<1>2. CASE UNCHANGED vars
  BY <1>2 DEF vars, hostVars, callerVars, tabVars, Typed, HostTypes, CallerTypes, TabTypes,
              QueueTypes, WorkerTypes
<1>. QED  BY <1>1, <1>2

-------------------------------------------------------------------------------
\* A page that is ready has connected, and the host talks to the last one.
Socket == wsSocket \in Tab /\ conn[wsSocket] \in {"open", "closing"}
Connected ==
  /\ ready => \E t \in Tab : conn[t] # "new"
  /\ ~closed /\ (\E t \in Tab : conn[t] # "new") => Socket

\* A job waits exactly as long as the host works on it.
OneJob ==
  /\ \A j \in Job : outcome[j] = "pending" <=> currentJob # None /\ currentJob.id = j
  /\ closed => currentJob = None

LEMMA OpenImplied == Typed /\ Connected /\ OneJob => ConnectedWhileOpen
  BY NoneAssumption DEF Connected, Socket, OneJob, ConnectedWhileOpen

\* Settle and Close leave no job.
LEMMA SettleKeeps ==
  ASSUME Typed, OneJob, NEW how \in {"resolved", "rejected"}, Settle(how)
  PROVE  currentJob' = None /\ \A j \in Job : outcome'[j] # "pending"
  BY DEF Settle, OneJob, Typed, HostTypes, CallerTypes

LEMMA CloseKeeps ==
  ASSUME Typed, Connected, OneJob, Close, ready' = ready
  PROVE  Connected' /\ OneJob'
<1>1. CASE closed
  BY <1>1 DEF Close, Connected, Socket, OneJob
<1>2. CASE ~closed
  <2>1. OneJob'
    BY <1>2, SettleKeeps DEF Close, OneJob
  <2>2. \A t \in Tab : conn[t] # "new" => conn'[t] # "new"
    BY <1>2 DEF Close, Typed, TabTypes
  <2>. QED  BY <1>2, <2>1, <2>2 DEF Close, Connected
<1>. QED  BY <1>1, <1>2

\* A step that leaves the host's view alone.
LEMMA ElsewhereKeeps ==
  ASSUME Connected, OneJob, UNCHANGED <<ready, closed, wsSocket, currentJob, outcome, conn>>
  PROVE  Connected' /\ OneJob'
  BY DEF Connected, Socket, OneJob

LEMMA OpenStep == Typed /\ Connected /\ OneJob /\ [Next]_vars => Connected' /\ OneJob'
<1> SUFFICES ASSUME Typed, Connected, OneJob, [Next]_vars PROVE Connected' /\ OneJob'
  OBVIOUS
<1>1. CASE BrowserExits
  BY <1>1, CloseKeeps, ElsewhereKeeps DEF BrowserExits
<1>2. CASE TerminalCloses
  BY <1>2, CloseKeeps DEF TerminalCloses
<1>12. CASE TerminalExits
  BY <1>12, ElsewhereKeeps DEF TerminalExits, callerVars, tabVars
<1>3. CASE Submit
  <2>1. next \in Job /\ outcome[next] = "none" /\ UNCHANGED <<ready, closed, wsSocket, conn>>
    BY <1>3, JobsAssumption DEF Submit, Typed, CallerTypes, Job, tabVars
  <2>2. CASE closed \/ currentJob # None
    BY <1>3, <2>1, <2>2 DEF Submit, Connected, Socket, OneJob, Typed, CallerTypes
  <2>3. CASE ~(closed \/ currentJob # None)
    <3>1. /\ outcome' = [outcome EXCEPT ![next] = "pending"]
          /\ currentJob' = [id |-> next, started |-> FALSE]
      BY <1>3, <2>3 DEF Submit
    <3>2. currentJob' # None /\ currentJob'.id = next
      <4>1. [id |-> next, started |-> FALSE] \in [id : Job, started : BOOLEAN]
        BY <2>1
      <4>. QED  BY <3>1, <4>1, NoneAssumption
    <3>. QED
      BY <2>1, <2>3, <3>1, <3>2 DEF Connected, Socket, OneJob, Typed, CallerTypes
  <2>. QED  BY <2>2, <2>3
<1>4. CASE Continue
  BY <1>4, CloseKeeps, ElsewhereKeeps DEF Continue
<1>5. CASE Finish
  BY <1>5, CloseKeeps DEF Finish
<1>6. ASSUME NEW t \in Tab, Open(t) PROVE Connected' /\ OneJob'
  BY <1>6 DEF Open, Connected, Socket, OneJob, Typed, TabTypes, callerVars
<1>7. ASSUME NEW t \in Tab, Disconnected(t) PROVE Connected' /\ OneJob'
  BY <1>7, CloseKeeps DEF Disconnected
<1>8. ASSUME NEW t \in Tab, HostHears(t) PROVE Connected' /\ OneJob'
  <2>1. CASE OnReady(t)
    <3>1. conn[t] # "new" /\ UNCHANGED <<closed, wsSocket, currentJob, outcome, conn>>
      BY <2>1 DEF OnReady, Hears, callerVars, tabVars
    <3>. QED  BY <3>1 DEF Connected, Socket, OneJob
  <2>2. CASE OnInstantiated(t)
    <3>1. /\ UNCHANGED <<ready, closed, wsSocket, outcome, conn>>
          /\ (currentJob' # None) = (currentJob # None)
          /\ currentJob # None => currentJob'.id = currentJob.id
      BY <2>2, NoneAssumption DEF OnInstantiated, callerVars, tabVars, Typed, HostTypes
    <3>. QED  BY <3>1 DEF Connected, Socket, OneJob
  <2>3. CASE OnRequest(t)
    BY <2>3, ElsewhereKeeps DEF OnRequest, hostVars, callerVars, tabVars
  <2>4. CASE OnReport(t)
    BY <2>4, ElsewhereKeeps DEF OnReport, hostVars, tabVars
  <2>5. CASE OnDone(t)
    BY <2>5, SettleKeeps DEF OnDone, Connected, Socket, OneJob, tabVars
  <2>6. CASE OnError(t)
    BY <2>6, SettleKeeps DEF OnError, Connected, Socket, OneJob, tabVars
  <2>. QED  BY <1>8, <2>1, <2>2, <2>3, <2>4, <2>5, <2>6 DEF HostHears
<1>9. ASSUME NEW t \in Tab, Leave(t) PROVE Connected' /\ OneJob'
  BY <1>9 DEF Leave, Connected, Socket, OneJob, Typed, TabTypes, hostVars, callerVars
<1>10. ASSUME NEW t \in Tab, PageStep(t) \/ WorkerStep(t) \/ Trap(t)
       PROVE  Connected' /\ OneJob'
  <2>1. UNCHANGED <<hostVars, callerVars, conn>>
    BY <1>10 DEF PageStep, PageRelays, PageReceives, WorkerStep, WorkerReceives, Instantiate,
                 Ask, ReadReply, RunToEnd, Trap
  <2>. QED  BY <2>1, ElsewhereKeeps DEF hostVars, callerVars
<1>11. CASE UNCHANGED vars
  BY <1>11, ElsewhereKeeps DEF vars, hostVars, callerVars, tabVars
<1>. QED
  BY <1>1, <1>2, <1>3, <1>4, <1>5, <1>6, <1>7, <1>8, <1>9, <1>10, <1>11, <1>12 DEF Next

LEMMA OpenInitially == Init => Connected /\ OneJob
  BY DEF Init, Connected, OneJob

-------------------------------------------------------------------------------
(* Queues of messages *)

Some(q, kind) == \E i \in DOMAIN q : q[i].kind = kind
Once(q, kind) == \A i, k \in DOMAIN q : q[i].kind = kind /\ q[k].kind = kind => i = k
All(q, S) == \A i \in DOMAIN q : q[i] \in S
ReportFirst(q) ==
  \A i, k \in DOMAIN q : q[i].kind = "done" /\ q[k].kind = "report" => k < i

\* What is true of a queue and of the queue with one more or one message less.
LEMMA AppendKeeps ==
  ASSUME NEW q \in Seq(Message), NEW m \in Message
  PROVE  /\ \A kind : Some(Append(q, m), kind) <=> Some(q, kind) \/ m.kind = kind
         /\ \A kind : Once(q, kind) /\ (m.kind = kind => ~Some(q, kind))
                        => Once(Append(q, m), kind)
         /\ \A S : All(q, S) /\ m \in S => All(Append(q, m), S)
         /\ ReportFirst(q) /\ (m.kind = "report" => ~Some(q, "done"))
              => ReportFirst(Append(q, m))
<1>1. /\ DOMAIN q = 1..Len(q) /\ Len(q) \in Nat
      /\ DOMAIN Append(q, m) = 1..(Len(q) + 1)
      /\ Append(q, m)[Len(q) + 1] = m
      /\ \A i \in 1..Len(q) : Append(q, m)[i] = q[i]
  BY AppendProperties, LenProperties
<1>2. \A i \in 1..(Len(q) + 1) : i \in 1..Len(q) \/ i = Len(q) + 1
  BY <1>1
<1> DEFINE a == Append(q, m)
<1>3. /\ DOMAIN a = 1..(Len(q) + 1) /\ a[Len(q) + 1] = m
      /\ \A i \in 1..Len(q) : a[i] = q[i]
  BY <1>1
<1> HIDE DEF a
<1>4. \A kind : Some(a, kind) <=> Some(q, kind) \/ m.kind = kind
  BY <1>1, <1>2, <1>3 DEF Some
<1>5. ASSUME NEW kind, Once(q, kind), m.kind = kind => ~Some(q, kind)
      PROVE  Once(a, kind)
  <2> SUFFICES ASSUME NEW i \in DOMAIN a, NEW k \in DOMAIN a,
                      a[i].kind = kind, a[k].kind = kind
               PROVE  i = k
    BY DEF Once
  <2>1. CASE i \in 1..Len(q) /\ k \in 1..Len(q)
    BY <1>1, <1>3, <1>5, <2>1 DEF Once
  <2>2. CASE i \in 1..Len(q) /\ k = Len(q) + 1
    BY <1>1, <1>3, <1>5, <2>2 DEF Some
  <2>3. CASE i = Len(q) + 1 /\ k \in 1..Len(q)
    BY <1>1, <1>3, <1>5, <2>3 DEF Some
  <2>. QED  BY <1>2, <1>3, <2>1, <2>2, <2>3
<1>6. \A S : All(q, S) /\ m \in S => All(a, S)
  BY <1>1, <1>2, <1>3 DEF All
<1>7. ASSUME ReportFirst(q), m.kind = "report" => ~Some(q, "done")
      PROVE  ReportFirst(a)
  <2> SUFFICES ASSUME NEW i \in DOMAIN a, NEW k \in DOMAIN a,
                      a[i].kind = "done", a[k].kind = "report"
               PROVE  k < i
    BY DEF ReportFirst
  <2>1. CASE i \in 1..Len(q) /\ k \in 1..Len(q)
    BY <1>1, <1>3, <1>7, <2>1 DEF ReportFirst
  <2>2. CASE i \in 1..Len(q) /\ k = Len(q) + 1
    BY <1>1, <1>3, <1>7, <2>2 DEF Some
  <2>3. CASE i = Len(q) + 1 /\ k \in 1..Len(q)
    BY <1>1, <2>3
  <2>4. CASE i = Len(q) + 1 /\ k = Len(q) + 1
    BY <1>3, <2>4
  <2>. QED  BY <1>2, <1>3, <2>1, <2>2, <2>3, <2>4
<1>. QED  BY <1>4, <1>5, <1>6, <1>7 DEF a

LEMMA TailKeeps ==
  ASSUME NEW q \in Seq(Message), q # <<>>
  PROVE  /\ \A kind : Some(Tail(q), kind) => Some(q, kind)
         /\ \A kind : Head(q).kind = kind => Some(q, kind)
         /\ \A kind : Once(q, kind) => /\ Once(Tail(q), kind)
                                       /\ Head(q).kind = kind => ~Some(Tail(q), kind)
         /\ \A S : All(q, S) => All(Tail(q), S) /\ Head(q) \in S
         /\ ReportFirst(q) => /\ ReportFirst(Tail(q))
                              /\ Head(q).kind = "done" => ~Some(Tail(q), "report")
<1>1. /\ DOMAIN q = 1..Len(q) /\ Len(q) \in Nat \ {0}
      /\ Head(q) = q[1]
      /\ DOMAIN Tail(q) = 1..(Len(q) - 1)
      /\ \A i \in 1..(Len(q) - 1) : Tail(q)[i] = q[i + 1]
  <2>1. Tail(q) \in Seq(Message) /\ Len(Tail(q)) = Len(q) - 1 /\ Len(q) \in Nat \ {0}
    BY HeadTailProperties, EmptySeq
  <2>2. DOMAIN Tail(q) = 1..(Len(q) - 1) /\ DOMAIN q = 1..Len(q)
    BY <2>1, LenProperties
  <2>. QED  BY <2>1, <2>2
<1>2. 1 \in 1..Len(q) /\ \A i \in 1..(Len(q) - 1) : i + 1 \in 1..Len(q) /\ i + 1 # 1
  BY <1>1
<1> DEFINE r == Tail(q)
           h == Head(q)
<1>3. /\ DOMAIN r = 1..(Len(q) - 1) /\ h = q[1]
      /\ \A i \in 1..(Len(q) - 1) : r[i] = q[i + 1]
  BY <1>1
<1> HIDE DEF r, h
<1>4. \A kind : /\ Some(r, kind) => Some(q, kind)
                /\ h.kind = kind => Some(q, kind)
  BY <1>1, <1>2, <1>3 DEF Some
<1>5. ASSUME NEW kind, Once(q, kind)
      PROVE  Once(r, kind) /\ (h.kind = kind => ~Some(r, kind))
  <2>1. ASSUME NEW i \in DOMAIN r, NEW k \in DOMAIN r, r[i].kind = kind, r[k].kind = kind
        PROVE  i = k
    <3>1. q[i + 1].kind = kind /\ q[k + 1].kind = kind
      BY <1>3, <2>1
    <3>2. i + 1 = k + 1
      BY <1>1, <1>2, <1>3, <1>5, <2>1, <3>1 DEF Once
    <3>. QED  BY <1>3, <2>1, <3>2
  <2>2. ASSUME h.kind = kind, NEW i \in DOMAIN r PROVE r[i].kind # kind
    <3>1. q[i + 1].kind = r[i].kind /\ q[1].kind = kind
      BY <1>3, <2>2
    <3>2. i + 1 \in DOMAIN q /\ 1 \in DOMAIN q /\ i + 1 # 1
      BY <1>1, <1>2, <1>3, <2>2
    <3>. QED  BY <1>5, <3>1, <3>2 DEF Once
  <2>. QED  BY <2>1, <2>2 DEF Once, Some
<1>6. \A S : All(q, S) => All(r, S) /\ h \in S
  BY <1>1, <1>2, <1>3 DEF All
<1>7. ASSUME ReportFirst(q)
      PROVE  ReportFirst(r) /\ (h.kind = "done" => ~Some(r, "report"))
  <2>1. ASSUME NEW i \in DOMAIN r, NEW k \in DOMAIN r, r[i].kind = "done", r[k].kind = "report"
        PROVE  k < i
    <3>1. q[i + 1].kind = "done" /\ q[k + 1].kind = "report"
      BY <1>3, <2>1
    <3>2. k + 1 < i + 1
      BY <1>1, <1>2, <1>3, <1>7, <2>1, <3>1 DEF ReportFirst
    <3>. QED  BY <1>1, <1>3, <2>1, <3>2
  <2>2. ASSUME h.kind = "done", NEW i \in DOMAIN r PROVE r[i].kind # "report"
    <3>1. q[i + 1].kind = r[i].kind /\ q[1].kind = "done"
      BY <1>3, <2>2
    <3>2. i + 1 \in DOMAIN q /\ 1 \in DOMAIN q /\ ~(i + 1 < 1)
      BY <1>1, <1>2, <1>3, <2>2
    <3>. QED  BY <1>7, <3>1, <3>2 DEF ReportFirst
  <2>. QED  BY <2>1, <2>2 DEF ReportFirst, Some
<1>. QED  BY <1>4, <1>5, <1>6, <1>7 DEF r, h

\* The same for the queue of each tab.
LEMMA PostKeeps ==
  ASSUME NEW queue \in [Tab -> Seq(Message)], NEW t, NEW m \in Message, NEW u \in Tab
  PROVE  LET q == queue[u]
             r == Post(queue, t, m)[u]
         IN  /\ \A kind : Some(r, kind) <=> Some(q, kind) \/ (u = t /\ m.kind = kind)
             /\ \A kind : Once(q, kind) /\ (u = t /\ m.kind = kind => ~Some(q, kind))
                            => Once(r, kind)
             /\ \A S : All(q, S) /\ (u = t => m \in S) => All(r, S)
             /\ ReportFirst(q) /\ (u = t /\ m.kind = "report" => ~Some(q, "done"))
                  => ReportFirst(r)
<1>1. Post(queue, t, m)[u] = IF u = t THEN Append(queue[u], m) ELSE queue[u]
  BY DEF Post
<1>2. queue[u] \in Seq(Message)
  OBVIOUS
<1>3. CASE u = t
  BY <1>1, <1>2, <1>3, AppendKeeps
<1>4. CASE u # t
  BY <1>1, <1>4
<1>. QED  BY <1>3, <1>4

LEMMA PopKeeps ==
  ASSUME NEW queue \in [Tab -> Seq(Message)], NEW t \in Tab, queue[t] # <<>>, NEW u \in Tab
  PROVE  LET q == queue[u]
             r == Pop(queue, t)[u]
             h == Head(queue[t])
         IN  /\ \A kind : Some(r, kind) => Some(q, kind)
             /\ \A kind : u = t /\ h.kind = kind => Some(q, kind)
             /\ \A kind : Once(q, kind) => /\ Once(r, kind)
                                           /\ u = t /\ h.kind = kind => ~Some(r, kind)
             /\ \A S : All(q, S) => All(r, S) /\ (u = t => h \in S)
             /\ ReportFirst(q) => /\ ReportFirst(r)
                                  /\ u = t /\ h.kind = "done" => ~Some(r, "report")
<1>1. Pop(queue, t)[u] = IF u = t THEN Tail(queue[u]) ELSE queue[u]
  BY DEF Pop
<1>2. queue[u] \in Seq(Message)
  OBVIOUS
<1>3. CASE u = t
  BY <1>1, <1>2, <1>3, TailKeeps
<1>4. CASE u # t
  BY <1>1, <1>4
<1>. QED  BY <1>3, <1>4

LEMMA PostSome ==
  ASSUME NEW queue \in [Tab -> Seq(Message)], NEW t, NEW m \in Message
  PROVE  \A u \in Tab : \A kind :
           /\ Some(Post(queue, t, m)[u], kind) <=> Some(queue[u], kind) \/ (u = t /\ m.kind = kind)
           /\ Once(queue[u], kind) /\ (u = t /\ m.kind = kind => ~Some(queue[u], kind))
                => Once(Post(queue, t, m)[u], kind)
<1> SUFFICES ASSUME NEW u \in Tab, NEW kind
             PROVE  /\ Some(Post(queue, t, m)[u], kind) <=>
                         Some(queue[u], kind) \/ (u = t /\ m.kind = kind)
                    /\ Once(queue[u], kind) /\ (u = t /\ m.kind = kind => ~Some(queue[u], kind))
                         => Once(Post(queue, t, m)[u], kind)
  OBVIOUS
<1>. QED  BY PostKeeps

LEMMA PopSome ==
  ASSUME NEW queue \in [Tab -> Seq(Message)], NEW t \in Tab, queue[t] # <<>>
  PROVE  \A u \in Tab : \A kind :
           /\ Some(Pop(queue, t)[u], kind) => Some(queue[u], kind)
           /\ u = t /\ Head(queue[t]).kind = kind => Some(queue[u], kind)
           /\ Once(queue[u], kind) => /\ Once(Pop(queue, t)[u], kind)
                                      /\ u = t /\ Head(queue[t]).kind = kind
                                           => ~Some(Pop(queue, t)[u], kind)
<1> SUFFICES ASSUME NEW u \in Tab, NEW kind
             PROVE  /\ Some(Pop(queue, t)[u], kind) => Some(queue[u], kind)
                    /\ u = t /\ Head(queue[t]).kind = kind => Some(queue[u], kind)
                    /\ Once(queue[u], kind) =>
                         /\ Once(Pop(queue, t)[u], kind)
                         /\ u = t /\ Head(queue[t]).kind = kind => ~Some(Pop(queue, t)[u], kind)
  OBVIOUS
<1>. QED  BY PopKeeps

LEMMA PostEach ==
  ASSUME NEW queue \in [Tab -> Seq(Message)], NEW t, NEW m \in Message, NEW u \in Tab, NEW kind
  PROVE  /\ Some(Post(queue, t, m)[u], kind) <=> Some(queue[u], kind) \/ (u = t /\ m.kind = kind)
         /\ Once(queue[u], kind) /\ (u = t /\ m.kind = kind => ~Some(queue[u], kind))
              => Once(Post(queue, t, m)[u], kind)
  BY PostKeeps

LEMMA PostEvery ==
  ASSUME NEW queue \in [Tab -> Seq(Message)], NEW t, NEW m \in Message, NEW u \in Tab, NEW S,
         All(queue[u], S), u = t => m \in S
  PROVE  All(Post(queue, t, m)[u], S)
  BY PostKeeps

LEMMA PopEach ==
  ASSUME NEW queue \in [Tab -> Seq(Message)], NEW t \in Tab, queue[t] # <<>>, NEW u \in Tab,
         NEW kind
  PROVE  /\ Some(Pop(queue, t)[u], kind) => Some(queue[u], kind)
         /\ u = t /\ Head(queue[t]).kind = kind => Some(queue[u], kind)
         /\ Once(queue[u], kind) => /\ Once(Pop(queue, t)[u], kind)
                                    /\ u = t /\ Head(queue[t]).kind = kind
                                         => ~Some(Pop(queue, t)[u], kind)
  BY PopKeeps

LEMMA PopEvery ==
  ASSUME NEW queue \in [Tab -> Seq(Message)], NEW t \in Tab, queue[t] # <<>>, NEW u \in Tab,
         NEW S, All(queue[u], S)
  PROVE  All(Pop(queue, t)[u], S) /\ (u = t => Head(queue[t]) \in S)
  BY PopKeeps

LEMMA PostAll ==
  ASSUME NEW S, NEW queue \in [Tab -> Seq(Message)], \A u \in Tab : All(queue[u], S),
         NEW t, NEW m \in Message, m \in S
  PROVE  \A u \in Tab : All(Post(queue, t, m)[u], S)
<1> SUFFICES ASSUME NEW u \in Tab PROVE All(Post(queue, t, m)[u], S)
  OBVIOUS
<1>1. All(queue[u], S)
  OBVIOUS
<1>. QED  BY <1>1, PostKeeps

\* What a runtime says at its end, one message after the other.
LEMMA EndSaid ==
  ASSUME Typed, NEW t \in Tab, RunToEnd(t)
  PROVE  LET j == worker[t].instance
             said == Post(outbox, t, Msg("report", j))
         IN  /\ outbox' = Post(said, t, Msg("done", j))
             /\ said \in [Tab -> Seq(Message)]
             /\ j \in Job /\ Msg("report", j) \in Message /\ Msg("done", j) \in Message
<1> DEFINE j == worker[t].instance
           r == Msg("report", j)
           d == Msg("done", j)
<1>1. j \in Job /\ r \in Message /\ d \in Message
  BY MsgTypes DEF RunToEnd, Typed, WorkerTypes, Kind
<1>2. outbox \in [Tab -> Seq(Message)]
  BY TypedIsTypeOK DEF TypeOK
<1>3. Post(outbox, t, r) \in [Tab -> Seq(Message)]
  BY <1>1, <1>2, PostTypes
<1>4. outbox' = [outbox EXCEPT ![t] = @ \o <<r, d>>]
  BY DEF RunToEnd
<1> HIDE DEF r, d
<1>5. outbox[t] \o <<r, d>> = Append(Append(outbox[t], r), d)
  BY <1>1, <1>2
<1>6. outbox' = Post(Post(outbox, t, r), t, d)
  BY <1>2, <1>4, <1>5 DEF Post
<1>. QED  BY <1>1, <1>3, <1>6 DEF r, d

LEMMA TrapSaid ==
  ASSUME Typed, NEW t \in Tab, Trap(t)
  PROVE  LET j == worker[t].instance
             said == Post(outbox, t, Msg("report", j))
         IN  /\ \/ outbox' = Post(outbox, t, Msg("error", j))
                \/ outbox' = Post(said, t, Msg("error", j))
             /\ said \in [Tab -> Seq(Message)]
             /\ j \in Job /\ Msg("report", j) \in Message /\ Msg("error", j) \in Message
<1> DEFINE j == worker[t].instance
           r == Msg("report", j)
           e == Msg("error", j)
<1>1. j \in Job /\ r \in Message /\ e \in Message
  BY MsgTypes DEF Trap, Typed, WorkerTypes, Kind
<1>2. outbox \in [Tab -> Seq(Message)]
  BY TypedIsTypeOK DEF TypeOK
<1>3. Post(outbox, t, r) \in [Tab -> Seq(Message)]
  BY <1>1, <1>2, PostTypes
<1>4. PICK said \in {<<>>, <<r>>} : outbox' = [outbox EXCEPT ![t] = @ \o Append(said, e)]
  BY DEF Trap
<1> HIDE DEF r, e
<1>5. /\ outbox[t] \o Append(<<>>, e) = Append(outbox[t], e)
      /\ outbox[t] \o Append(<<r>>, e) = Append(Append(outbox[t], r), e)
  BY <1>1, <1>2
<1>6. outbox' = Post(outbox, t, e) \/ outbox' = Post(Post(outbox, t, r), t, e)
  BY <1>2, <1>4, <1>5 DEF Post
<1>. QED  BY <1>1, <1>3, <1>6 DEF r, e

-------------------------------------------------------------------------------
(* Jobs in order *)

Broken == closed \/ \E j \in Job : outcome[j] = "rejected"

\* The specs before the one run() is at are settled, and a rejected one has closed
\* the session; those after it have not been submitted.
InOrder ==
  /\ \A j \in Job : j < next => /\ outcome[j] \in {"resolved", "rejected"}
                                /\ outcome[j] = "rejected" => closed
  /\ \A j \in Job : j > next => outcome[j] = "none"

LEMMA JobsAreNumbers == \A j \in Job : j \in Nat
  BY JobsAssumption DEF Job

LEMMA CurrentIsNext ==
  ASSUME Typed, OneJob, InOrder, currentJob # None
  PROVE  /\ currentJob.id = next /\ outcome[next] = "pending" /\ next \in Job
         /\ ~Broken
<1>1. currentJob.id \in Job /\ outcome[currentJob.id] = "pending"
  BY DEF Typed, HostTypes, OneJob
<1>2. currentJob.id = next
  <2>1. ~(currentJob.id < next) /\ ~(currentJob.id > next)
    BY <1>1 DEF InOrder
  <2>2. currentJob.id \in Nat /\ next \in Nat
    BY <1>1, JobsAreNumbers, JobsAssumption DEF Typed, CallerTypes
  <2>. QED  BY <2>1, <2>2
<1>3. ~closed
  BY DEF OneJob
<1>4. \A j \in Job : outcome[j] # "rejected"
  <2> SUFFICES ASSUME NEW j \in Job, outcome[j] = "rejected" PROVE FALSE
    OBVIOUS
  <2>1. j < next \/ j = next \/ j > next
    BY JobsAreNumbers, JobsAssumption DEF Typed, CallerTypes
  <2>. QED  BY <1>1, <1>2, <1>3, <2>1 DEF InOrder
<1>. QED  BY <1>1, <1>2, <1>3, <1>4 DEF Broken

\* What settling and closing do to the outcomes.
LEMMA SettleOutcome ==
  ASSUME Typed, OneJob, NEW how \in {"resolved", "rejected"}, Settle(how)
  PROVE  /\ currentJob' = None
         /\ outcome' = [j \in Job |-> IF outcome[j] = "pending" THEN how ELSE outcome[j]]
<1>1. outcome \in [Job -> {"none", "pending", "resolved", "rejected"}]
  BY DEF Typed, CallerTypes
<1>2. CASE currentJob = None
  BY <1>1, <1>2 DEF Settle, OneJob
<1>3. CASE currentJob # None
  <2>1. /\ currentJob' = None /\ outcome' = [outcome EXCEPT ![currentJob.id] = how]
        /\ currentJob.id \in Job
    BY <1>3 DEF Settle, Typed, HostTypes
  <2>. QED  BY <1>1, <1>3, <2>1 DEF OneJob
<1>. QED  BY <1>2, <1>3

LEMMA CloseOutcome ==
  ASSUME Typed, OneJob, Close
  PROVE  /\ currentJob' = None /\ closed'
         /\ outcome' = [j \in Job |-> IF outcome[j] = "pending" THEN "rejected" ELSE outcome[j]]
         /\ \A t \in Tab : conn'[t] = "new" <=> conn[t] = "new"
<1>1. CASE closed
  <2>1. UNCHANGED <<currentJob, closed, outcome, conn>> /\ currentJob = None
    BY <1>1 DEF Close, OneJob
  <2>. QED  BY <1>1, <2>1 DEF OneJob, Typed, CallerTypes
<1>2. CASE ~closed
  BY <1>2, SettleOutcome DEF Close, Typed, TabTypes
<1>. QED  BY <1>1, <1>2

\* A step of a tab.
LEMMA TabStepElsewhere ==
  ASSUME NEW t \in Tab, Leave(t) \/ PageStep(t) \/ WorkerStep(t) \/ Trap(t)
  PROVE  UNCHANGED <<hostVars, callerVars>>
  BY DEF Leave, PageStep, PageRelays, PageReceives, WorkerStep, WorkerReceives, Instantiate,
         Ask, ReadReply, RunToEnd, Trap

LEMMA OrderStep ==
  ASSUME Typed, OneJob, InOrder, [Next]_vars
  PROVE  InOrder'
<1>0. /\ outcome \in [Job -> {"none", "pending", "resolved", "rejected"}]
      /\ next \in Nat /\ \A j \in Job : j \in Nat
  BY JobsAreNumbers, JobsAssumption DEF Typed, CallerTypes
<1>1. ASSUME UNCHANGED <<next, closed, outcome>> PROVE InOrder'
  BY <1>1 DEF InOrder
<1>2. ASSUME NEW how \in {"resolved", "rejected"}, UNCHANGED <<next, closed>>, Settle(how)
      PROVE  InOrder'
  BY <1>0, <1>2, SettleOutcome DEF InOrder
<1>3. ASSUME UNCHANGED next, Close PROVE InOrder'
  BY <1>0, <1>3, CloseOutcome DEF InOrder
<1>4. CASE Submit
  <2>1. /\ outcome[next] = "none" /\ next \in Job /\ UNCHANGED <<next, closed>>
        /\ \E o \in {"pending", "rejected"} : outcome' = [outcome EXCEPT ![next] = o]
    BY <1>4, JobsAssumption DEF Submit, Typed, CallerTypes, Job
  <2>. QED  BY <1>0, <2>1 DEF InOrder
<1>5. CASE Continue
  <2>1. /\ next \in Job /\ outcome[next] \in {"resolved", "rejected"} /\ next' = next + 1
        /\ \A j \in Job : j < next + 1 <=> j < next \/ j = next
        /\ \A j \in Job : j > next + 1 => j > next
    BY <1>0, <1>5, JobsAssumption DEF Continue, Typed, CallerTypes, Job
  <2>2. CASE outcome[next] = "rejected"
    <3>1. Close
      BY <1>5, <2>2 DEF Continue
    <3>. QED  BY <1>0, <2>1, <2>2, <3>1, CloseOutcome DEF InOrder
  <2>3. CASE outcome[next] # "rejected"
    <3>1. UNCHANGED <<closed, outcome>>
      BY <1>5, <2>3 DEF Continue
    <3>. QED  BY <1>0, <2>1, <2>3, <3>1 DEF InOrder
  <2>. QED  BY <2>2, <2>3
<1>6. CASE BrowserExits \/ TerminalCloses \/ TerminalExits \/ Finish \/ \E t \in Tab : Disconnected(t)
  <2>1. UNCHANGED next /\ (Close \/ UNCHANGED <<closed, outcome>>)
    BY <1>6 DEF BrowserExits, TerminalCloses, TerminalExits, callerVars, tabVars, Finish, Disconnected
  <2>. QED  BY <1>1, <1>3, <2>1
<1>7. CASE \E t \in Tab : Open(t) \/ Leave(t) \/ PageStep(t) \/ WorkerStep(t) \/ Trap(t)
  <2>1. UNCHANGED <<next, closed, outcome>>
    BY <1>7, TabStepElsewhere DEF Open, hostVars, callerVars
  <2>. QED  BY <1>1, <2>1
<1>8. ASSUME NEW t \in Tab, HostHears(t) PROVE InOrder'
  <2>1. /\ UNCHANGED <<next, closed>>
        /\ UNCHANGED outcome \/ \E how \in {"resolved", "rejected"} : Settle(how)
    BY <1>8 DEF HostHears, OnReady, OnInstantiated, OnRequest, OnReport, OnDone, OnError,
                hostVars, callerVars
  <2>. QED  BY <1>1, <1>2, <2>1
<1>9. CASE UNCHANGED vars
  BY <1>1, <1>9 DEF vars, hostVars, callerVars
<1>. QED  BY <1>4, <1>5, <1>6, <1>7, <1>8, <1>9 DEF Next

LEMMA OrderInitially == Init => InOrder
  BY JobsAssumption DEF Init, InOrder, Job

-------------------------------------------------------------------------------
(* What tabs work on has been submitted, and "done" is only said of a spec that ran *)

Begun == {j \in Job : outcome[j] # "none"}
Orders == {m \in Message : m.kind = "load" => m.job \in Begun}
Claims == {m \in Message : m.kind = "done" => m.job \in completed}
Named ==
  /\ \A t \in Tab : All(down[t], Orders) /\ All(inbox[t], Orders)
  /\ \A t \in Tab : All(up[t], Claims) /\ All(outbox[t], Claims)
  /\ \A t \in Tab : worker[t].doing = "loading" => worker[t].load \in Begun
  /\ \A t \in Tab : worker[t].instance \in Begun \cup {None}

\* The queues hold messages.
LEMMA Queues ==
  Typed => {up, down, inbox, outbox} \subseteq [Tab -> Seq(Message)]
  BY TypedIsTypeOK DEF TypeOK

LEMMA AllGrows ==
  ASSUME NEW q, NEW S, NEW T, S \subseteq T, All(q, S)
  PROVE  All(q, T)
  BY DEF All

\* Nothing submitted is taken back, and nothing completed.
LEMMA OnlyMore ==
  ASSUME Typed, OneJob, InOrder, [Next]_vars
  PROVE  Begun \subseteq Begun' /\ completed \subseteq completed'
<1>0. outcome \in [Job -> {"none", "pending", "resolved", "rejected"}]
  BY DEF Typed, CallerTypes
<1>1. CASE UNCHANGED outcome
  <2>1. Begun \subseteq Begun'
    BY <1>1 DEF Begun
  <2>2. completed \subseteq completed'
    BY <1>1, ZenonT(60) DEF Next, vars, tabVars, BrowserExits, TerminalCloses, TerminalExits, callerVars, Submit, Continue, Finish, Open, Leave,
         Disconnected, HostHears, OnReady, OnInstantiated, OnRequest, OnReport, OnDone, OnError,
         PageStep, PageRelays, PageReceives, WorkerStep, WorkerReceives, Instantiate, Ask,
         ReadReply, RunToEnd, Trap
  <2>. QED  BY <2>1, <2>2
<1>2. CASE Settle("resolved") \/ Settle("rejected") \/ Close \/ Submit
  <2>1. Begun \subseteq Begun'
    <3>1. CASE Settle("resolved") \/ Settle("rejected") \/ Close
      BY <1>0, <3>1, SettleOutcome, CloseOutcome DEF Begun
    <3>2. CASE Submit
      BY <1>0, <3>2 DEF Submit, Begun
    <3>. QED  BY <1>2, <3>1, <3>2
  <2>2. completed \subseteq completed'
    BY ZenonT(60) DEF Next, vars, tabVars, BrowserExits, TerminalCloses, TerminalExits, callerVars, Submit, Continue, Finish, Open, Leave,
         Disconnected, HostHears, OnReady, OnInstantiated, OnRequest, OnReport, OnDone, OnError,
         PageStep, PageRelays, PageReceives, WorkerStep, WorkerReceives, Instantiate, Ask,
         ReadReply, RunToEnd, Trap
  <2>. QED  BY <2>1, <2>2
<1>3. UNCHANGED outcome \/ Settle("resolved") \/ Settle("rejected") \/ Close \/ Submit
  <2>1. CASE \E t \in Tab : Leave(t) \/ PageStep(t) \/ WorkerStep(t) \/ Trap(t)
    BY <2>1, TabStepElsewhere DEF callerVars
  <2>2. CASE \E t \in Tab : Open(t) \/ HostHears(t) \/ Disconnected(t)
    BY <2>2 DEF Open, HostHears, OnReady, OnInstantiated, OnRequest, OnReport, OnDone, OnError,
                Disconnected, callerVars
  <2>3. CASE BrowserExits \/ TerminalCloses \/ TerminalExits \/ Submit \/ Continue \/ Finish
    BY <2>3 DEF BrowserExits, TerminalCloses, TerminalExits, callerVars, tabVars, Continue, Finish
  <2>4. CASE UNCHANGED vars
    BY <2>4 DEF vars, callerVars
  <2>. QED  BY <2>1, <2>2, <2>3, <2>4 DEF Next
<1>. QED  BY <1>1, <1>2, <1>3

LEMMA NamedStep ==
  ASSUME Typed, OneJob, InOrder, Named, [Next]_vars
  PROVE  Named'
<1>1. Begun \subseteq Begun' /\ completed \subseteq completed'
  BY OnlyMore
<1>2. Orders \subseteq Orders' /\ Claims \subseteq Claims'
  BY <1>1 DEF Orders, Claims
<1>3. /\ \A q : All(q, Orders) => All(q, Orders')
      /\ \A q : All(q, Claims) => All(q, Claims')
  BY <1>2, AllGrows
<1>4. /\ up \in [Tab -> Seq(Message)] /\ down \in [Tab -> Seq(Message)]
      /\ inbox \in [Tab -> Seq(Message)] /\ outbox \in [Tab -> Seq(Message)]
  BY Queues
<1>5. /\ \A kind \in Kind \ {"load"}, j \in Job \cup {None} : Msg(kind, j) \in Orders'
      /\ \A kind \in Kind \ {"done"}, j \in Job \cup {None} : Msg(kind, j) \in Claims'
      /\ \A j \in Begun' : Msg("load", j) \in Orders'
      /\ \A j \in completed' \cap Job : Msg("done", j) \in Claims'
      /\ \A m \in Message : m.kind # "load" => m \in Orders'
      /\ \A m \in Message : m.kind # "done" => m \in Claims'
  BY MsgTypes DEF Orders, Claims, Msg, Begun, Kind
\* The queues and the worker of a tab, as they are and as they may become.
<1> DEFINE Keeps == /\ UNCHANGED worker
                    /\ \A u \in Tab : All(down'[u], Orders') /\ All(inbox'[u], Orders')
                    /\ \A u \in Tab : All(up'[u], Claims') /\ All(outbox'[u], Claims')
<1>6. ASSUME Keeps PROVE Named'
  BY <1>1, <1>6 DEF Named
<1>7. /\ \A u \in Tab : All(down[u], Orders') /\ All(inbox[u], Orders')
      /\ \A u \in Tab : All(up[u], Claims') /\ All(outbox[u], Claims')
  BY <1>3 DEF Named
<1> HIDE DEF Keeps
<1>8. ASSUME UNCHANGED <<worker, up, down, inbox, outbox>> PROVE Named'
  BY <1>6, <1>7, <1>8 DEF Keeps
<1>9. CASE BrowserExits \/ TerminalCloses \/ TerminalExits \/ Continue \/ Finish \/ \E t \in Tab : Disconnected(t)
  <2>1. UNCHANGED <<worker, up, down, inbox, outbox>>
    BY <1>9 DEF BrowserExits, TerminalCloses, TerminalExits, callerVars, tabVars, Continue, Finish, Disconnected
  <2>. QED  BY <1>8, <2>1
<1>10. CASE Submit
  <2>1. next \in Job /\ UNCHANGED <<worker, up, inbox, outbox>> /\ outcome'[next] # "none"
    BY <1>10, JobsAssumption DEF Submit, Typed, CallerTypes, Job, tabVars
  <2>2. Msg("load", next) \in Orders' /\ Msg("load", next) \in Message
    BY <1>5, <2>1, MsgTypes DEF Begun, Kind
  <2>3. down' = down \/ down' = Post(down, wsSocket, Msg("load", next))
    BY <1>10 DEF Submit
  <2>4. \A u \in Tab : All(down'[u], Orders')
    BY <1>4, <1>7, <2>2, <2>3, PostAll
  <2>. QED  BY <1>6, <1>7, <2>1, <2>4 DEF Keeps
<1>11. ASSUME NEW t \in Tab, Open(t) PROVE Named'
  <2>1. UNCHANGED <<worker, down, inbox, outbox>> /\ up' = Post(up, t, Msg("ready", None))
    BY <1>11 DEF Open
  <2>2. Msg("ready", None) \in Claims' /\ Msg("ready", None) \in Message
    BY <1>5, MsgTypes DEF Kind
  <2>3. \A u \in Tab : All(up'[u], Claims')
    BY <1>4, <1>7, <2>1, <2>2, PostAll
  <2>. QED  BY <1>6, <1>7, <2>1, <2>3 DEF Keeps
<1>12. ASSUME NEW t \in Tab, Leave(t) PROVE Named'
  BY <1>8, <1>12 DEF Leave
<1>13. ASSUME NEW t \in Tab, HostHears(t) PROVE Named'
  <2>1. PICK kind \in Kind : Hears(t, kind)
    BY <1>13 DEF HostHears, OnReady, OnInstantiated, OnRequest, OnReport, OnDone, OnError, Kind
  <2>2. up' = Pop(up, t) /\ up[t] # <<>> /\ Head(up[t]) \in Message
    BY <1>4, <2>1, PopTypes DEF Hears
  <2>3. \A u \in Tab : All(up'[u], Claims')
    BY <1>4, <1>7, <2>2, PopKeeps
  <2>4. UNCHANGED <<worker, inbox, outbox>>
    BY <1>13 DEF HostHears, OnReady, OnInstantiated, OnRequest, OnReport, OnDone, OnError, tabVars
  <2>5. \/ UNCHANGED down \/ down' = Post(down, wsSocket, Msg("start", None))
        \/ down' = Post(down, wsSocket, [Head(up[t]) EXCEPT !.kind = "reply"])
    BY <1>13 DEF HostHears, OnReady, OnInstantiated, OnRequest, OnReport, OnDone, OnError
  <2>6. /\ Msg("start", None) \in Message /\ Msg("start", None) \in Orders'
        /\ [Head(up[t]) EXCEPT !.kind = "reply"] \in Message
        /\ [Head(up[t]) EXCEPT !.kind = "reply"] \in Orders'
    <3>1. /\ [Head(up[t]) EXCEPT !.kind = "reply"] \in Message
          /\ [Head(up[t]) EXCEPT !.kind = "reply"].kind = "reply"
      BY <2>2, MsgTypes DEF Message
    <3>. QED  BY <1>5, <3>1, MsgTypes DEF Kind
  <2>7. \A u \in Tab : All(down'[u], Orders')
    BY <1>4, <1>7, <2>5, <2>6, PostAll
  <2>. QED  BY <1>6, <1>7, <2>3, <2>4, <2>7 DEF Keeps
<1>14. ASSUME NEW t \in Tab, PageRelays(t) PROVE Named'
  <2>1. /\ UNCHANGED <<worker, down, inbox>> /\ outbox' = Pop(outbox, t) /\ outbox[t] # <<>>
        /\ up' = up \/ up' = Post(up, t, Head(outbox[t]))
    BY <1>14 DEF PageRelays
  <2>2. Head(outbox[t]) \in Message /\ Head(outbox[t]) \in Claims'
    BY <1>4, <1>7, <2>1, PopTypes, PopKeeps
  <2>3. \A u \in Tab : All(outbox'[u], Claims')
    BY <1>4, <1>7, <2>1, PopKeeps
  <2>4. \A u \in Tab : All(up'[u], Claims')
    BY <1>4, <1>7, <2>1, <2>2, PostAll
  <2>. QED  BY <1>6, <1>7, <2>1, <2>3, <2>4 DEF Keeps
<1>15. ASSUME NEW t \in Tab, PageReceives(t) PROVE Named'
  <2>1. /\ UNCHANGED <<worker, outbox>> /\ down' = Pop(down, t) /\ down[t] # <<>>
        /\ up' = up \/ up' = Post(up, t, Msg("error", None))
        /\ inbox' = inbox \/ inbox' = Post(inbox, t, Head(down[t]))
    BY <1>15 DEF PageReceives
  <2>2. Head(down[t]) \in Message /\ Head(down[t]) \in Orders'
    BY <1>4, <1>7, <2>1, PopTypes, PopKeeps
  <2>3. \A u \in Tab : All(down'[u], Orders')
    BY <1>4, <1>7, <2>1, PopKeeps
  <2>4. \A u \in Tab : All(inbox'[u], Orders')
    BY <1>4, <1>7, <2>1, <2>2, PostAll
  <2>5. Msg("error", None) \in Message /\ Msg("error", None) \in Claims'
    BY <1>5, MsgTypes DEF Kind
  <2>6. \A u \in Tab : All(up'[u], Claims')
    BY <1>4, <1>7, <2>1, <2>5, PostAll
  <2>. QED  BY <1>6, <1>7, <2>1, <2>3, <2>4, <2>6 DEF Keeps
\* The steps of a worker.
<1> DEFINE Works(t, w) == /\ worker' = [worker EXCEPT ![t] = w]
                          /\ w.doing = "loading" => w.load \in Begun
                          /\ w.instance \in Begun \cup {None}
<1>16. worker \in [Tab -> Runtime] /\ \A t \in Tab : worker[t] \in Runtime
  BY DEF Typed, WorkerTypes
<1>17. ASSUME NEW t \in Tab, NEW w, Works(t, w), UNCHANGED <<up, down>>,
              \A u \in Tab : All(inbox'[u], Orders') /\ All(outbox'[u], Claims')
       PROVE  Named'
  <2>1. \A u \in Tab : worker'[u] = IF u = t THEN w ELSE worker[u]
    BY <1>16, <1>17
  <2>. QED  BY <1>1, <1>7, <1>17, <2>1 DEF Named
<1>18. ASSUME NEW t \in Tab, WorkerReceives(t) PROVE Named'
  <2>1. /\ UNCHANGED <<up, down>> /\ inbox' = Pop(inbox, t) /\ inbox[t] # <<>>
        /\ outbox' = outbox \/ outbox' = Post(outbox, t, Msg("error", None))
    BY <1>18 DEF WorkerReceives
  <2>2. Head(inbox[t]) \in Message /\ Head(inbox[t]) \in Orders
    BY <1>4, <2>1, PopTypes, PopKeeps DEF Named
  <2>3. \A u \in Tab : All(inbox'[u], Orders')
    BY <1>4, <1>7, <2>1, PopKeeps
  <2>4. Msg("error", None) \in Message /\ Msg("error", None) \in Claims'
    BY <1>5, MsgTypes DEF Kind
  <2>5. \A u \in Tab : All(outbox'[u], Claims')
    BY <1>4, <1>7, <2>1, <2>4, PostAll
  <2> DEFINE m == Head(inbox[t])
  <2>6. CASE m.kind = "load"
    <3> DEFINE w == [worker[t] EXCEPT !.doing = "loading", !.load = m.job]
    <3>1. worker' = [worker EXCEPT ![t] = w]
      <4>1. worker' = [worker EXCEPT ![t].doing = "loading", ![t].load = m.job]
        BY <1>18, <2>6 DEF WorkerReceives
      <4>. QED  BY <1>16, <4>1
    <3>2. w.load = m.job /\ w.instance = worker[t].instance /\ m.job \in Begun
      BY <1>16, <2>2, <2>6 DEF Runtime, Orders
    <3>3. Works(t, w)
      BY <3>1, <3>2 DEF Named
    <3> HIDE DEF w, Works
    <3>. QED  BY <1>17, <2>1, <2>3, <2>5, <3>3
  <2>7. CASE m.kind = "start" /\ worker[t].instance # None
    <3> DEFINE w == [worker[t] EXCEPT !.doing = "running", !.asked = 0]
    <3>1. worker' = [worker EXCEPT ![t] = w]
      <4>1. worker' = [worker EXCEPT ![t].doing = "running", ![t].asked = 0]
        BY <1>18, <2>7 DEF WorkerReceives
      <4>. QED  BY <1>16, <4>1
    <3>2. w.doing = "running" /\ w.instance = worker[t].instance
      BY <1>16 DEF Runtime
    <3>3. Works(t, w)
      BY <3>1, <3>2 DEF Named
    <3> HIDE DEF w, Works
    <3>. QED  BY <1>17, <2>1, <2>3, <2>5, <3>3
  <2>8. CASE m.kind # "load" /\ ~(m.kind = "start" /\ worker[t].instance # None)
    <3>1. UNCHANGED worker
      BY <1>18, <2>8 DEF WorkerReceives
    <3>. QED  BY <1>6, <1>7, <2>1, <2>3, <2>5, <3>1 DEF Keeps
  <2>. QED  BY <2>6, <2>7, <2>8
<1>19. ASSUME NEW t \in Tab, Instantiate(t) PROVE Named'
  <2>1. PICK works \in BOOLEAN :
          /\ worker' = [worker EXCEPT ![t].doing = "idle",
                          ![t].instance = IF works THEN worker[t].load ELSE @]
          /\ outbox' = Post(outbox, t, Msg(IF works THEN "instantiated" ELSE "error",
                                           worker[t].load))
    BY <1>19 DEF Instantiate
  <2>2. UNCHANGED <<up, down, inbox>> /\ worker[t].doing = "loading"
    BY <1>19 DEF Instantiate
  <2>3. worker[t].load \in Job \cup {None}
    BY <1>16 DEF Runtime
  <2> DEFINE m == Msg(IF works THEN "instantiated" ELSE "error", worker[t].load)
             w == [worker[t] EXCEPT !.doing = "idle",
                     !.instance = IF works THEN worker[t].load ELSE @]
  <2>4. m \in Message /\ m \in Claims'
    BY <1>5, <2>3, MsgTypes DEF Kind
  <2>5. \A u \in Tab : All(outbox'[u], Claims')
    BY <1>4, <1>7, <2>1, <2>4, PostAll
  <2>6. Works(t, w)
    <3>1. worker' = [worker EXCEPT ![t] = w]
      BY <1>16, <2>1
    <3>2. w.doing = "idle" /\ w.instance = (IF works THEN worker[t].load ELSE worker[t].instance)
      BY <1>16 DEF Runtime
    <3>. QED  BY <2>2, <3>1, <3>2 DEF Named
  <2> HIDE DEF w, Works
  <2>. QED  BY <1>7, <1>17, <2>2, <2>5, <2>6
<1>20. ASSUME NEW t \in Tab, Ask(t) \/ ReadReply(t) \/ RunToEnd(t) \/ Trap(t) PROVE Named'
  <2>1. UNCHANGED <<up, down, inbox>>
    BY <1>20 DEF Ask, ReadReply, RunToEnd, Trap
  <2>2. PICK w : /\ worker' = [worker EXCEPT ![t] = w]
                 /\ w.doing # "loading" /\ w.instance \in {worker[t].instance, None}
    <3>1. CASE Ask(t)
      <4> DEFINE w == [worker[t] EXCEPT !.doing = "waiting", !.asked = @ + 1]
      <4>1. worker' = [worker EXCEPT ![t] = w]
        BY <1>16, <3>1 DEF Ask
      <4>2. w.doing = "waiting" /\ w.instance = worker[t].instance
        BY <1>16 DEF Runtime
      <4>. QED  BY <4>1, <4>2
    <3>2. CASE ReadReply(t)
      <4> DEFINE w == [worker[t] EXCEPT !.doing = "running"]
      <4>1. worker' = [worker EXCEPT ![t] = w]
        BY <1>16, <3>2 DEF ReadReply
      <4>2. w.doing = "running" /\ w.instance = worker[t].instance
        BY <1>16 DEF Runtime
      <4>. QED  BY <4>1, <4>2
    <3>3. CASE RunToEnd(t)
      <4> DEFINE w == [worker[t] EXCEPT !.doing = "idle", !.instance = None]
      <4>1. worker' = [worker EXCEPT ![t] = w]
        BY <1>16, <3>3 DEF RunToEnd
      <4>2. w.doing = "idle" /\ w.instance = None
        BY <1>16 DEF Runtime
      <4>. QED  BY <4>1, <4>2
    <3>4. CASE Trap(t)
      <4> DEFINE w == [worker[t] EXCEPT !.doing = "idle"]
      <4>1. worker' = [worker EXCEPT ![t] = w]
        BY <1>16, <3>4 DEF Trap
      <4>2. w.doing = "idle" /\ w.instance = worker[t].instance
        BY <1>16 DEF Runtime
      <4>. QED  BY <4>1, <4>2
    <3>. QED  BY <1>20, <3>1, <3>2, <3>3, <3>4
  <2>3. Works(t, w)
    BY <2>2 DEF Named
  <2>4. \A u \in Tab : All(outbox'[u], Claims')
    <3>1. CASE Ask(t)
      <4> DEFINE m == [kind |-> "ask", job |-> worker[t].instance, n |-> worker[t].asked + 1]
      <4>1. m \in Message /\ m.kind = "ask"
        BY <1>16, <3>1, JobsAssumption DEF Ask, Message, Kind, Runtime
      <4>2. outbox' = Post(outbox, t, m)
        BY <3>1 DEF Ask
      <4> HIDE DEF m
      <4>. QED  BY <1>4, <1>5, <1>7, <4>1, <4>2, PostAll
    <3>2. CASE ReadReply(t)
      BY <1>7, <3>2 DEF ReadReply
    <3>3. CASE RunToEnd(t)
      <4>1. worker[t].instance \in Job /\ worker[t].instance \in completed'
        BY <3>3 DEF RunToEnd, Typed, WorkerTypes
      <4>2. /\ Msg("report", worker[t].instance) \in Message
            /\ Msg("report", worker[t].instance) \in Claims'
            /\ Msg("done", worker[t].instance) \in Message
            /\ Msg("done", worker[t].instance) \in Claims'
        BY <1>5, <4>1, MsgTypes DEF Kind
      <4>. QED  BY <1>4, <1>7, <3>3, <4>2, EndSaid, PostAll
    <3>4. CASE Trap(t)
      <4>1. worker[t].instance \in Job
        BY <3>4 DEF Trap, Typed, WorkerTypes
      <4>2. /\ Msg("report", worker[t].instance) \in Message
            /\ Msg("report", worker[t].instance) \in Claims'
            /\ Msg("error", worker[t].instance) \in Message
            /\ Msg("error", worker[t].instance) \in Claims'
        BY <1>5, <4>1, MsgTypes DEF Kind
      <4>. QED  BY <1>4, <1>7, <3>4, <4>2, TrapSaid, PostAll
    <3>. QED  BY <1>20, <3>1, <3>2, <3>3, <3>4
  <2> HIDE DEF Works
  <2>. QED  BY <1>7, <1>17, <2>1, <2>3, <2>4
<1>21. CASE UNCHANGED vars
  BY <1>8, <1>21 DEF vars, tabVars
<1>. QED
  BY <1>9, <1>10, <1>11, <1>12, <1>13, <1>14, <1>15, <1>18, <1>19, <1>20, <1>21
     DEF Next, PageStep, WorkerStep

LEMMA NamedInitially == Init => Named
  BY DEF Init, Named, All, Asleep

-------------------------------------------------------------------------------
(* One token *)

\* While the session is whole, the work on the current job is in one place at a time: an
\* order on its way to a worker, a worker that is not idle, or what it says on its way
\* to the host.
Place == {"down", "inbox", "worker", "outbox", "up"}
Has(t, p) ==
  \/ p = "down" /\ (Some(down[t], "load") \/ Some(down[t], "start"))
  \/ p = "inbox" /\ (Some(inbox[t], "load") \/ Some(inbox[t], "start"))
  \/ p = "worker" /\ worker[t].doing # "idle"
  \/ p = "outbox" /\ (Some(outbox[t], "instantiated") \/ Some(outbox[t], "done"))
  \/ p = "up" /\ (Some(up[t], "instantiated") \/ Some(up[t], "done"))
OneToken ==
  \A t, u \in Tab, p, q \in Place : Has(t, p) /\ Has(u, q) => t = u /\ p = q

TokenKind == {"load", "start", "instantiated", "report", "done"}
OnceEach ==
  \A t \in Tab :
    /\ \A kind \in {"load", "start"} : Once(down[t], kind) /\ Once(inbox[t], kind)
    /\ \A kind \in {"instantiated", "done"} : Once(outbox[t], kind) /\ Once(up[t], kind)

\* It is loaded before the host has said "start", and runs and ends after that.
Early(t) ==
  \/ Some(down[t], "load") \/ Some(inbox[t], "load") \/ worker[t].doing = "loading"
  \/ Some(outbox[t], "instantiated") \/ Some(up[t], "instantiated")
Reporting(t) == Some(outbox[t], "report") \/ Some(up[t], "report")
Ending(t) == Some(outbox[t], "done") \/ Some(up[t], "done")
Late(t) ==
  \/ Some(down[t], "start") \/ Some(inbox[t], "start")
  \/ worker[t].doing \in {"running", "waiting"}
  \/ Reporting(t) \/ Ending(t)
Loading(t) == Some(down[t], "load") \/ Some(inbox[t], "load") \/ worker[t].doing = "loading"
InPhase ==
  \A t \in Tab : /\ Early(t) => currentJob # None /\ ~currentJob.started
                 /\ Late(t) => currentJob # None /\ currentJob.started
                 /\ worker[t].instance # None => currentJob # None

\* It is the current job that is worked on.
OrderOf(j) == {m \in Message : m.kind = "load" => m.job = j}
WordOf(j) == {m \in Message : m.kind \in {"report", "done"} => m.job = j}
OfCurrent ==
  currentJob # None =>
    \A t \in Tab :
      /\ All(down[t], OrderOf(currentJob.id)) /\ All(inbox[t], OrderOf(currentJob.id))
      /\ All(outbox[t], WordOf(currentJob.id)) /\ All(up[t], WordOf(currentJob.id))
      /\ worker[t].doing = "loading" => worker[t].load = currentJob.id
      /\ worker[t].instance # None => worker[t].instance = currentJob.id

\* Only one worker has an instance, once it has loaded and until it has ended.
OneInstance ==
  \A t \in Tab : worker[t].instance # None =>
    \A u \in Tab : /\ worker[u].instance # None => t = u
                   /\ ~Loading(u) /\ ~Ending(u)

\* A report is followed by nothing but "done", from the same tab.
ReportsFirst ==
  /\ \A t \in Tab : Reporting(t) =>
       \A u \in Tab, p \in Place : Has(u, p) => u = t /\ p \in {"outbox", "up"}
  /\ \A t \in Tab : /\ Some(up[t], "done") => ~Some(outbox[t], "report")
                    /\ ReportFirst(up[t]) /\ ReportFirst(outbox[t])

Token == OneToken /\ OnceEach /\ InPhase /\ OfCurrent /\ OneInstance /\ ReportsFirst
WholeSession == ~Broken => Token

\* A queue with nothing in it that counts and was not there before.
Fewer(q, r) ==
  /\ \A kind \in TokenKind : /\ Some(r, kind) => Some(q, kind)
                             /\ Once(q, kind) => Once(r, kind)
  /\ \A j \in Job : /\ All(q, OrderOf(j)) => All(r, OrderOf(j))
                    /\ All(q, WordOf(j)) => All(r, WordOf(j))
  /\ ReportFirst(q) => ReportFirst(r)

LEMMA SameIsFewer == \A q : Fewer(q, q)
  BY DEF Fewer

LEMMA PopIsFewer ==
  ASSUME NEW queue \in [Tab -> Seq(Message)], NEW t \in Tab, queue[t] # <<>>
  PROVE  \A u \in Tab : Fewer(queue[u], Pop(queue, t)[u])
<1> SUFFICES ASSUME NEW u \in Tab PROVE Fewer(queue[u], Pop(queue, t)[u])
  OBVIOUS
<1>. QED  BY PopKeeps DEF Fewer

LEMMA PostIsFewer ==
  ASSUME NEW queue \in [Tab -> Seq(Message)], NEW t, NEW m \in Message, m.kind \notin TokenKind
  PROVE  \A u \in Tab : Fewer(queue[u], Post(queue, t, m)[u])
<1> SUFFICES ASSUME NEW u \in Tab PROVE Fewer(queue[u], Post(queue, t, m)[u])
  OBVIOUS
<1>1. \A j \in Job : m \in OrderOf(j) /\ m \in WordOf(j)
  BY DEF OrderOf, WordOf, TokenKind
<1>2. m.kind # "report"
  BY DEF TokenKind
<1> DEFINE r == Post(queue, t, m)[u]
<1>3. /\ \A kind : Some(r, kind) <=> Some(queue[u], kind) \/ (u = t /\ m.kind = kind)
      /\ \A kind : Once(queue[u], kind) /\ (u = t /\ m.kind = kind => ~Some(queue[u], kind))
                     => Once(r, kind)
      /\ ReportFirst(queue[u]) => ReportFirst(r)
  BY <1>2, PostKeeps
<1>4. ASSUME NEW j \in Job
      PROVE  /\ All(queue[u], OrderOf(j)) => All(r, OrderOf(j))
             /\ All(queue[u], WordOf(j)) => All(r, WordOf(j))
  BY <1>1, PostKeeps
<1> HIDE DEF r
<1>5. \A kind \in TokenKind : m.kind # kind
  OBVIOUS
<1>6. \A kind \in TokenKind : /\ Some(r, kind) => Some(queue[u], kind)
                              /\ Once(queue[u], kind) => Once(r, kind)
  BY <1>3, <1>5
<1>7. Fewer(queue[u], r)
  BY <1>3, <1>4, <1>6 DEF Fewer
<1>. QED  BY <1>7 DEF r

\* A worker that works no more than before.
Quieter(w, v) ==
  /\ v.doing = w.doing \/ v.doing = "idle" \/ {w.doing, v.doing} \subseteq {"running", "waiting"}
  /\ v.instance \in {w.instance, None}
  /\ v.load = w.load

LEMMA TokenFewer ==
  ASSUME Typed, Token, UNCHANGED currentJob,
         \A u \in Tab : /\ Fewer(down[u], down'[u]) /\ Fewer(inbox[u], inbox'[u])
                        /\ Fewer(outbox[u], outbox'[u]) /\ Fewer(up[u], up'[u])
                        /\ Quieter(worker[u], worker'[u])
  PROVE  Token'
<1>1. ASSUME NEW u \in Tab
      PROVE  /\ Early(u)' => Early(u)
             /\ Reporting(u)' => Reporting(u)
             /\ Ending(u)' => Ending(u)
             /\ Late(u)' => Late(u)
             /\ Loading(u)' => Loading(u)
             /\ worker'[u].instance # None => worker[u].instance # None
             /\ \A p \in Place : Has(u, p)' => Has(u, p)
  BY DEF Early, Reporting, Ending, Late, Loading, Has, Fewer, Quieter, TokenKind, Place
<1>2. OneToken'
  BY <1>1 DEF Token, OneToken
<1>3. OnceEach'
  BY DEF Token, OnceEach, Fewer, TokenKind
<1>4. InPhase'
  BY <1>1 DEF Token, InPhase
<1>5. OfCurrent'
  <2> SUFFICES ASSUME currentJob # None PROVE OfCurrent'
    BY DEF OfCurrent
  <2>1. currentJob.id \in Job
    BY DEF Typed, HostTypes
  <2>2. ASSUME NEW u \in Tab
        PROVE  /\ All(down'[u], OrderOf(currentJob.id)) /\ All(inbox'[u], OrderOf(currentJob.id))
               /\ All(outbox'[u], WordOf(currentJob.id)) /\ All(up'[u], WordOf(currentJob.id))
    <3>1. /\ All(down[u], OrderOf(currentJob.id)) /\ All(inbox[u], OrderOf(currentJob.id))
          /\ All(outbox[u], WordOf(currentJob.id)) /\ All(up[u], WordOf(currentJob.id))
      BY DEF Token, OfCurrent
    <3>2. ASSUME NEW q, NEW r, Fewer(q, r)
          PROVE  /\ All(q, OrderOf(currentJob.id)) => All(r, OrderOf(currentJob.id))
                 /\ All(q, WordOf(currentJob.id)) => All(r, WordOf(currentJob.id))
      BY <2>1, <3>2 DEF Fewer
    <3>. QED  BY <3>1, <3>2
  <2>3. ASSUME NEW u \in Tab
        PROVE  /\ worker'[u].doing = "loading" => worker'[u].load = currentJob.id
               /\ worker'[u].instance # None => worker'[u].instance = currentJob.id
    BY DEF Token, OfCurrent, Quieter
  <2>. QED  BY <2>2, <2>3 DEF OfCurrent
<1>6. OneInstance'
  BY <1>1 DEF Token, OneInstance
<1>7. ReportsFirst'
  BY <1>1 DEF Token, ReportsFirst, Fewer, TokenKind
<1>. QED  BY <1>2, <1>3, <1>4, <1>5, <1>6, <1>7 DEF Token

\* Where a token is tells the phase, and where it is not.
LEMMA HasPhase ==
  ASSUME Typed, NEW t \in Tab
  PROVE  /\ (\E p \in Place : Has(t, p)) => Early(t) \/ Late(t)
         /\ Early(t) \/ Late(t) => Reporting(t) \/ \E p \in Place : Has(t, p)
<1>1. worker[t].doing \in {"idle", "loading", "running", "waiting"}
  BY DEF Typed, WorkerTypes, Runtime
<1>. QED  BY <1>1 DEF Has, Early, Late, Ending, Place

\* With no current job there is no token at all.
LEMMA NoJobNoToken ==
  ASSUME Typed, Token, currentJob = None, NEW t \in Tab
  PROVE  /\ ~Early(t) /\ ~Late(t) /\ worker[t].instance = None
         /\ \A p \in Place : ~Has(t, p)
  BY HasPhase DEF Token, InPhase

\* A queue without such messages is of any job.
LEMMA NothingOf ==
  ASSUME NEW q \in Seq(Message), NEW j
  PROVE  /\ ~Some(q, "load") => All(q, OrderOf(j))
         /\ ~Some(q, "report") /\ ~Some(q, "done") => All(q, WordOf(j))
<1>1. \A i \in DOMAIN q : q[i] \in Message
  BY ElementOfSeq, LenProperties
<1>. QED  BY <1>1 DEF Some, All, OrderOf, WordOf

LEMMA SubmitToken ==
  ASSUME Typed, Token, Submit, ~closed, currentJob = None
  PROVE  Token'
<1> DEFINE j == next
           m == Msg("load", j)
<1>1. /\ j \in Job /\ m \in Message /\ m.kind = "load" /\ m.job = j
      /\ UNCHANGED <<worker, up, inbox, outbox>> /\ down' = Post(down, wsSocket, m)
      /\ currentJob' = [id |-> j, started |-> FALSE]
  BY JobsAssumption, MsgTypes DEF Submit, Typed, CallerTypes, Job, tabVars, Msg, Kind
<1>2. currentJob' # None /\ currentJob'.id = j /\ ~currentJob'.started
  <2>1. [id |-> j, started |-> FALSE] \in [id : Job, started : BOOLEAN]
    BY <1>1
  <2>. QED  BY <1>1, <2>1, NoneAssumption
<1> HIDE DEF m, j
<1>3. down \in [Tab -> Seq(Message)]
  BY Queues
<1>4. \A u \in Tab :
        /\ \A kind : Some(down'[u], kind) <=> Some(down[u], kind) \/ (u = wsSocket /\ kind = "load")
        /\ \A kind : Once(down[u], kind) /\ (u = wsSocket /\ kind = "load" => ~Some(down[u], kind))
                       => Once(down'[u], kind)
  BY <1>1, <1>3, PostSome, ZenonT(60)
<1>5. \A u \in Tab : /\ ~Early(u) /\ ~Late(u) /\ worker[u].instance = None
                     /\ \A p \in Place : ~Has(u, p)
  BY NoJobNoToken
<1>6. \A u \in Tab : /\ \A p \in Place : Has(u, p)' => u = wsSocket /\ p = "down"
                     /\ ~Late(u)'
  BY <1>1, <1>4, <1>5 DEF Has, Late, Reporting, Ending, Place
<1>7. OneToken'
  BY <1>6 DEF OneToken
<1>8. OnceEach'
  <2>1. \A u \in Tab : ~Some(down[u], "load")
    BY <1>5 DEF Early
  <2>. QED  BY <1>1, <1>4, <2>1 DEF Token, OnceEach
<1>9. InPhase'
  BY <1>1, <1>2, <1>5, <1>6 DEF InPhase
<1>10. OfCurrent'
  <2>1. ASSUME NEW u \in Tab
        PROVE  All(inbox[u], OrderOf(j)) /\ All(outbox[u], WordOf(j)) /\ All(up[u], WordOf(j))
    <3>1. ~Some(inbox[u], "load") /\ ~Reporting(u) /\ ~Ending(u)
      BY <1>5 DEF Early, Late
    <3>2. inbox[u] \in Seq(Message) /\ outbox[u] \in Seq(Message) /\ up[u] \in Seq(Message)
      BY Queues
    <3>. QED  BY <3>1, <3>2, NothingOf DEF Reporting, Ending
  <2>2. \A u \in Tab : All(down'[u], OrderOf(j))
    <3>1. \A u \in Tab : All(down[u], OrderOf(j))
      BY <1>3, <1>5, NothingOf DEF Early
    <3>2. m \in OrderOf(j)
      BY <1>1 DEF OrderOf
    <3>. QED  BY <1>1, <1>3, <3>1, <3>2, PostAll
  <2>. QED  BY <1>1, <1>2, <1>5, <2>1, <2>2 DEF OfCurrent, Early
<1>11. OneInstance'
  BY <1>1, <1>5 DEF OneInstance
<1>12. ReportsFirst'
  BY <1>1, <1>5, <1>6 DEF ReportsFirst, Late, Reporting, Token
<1>. QED  BY <1>7, <1>8, <1>9, <1>10, <1>11, <1>12 DEF Token

\* The current job is loaded: the token goes to the current socket's tab.
LEMMA InstantiatedToken ==
  ASSUME Typed, Token, NEW t \in Tab, OnInstantiated(t)
  PROVE  Token'
<1>1. /\ up[t] # <<>> /\ Head(up[t]).kind = "instantiated" /\ up' = Pop(up, t)
      /\ UNCHANGED <<worker, inbox, outbox>>
      /\ up \in [Tab -> Seq(Message)] /\ down \in [Tab -> Seq(Message)]
  BY Queues DEF OnInstantiated, Hears, tabVars
<1>2. Some(up[t], "instantiated")
  BY <1>1, PopSome
<1>3. currentJob # None /\ ~currentJob.started
  BY <1>2 DEF Token, InPhase, Early
<1> DEFINE m == Msg("start", None)
<1>4. /\ down' = Post(down, wsSocket, m) /\ m \in Message /\ m.kind = "start"
      /\ currentJob' # None /\ currentJob'.started /\ currentJob'.id = currentJob.id
      /\ currentJob.id \in Job
  <2>1. currentJob' = [currentJob EXCEPT !.started = TRUE]
        /\ currentJob \in [id : Job, started : BOOLEAN]
    BY <1>3 DEF OnInstantiated, Typed, HostTypes
  <2>2. currentJob' \in [id : Job, started : BOOLEAN]
        /\ currentJob'.started /\ currentJob'.id = currentJob.id
    BY <2>1
  <2>. QED  BY <1>3, <2>1, <2>2, MsgTypes, NoneAssumption DEF OnInstantiated, Msg, Kind
<1> HIDE DEF m
<1>5. \A u \in Tab : \A kind :
        /\ Some(down'[u], kind) <=> Some(down[u], kind) \/ (u = wsSocket /\ kind = "start")
        /\ Once(down[u], kind) /\ (u = wsSocket /\ kind = "start" => ~Some(down[u], kind))
             => Once(down'[u], kind)
  <2> SUFFICES ASSUME NEW u \in Tab, NEW kind
               PROVE  /\ Some(down'[u], kind) <=> Some(down[u], kind) \/ (u = wsSocket /\ kind = "start")
                      /\ Once(down[u], kind) /\ (u = wsSocket /\ kind = "start" => ~Some(down[u], kind))
                           => Once(down'[u], kind)
    OBVIOUS
  <2>1. m.kind = kind <=> kind = "start"
    BY <1>4
  <2>2. m \in Message /\ down \in [Tab -> Seq(Message)]
    BY <1>1, <1>4
  <2>3. /\ Some(Post(down, wsSocket, m)[u], kind) <=> Some(down[u], kind) \/ (u = wsSocket /\ m.kind = kind)
        /\ Once(down[u], kind) /\ (u = wsSocket /\ m.kind = kind => ~Some(down[u], kind))
             => Once(Post(down, wsSocket, m)[u], kind)
    BY <2>2, PostEach
  <2>4. down' = Post(down, wsSocket, m)
    BY <1>4
  <2>. QED  BY <2>1, <2>3, <2>4
<1>6. \A u \in Tab : \A kind :
        /\ Some(up'[u], kind) => Some(up[u], kind)
        /\ Once(up[u], kind) => /\ Once(up'[u], kind)
                                /\ u = t /\ kind = "instantiated" => ~Some(up'[u], kind)
  BY <1>1, PopSome
\* The token was there and nowhere else, and nothing has ended or reported yet.
<1>7. \A u \in Tab, p \in Place : Has(u, p) => u = t /\ p = "up"
  BY <1>2 DEF Token, OneToken, Has, Place
<1>8. \A u \in Tab : ~Late(u)
  BY <1>3 DEF Token, InPhase
<1>9. ~Some(up'[t], "instantiated")
  BY <1>6 DEF Token, OnceEach
<1>10. \A u \in Tab : /\ ~Early(u)' /\ ~Reporting(u)' /\ ~Ending(u)'
                      /\ ~Some(down[u], "load") /\ ~Some(down[u], "start")
                      /\ ~Some(inbox[u], "load") /\ worker[u].doing = "idle"
  <2> SUFFICES ASSUME NEW u \in Tab
               PROVE  /\ ~Early(u)' /\ ~Reporting(u)' /\ ~Ending(u)'
                      /\ ~Some(down[u], "load") /\ ~Some(down[u], "start")
                      /\ ~Some(inbox[u], "load") /\ worker[u].doing = "idle"
    OBVIOUS
  <2>1. /\ ~Has(u, "down") /\ ~Has(u, "inbox") /\ ~Has(u, "worker") /\ ~Has(u, "outbox")
        /\ u # t => ~Has(u, "up")
    BY <1>7 DEF Place
  <2>2. ~Some(up'[u], "instantiated")
    BY <1>6, <1>9, <2>1 DEF Has
  <2>. QED
    BY <1>1, <1>5, <1>6, <1>8, <2>1, <2>2 DEF Has, Early, Late, Reporting, Ending
<1>11. \A u \in Tab, p \in Place : Has(u, p)' => u = wsSocket /\ p = "down"
  BY <1>1, <1>5, <1>8, <1>10 DEF Has, Late, Ending, Early, Place
<1>12. OneToken'
  BY <1>11 DEF OneToken
<1>13. OnceEach'
  BY <1>1, <1>5, <1>6, <1>10 DEF Token, OnceEach
<1>14. InPhase'
  BY <1>4, <1>10 DEF InPhase
<1>15. OfCurrent'
  <2>1. \A u \in Tab :
          /\ All(down[u], OrderOf(currentJob.id)) /\ All(inbox[u], OrderOf(currentJob.id))
          /\ All(outbox[u], WordOf(currentJob.id)) /\ All(up[u], WordOf(currentJob.id))
          /\ worker[u].doing = "loading" => worker[u].load = currentJob.id
          /\ worker[u].instance # None => worker[u].instance = currentJob.id
    BY <1>3 DEF Token, OfCurrent
  <2>2. m \in OrderOf(currentJob.id)
    BY <1>4 DEF OrderOf
  <2>3. \A u \in Tab : All(down'[u], OrderOf(currentJob.id))
    BY <1>1, <1>4, <2>1, <2>2, PostAll
  <2>4. \A u \in Tab : All(up'[u], WordOf(currentJob.id))
    <3> SUFFICES ASSUME NEW u \in Tab PROVE All(up'[u], WordOf(currentJob.id))
      OBVIOUS
    <3>. QED  BY <1>1, <2>1, PopKeeps
  <2>. QED  BY <1>1, <1>4, <2>1, <2>3, <2>4 DEF OfCurrent
<1>16. OneInstance'
  BY <1>1, <1>10 DEF Token, OneInstance, Loading, Early
<1>17. ReportsFirst'
  <2>1. \A u \in Tab : ReportFirst(up'[u]) /\ ReportFirst(outbox'[u])
    <3> SUFFICES ASSUME NEW u \in Tab PROVE ReportFirst(up'[u]) /\ ReportFirst(outbox'[u])
      OBVIOUS
    <3>. QED  BY <1>1, PopKeeps DEF Token, ReportsFirst
  <2>. QED  BY <1>10, <2>1 DEF ReportsFirst, Reporting, Ending
<1>. QED  BY <1>12, <1>13, <1>14, <1>15, <1>16, <1>17 DEF Token

\* The current job is over: of all its messages and workers nothing is left.
LEMMA DoneToken ==
  ASSUME Typed, OneJob, Token, NEW t \in Tab, OnDone(t)
  PROVE  Token'
<1>1. /\ up[t] # <<>> /\ Head(up[t]).kind = "done" /\ up' = Pop(up, t)
      /\ UNCHANGED <<worker, down, inbox, outbox>>
      /\ up \in [Tab -> Seq(Message)]
  BY Queues DEF OnDone, Hears, tabVars
<1>2. Some(up[t], "done")
  BY <1>1, PopSome
<1>3. currentJob' = None
  BY SettleOutcome DEF OnDone
<1>4. \A u \in Tab : \A kind :
        /\ Some(up'[u], kind) => Some(up[u], kind)
        /\ Once(up[u], kind) => /\ Once(up'[u], kind)
                                /\ u = t /\ kind = "done" => ~Some(up'[u], kind)
  BY <1>1, PopSome
<1>5. \A u \in Tab : /\ ReportFirst(up'[u])
                     /\ u = t => ~Some(up'[u], "report")
  <2> SUFFICES ASSUME NEW u \in Tab
               PROVE  ReportFirst(up'[u]) /\ (u = t => ~Some(up'[u], "report"))
    OBVIOUS
  <2>. QED  BY <1>1, PopKeeps DEF Token, ReportsFirst
<1>6. \A u \in Tab, p \in Place : Has(u, p) => u = t /\ p = "up"
  BY <1>2 DEF Token, OneToken, Has, Place
<1>7. \A u \in Tab : worker[u].instance = None
  BY <1>2 DEF Token, OneInstance, Ending
<1>8. \A u \in Tab : ~Early(u)
  BY <1>2 DEF Token, InPhase, Late, Ending
<1>9. ~Some(up'[t], "done")
  BY <1>4 DEF Token, OnceEach
<1>10. ASSUME NEW u \in Tab
       PROVE  /\ ~Reporting(u)' /\ ~Ending(u)' /\ ~Early(u)' /\ ~Late(u)'
              /\ \A p \in Place : ~Has(u, p)'
  <2>1. /\ ~Has(u, "down") /\ ~Has(u, "inbox") /\ ~Has(u, "worker") /\ ~Has(u, "outbox")
        /\ u # t => ~Has(u, "up")
    BY <1>6 DEF Place
  <2>2. ~Reporting(u)'
    <3>1. u # t => ~Reporting(u)
      BY <1>2 DEF Token, ReportsFirst, Has, Place
    <3>2. u = t => ~Some(outbox[u], "report") /\ ~Some(up'[u], "report")
      BY <1>2, <1>5 DEF Token, ReportsFirst
    <3>. QED  BY <1>1, <1>4, <3>1, <3>2 DEF Reporting
  <2>3. ~Ending(u)' /\ ~Early(u)'
    BY <1>1, <1>4, <1>8, <1>9, <2>1 DEF Ending, Has, Early
  <2>4. \A p \in Place : ~Has(u, p)'
    BY <1>1, <2>1, <2>3 DEF Has, Ending, Early, Place
  <2>5. ~Late(u)'
    BY <1>1, <2>1, <2>2, <2>3 DEF Late, Has
  <2>. QED  BY <2>2, <2>3, <2>4, <2>5
<1>11. OneToken' /\ InPhase' /\ OneInstance'
  BY <1>1, <1>7, <1>10 DEF OneToken, InPhase, OneInstance
<1>12. OnceEach'
  BY <1>1, <1>4 DEF Token, OnceEach
<1>13. OfCurrent'
  BY <1>3 DEF OfCurrent
<1>14. ReportsFirst'
  BY <1>1, <1>5, <1>10 DEF Token, ReportsFirst, Ending
<1>. QED  BY <1>11, <1>12, <1>13, <1>14 DEF Token

\* What the page passes on from the worker stays the one token, and comes after the
\* report that was before it.
LEMMA RelayedToken ==
  ASSUME Typed, Token, NEW t \in Tab, PageRelays(t), conn[t] = "open"
  PROVE  Token'
<1> DEFINE m == Head(outbox[t])
<1>1. /\ outbox[t] # <<>> /\ outbox' = Pop(outbox, t) /\ up' = Post(up, t, m)
      /\ UNCHANGED <<worker, down, inbox, currentJob>>
      /\ up \in [Tab -> Seq(Message)] /\ outbox \in [Tab -> Seq(Message)]
  BY Queues DEF PageRelays, hostVars
<1>2. m \in Message
  BY <1>1, PopTypes
<1>3. ASSUME NEW u \in Tab
      PROVE  /\ \A kind : Some(outbox'[u], kind) => Some(outbox[u], kind)
             /\ u = t => Some(outbox[u], m.kind)
             /\ \A kind : Once(outbox[u], kind) => /\ Once(outbox'[u], kind)
                                                   /\ u = t /\ m.kind = kind
                                                        => ~Some(outbox'[u], kind)
             /\ \A S : All(outbox[u], S) => All(outbox'[u], S) /\ (u = t => m \in S)
             /\ ReportFirst(outbox[u]) => /\ ReportFirst(outbox'[u])
                                          /\ u = t /\ m.kind = "done"
                                               => ~Some(outbox'[u], "report")
  <2>1. \A kind : Some(outbox'[u], kind) => Some(outbox[u], kind)
    BY <1>1, PopKeeps
  <2>2. u = t => Some(outbox[u], m.kind)
    BY <1>1, PopKeeps, SMTT(30)
  <2>3. \A kind : Once(outbox[u], kind) => /\ Once(outbox'[u], kind)
                                           /\ u = t /\ m.kind = kind
                                                => ~Some(outbox'[u], kind)
    BY <1>1, PopKeeps
  <2>4. \A S : All(outbox[u], S) => All(outbox'[u], S) /\ (u = t => m \in S)
    BY <1>1, PopKeeps
  <2>5. ReportFirst(outbox[u]) => /\ ReportFirst(outbox'[u])
                                  /\ u = t /\ m.kind = "done"
                                       => ~Some(outbox'[u], "report")
    BY <1>1, PopKeeps
  <2>. QED  BY <2>1, <2>2, <2>3, <2>4, <2>5
<1> HIDE DEF m
<1>4. ASSUME NEW u \in Tab
      PROVE  /\ \A kind : Some(up'[u], kind) <=> Some(up[u], kind) \/ (u = t /\ m.kind = kind)
             /\ \A kind : Once(up[u], kind) /\ (u = t /\ m.kind = kind => ~Some(up[u], kind))
                            => Once(up'[u], kind)
             /\ \A S : All(up[u], S) /\ (u = t => m \in S) => All(up'[u], S)
             /\ ReportFirst(up[u]) /\ (u = t /\ m.kind = "report" => ~Some(up[u], "done"))
                  => ReportFirst(up'[u])
  <2>1. \A kind : Some(up'[u], kind) <=> Some(up[u], kind) \/ (u = t /\ m.kind = kind)
    BY <1>1, <1>2, PostEach
  <2>2. \A kind : Once(up[u], kind) /\ (u = t /\ m.kind = kind => ~Some(up[u], kind))
                    => Once(up'[u], kind)
    BY <1>1, <1>2, PostEach
  <2>3. \A S : All(up[u], S) /\ (u = t => m \in S) => All(up'[u], S)
    BY <1>1, <1>2, PostEvery
  <2>4. ReportFirst(up[u]) /\ (u = t /\ m.kind = "report" => ~Some(up[u], "done"))
          => ReportFirst(up'[u])
    BY <1>1, <1>2, PostKeeps
  <2>. QED  BY <2>1, <2>2, <2>3, <2>4
<1>5. ASSUME NEW u \in Tab
      PROVE  /\ Early(u)' => Early(u)
             /\ Reporting(u)' => Reporting(u)
             /\ Ending(u)' => Ending(u)
             /\ Late(u)' => Late(u)
             /\ Loading(u)' => Loading(u)
             /\ \A p \in Place : Has(u, p)' =>
                  Has(u, p) \/ (u = t /\ p = "up" /\ m.kind \in {"instantiated", "done"})
  BY <1>1, <1>3, <1>4 DEF Early, Reporting, Ending, Late, Loading, Has, Place
<1>6. ASSUME m.kind \in {"instantiated", "done"}
      PROVE  /\ \A u \in Tab, p \in Place : Has(u, p) => u = t /\ p = "outbox"
             /\ ~Some(up[t], m.kind)
             /\ ~Has(t, "outbox")'
  <2>1. Has(t, "outbox")
    BY <1>3, <1>6 DEF Has
  <2>2. \A u \in Tab, p \in Place : Has(u, p) => u = t /\ p = "outbox"
    BY <2>1 DEF Token, OneToken, Place
  <2>3. ~Has(t, "up")
    BY <2>2 DEF Place
  <2>4. ~Some(outbox'[t], m.kind)
    BY <1>3, <1>6 DEF Token, OnceEach
  <2>5. ~(Some(outbox[t], "instantiated") /\ Some(outbox[t], "done"))
    BY DEF Token, InPhase, Early, Late, Ending
  <2>. QED  BY <1>3, <1>6, <2>2, <2>3, <2>4, <2>5 DEF Has
<1>7. OneToken'
  <2>1. CASE m.kind \in {"instantiated", "done"}
    BY <1>5, <1>6, <2>1 DEF OneToken
  <2>2. CASE m.kind \notin {"instantiated", "done"}
    BY <1>5, <2>2 DEF Token, OneToken
  <2>. QED  BY <2>1, <2>2
<1>8. OnceEach'
  BY <1>1, <1>3, <1>4, <1>6 DEF Token, OnceEach
<1>9. InPhase'
  BY <1>1, <1>5 DEF Token, InPhase
<1>10. OfCurrent'
  <2> SUFFICES ASSUME currentJob # None PROVE OfCurrent'
    BY <1>1 DEF OfCurrent
  <2> DEFINE j == currentJob.id
  <2>1. ASSUME NEW u \in Tab
        PROVE  /\ All(down[u], OrderOf(j)) /\ All(inbox[u], OrderOf(j))
               /\ All(outbox[u], WordOf(j)) /\ All(up[u], WordOf(j))
               /\ worker[u].doing = "loading" => worker[u].load = j
               /\ worker[u].instance # None => worker[u].instance = j
    BY DEF Token, OfCurrent
  <2>2. ASSUME NEW u \in Tab PROVE All(outbox'[u], WordOf(j)) /\ All(up'[u], WordOf(j))
    BY <1>3, <1>4, <2>1
  <2>. QED  BY <1>1, <2>1, <2>2 DEF OfCurrent
<1>11. OneInstance'
  BY <1>1, <1>5 DEF Token, OneInstance
<1>12. ReportsFirst'
  <2>1. ASSUME NEW u \in Tab, Reporting(u)', NEW v \in Tab, NEW p \in Place, Has(v, p)'
        PROVE  v = u /\ p \in {"outbox", "up"}
    <3>1. Reporting(u)
      BY <1>5, <2>1
    <3>2. CASE Has(v, p)
      BY <3>1, <3>2 DEF Token, ReportsFirst
    <3>3. CASE v = t /\ p = "up" /\ m.kind \in {"instantiated", "done"}
      <4>1. Has(t, "outbox")
        BY <1>3, <3>3 DEF Has
      <4>. QED  BY <3>1, <3>3, <4>1 DEF Token, ReportsFirst, Place
    <3>. QED  BY <1>5, <2>1, <3>2, <3>3
  <2>2. ASSUME NEW u \in Tab
        PROVE  /\ Some(up'[u], "done") => ~Some(outbox'[u], "report")
               /\ ReportFirst(up'[u]) /\ ReportFirst(outbox'[u])
    BY <1>3, <1>4 DEF Token, ReportsFirst
  <2>. QED  BY <2>1, <2>2 DEF ReportsFirst
<1>. QED  BY <1>7, <1>8, <1>9, <1>10, <1>11, <1>12 DEF Token

\* An order that the page hands to the worker.
LEMMA DeliveredToken ==
  ASSUME Typed, Token, NEW t \in Tab, PageReceives(t), Head(down[t]).kind # "reply"
  PROVE  Token'
<1> DEFINE m == Head(down[t])
<1>1. /\ down[t] # <<>> /\ down' = Pop(down, t) /\ inbox' = Post(inbox, t, m)
      /\ UNCHANGED <<worker, up, outbox, currentJob>>
      /\ down \in [Tab -> Seq(Message)] /\ inbox \in [Tab -> Seq(Message)]
  BY Queues DEF PageReceives, hostVars
<1>2. m \in Message
  BY <1>1, PopTypes
<1>3. ASSUME NEW u \in Tab
      PROVE  /\ \A kind : Some(down'[u], kind) => Some(down[u], kind)
             /\ u = t => Some(down[u], m.kind)
             /\ \A kind : Once(down[u], kind) => /\ Once(down'[u], kind)
                                                 /\ u = t /\ m.kind = kind
                                                      => ~Some(down'[u], kind)
             /\ \A S : All(down[u], S) => All(down'[u], S) /\ (u = t => m \in S)
  <2>1. \A kind : Some(down'[u], kind) => Some(down[u], kind)
    BY <1>1, PopKeeps
  <2>2. u = t => Some(down[u], m.kind)
    BY <1>1, PopKeeps
  <2>3. \A kind : Once(down[u], kind) => /\ Once(down'[u], kind)
                                         /\ u = t /\ m.kind = kind
                                              => ~Some(down'[u], kind)
    BY <1>1, PopKeeps
  <2>4. \A S : All(down[u], S) => All(down'[u], S) /\ (u = t => m \in S)
    BY <1>1, PopKeeps
  <2>. QED  BY <2>1, <2>2, <2>3, <2>4
<1> HIDE DEF m
<1>4. ASSUME NEW u \in Tab
      PROVE  /\ \A kind : Some(inbox'[u], kind) <=> Some(inbox[u], kind) \/ (u = t /\ m.kind = kind)
             /\ \A kind : Once(inbox[u], kind) /\ (u = t /\ m.kind = kind => ~Some(inbox[u], kind))
                            => Once(inbox'[u], kind)
             /\ \A S : All(inbox[u], S) /\ (u = t => m \in S) => All(inbox'[u], S)
  <2>1. \A kind : Some(inbox'[u], kind) <=> Some(inbox[u], kind) \/ (u = t /\ m.kind = kind)
    BY <1>1, <1>2, PostEach
  <2>2. \A kind : Once(inbox[u], kind) /\ (u = t /\ m.kind = kind => ~Some(inbox[u], kind))
                    => Once(inbox'[u], kind)
    BY <1>1, <1>2, PostEach
  <2>3. \A S : All(inbox[u], S) /\ (u = t => m \in S) => All(inbox'[u], S)
    BY <1>1, <1>2, PostEvery
  <2>. QED  BY <2>1, <2>2, <2>3
<1>5. ASSUME NEW u \in Tab
      PROVE  /\ Early(u)' => Early(u)
             /\ Reporting(u)' <=> Reporting(u)
             /\ Ending(u)' <=> Ending(u)
             /\ Late(u)' => Late(u)
             /\ Loading(u)' => Loading(u)
             /\ \A p \in Place : Has(u, p)' =>
                  Has(u, p) \/ (u = t /\ p = "inbox" /\ m.kind \in {"load", "start"})
  BY <1>1, <1>3, <1>4 DEF Early, Reporting, Ending, Late, Loading, Has, Place
<1>6. ASSUME m.kind \in {"load", "start"}
      PROVE  /\ \A u \in Tab, p \in Place : Has(u, p) => u = t /\ p = "down"
             /\ ~Some(inbox[t], m.kind)
             /\ ~Has(t, "down")'
  <2>1. Has(t, "down")
    BY <1>3, <1>6 DEF Has
  <2>2. \A u \in Tab, p \in Place : Has(u, p) => u = t /\ p = "down"
    BY <2>1 DEF Token, OneToken, Place
  <2>3. ~Has(t, "inbox")
    BY <2>2 DEF Place
  <2>4. ~Some(down'[t], m.kind)
    BY <1>3, <1>6 DEF Token, OnceEach
  <2>5. ~(Some(down[t], "load") /\ Some(down[t], "start"))
    BY DEF Token, InPhase, Early, Late
  <2>. QED  BY <1>3, <1>6, <2>2, <2>3, <2>4, <2>5 DEF Has
<1>7. OneToken'
  <2>1. CASE m.kind \in {"load", "start"}
    BY <1>5, <1>6, <2>1 DEF OneToken
  <2>2. CASE m.kind \notin {"load", "start"}
    BY <1>5, <2>2 DEF Token, OneToken
  <2>. QED  BY <2>1, <2>2
<1>8. OnceEach'
  BY <1>1, <1>3, <1>4, <1>6 DEF Token, OnceEach
<1>9. InPhase'
  BY <1>1, <1>5 DEF Token, InPhase
<1>10. OfCurrent'
  <2> SUFFICES ASSUME currentJob # None PROVE OfCurrent'
    BY <1>1 DEF OfCurrent
  <2> DEFINE j == currentJob.id
  <2>1. ASSUME NEW u \in Tab
        PROVE  /\ All(down[u], OrderOf(j)) /\ All(inbox[u], OrderOf(j))
               /\ All(outbox[u], WordOf(j)) /\ All(up[u], WordOf(j))
               /\ worker[u].doing = "loading" => worker[u].load = j
               /\ worker[u].instance # None => worker[u].instance = j
    BY DEF Token, OfCurrent
  <2>2. ASSUME NEW u \in Tab PROVE All(down'[u], OrderOf(j)) /\ All(inbox'[u], OrderOf(j))
    BY <1>3, <1>4, <2>1
  <2>. QED  BY <1>1, <2>1, <2>2 DEF OfCurrent
<1>11. OneInstance'
  BY <1>1, <1>5 DEF Token, OneInstance
<1>12. ReportsFirst'
  <2>1. ASSUME NEW u \in Tab, Reporting(u)', NEW v \in Tab, NEW p \in Place, Has(v, p)'
        PROVE  v = u /\ p \in {"outbox", "up"}
    <3>1. Reporting(u)
      BY <1>5, <2>1
    <3>2. CASE Has(v, p)
      BY <3>1, <3>2 DEF Token, ReportsFirst
    <3>3. CASE v = t /\ p = "inbox" /\ m.kind \in {"load", "start"}
      <4>1. Has(t, "down")
        BY <1>3, <3>3 DEF Has
      <4>. QED  BY <3>1, <3>3, <4>1 DEF Token, ReportsFirst, Place
    <3>. QED  BY <1>5, <2>1, <3>2, <3>3
  <2>. QED  BY <1>1, <2>1 DEF Token, ReportsFirst
<1>. QED  BY <1>7, <1>8, <1>9, <1>10, <1>11, <1>12 DEF Token

\* An order that the worker obeys.
LEMMA ObeyedToken ==
  ASSUME Typed, Token, NEW t \in Tab, WorkerReceives(t),
         \/ Head(inbox[t]).kind = "load"
         \/ Head(inbox[t]).kind = "start" /\ worker[t].instance # None
  PROVE  Token'
<1> DEFINE m == Head(inbox[t])
           w == worker'[t]
<1>1. /\ inbox[t] # <<>> /\ inbox' = Pop(inbox, t)
      /\ UNCHANGED <<down, up, outbox, currentJob>>
      /\ inbox \in [Tab -> Seq(Message)] /\ m.kind \in {"load", "start"}
  BY Queues DEF WorkerReceives, hostVars
<1>2. /\ \A u \in Tab : u # t => worker'[u] = worker[u]
      /\ w.instance = worker[t].instance
      /\ m.kind = "load" => w.doing = "loading" /\ w.load = m.job
      /\ m.kind = "start" => w.doing = "running" /\ w.instance # None
  <2>1. worker \in [Tab -> Runtime]
    BY DEF Typed, WorkerTypes
  <2>2. CASE m.kind = "load"
    <3>1. worker' = [worker EXCEPT ![t].doing = "loading", ![t].load = m.job]
      BY <2>2 DEF WorkerReceives
    <3>. QED  BY <2>1, <2>2, <3>1 DEF Runtime
  <2>3. CASE m.kind = "start"
    <3>1. worker' = [worker EXCEPT ![t].doing = "running", ![t].asked = 0]
      BY <2>3 DEF WorkerReceives
    <3>. QED  BY <2>1, <2>3, <3>1 DEF Runtime
  <2>. QED  BY <1>1, <2>2, <2>3
<1>3. ASSUME NEW u \in Tab
      PROVE  /\ \A kind : Some(inbox'[u], kind) => Some(inbox[u], kind)
             /\ u = t => Some(inbox[u], m.kind)
             /\ \A kind : Once(inbox[u], kind) => /\ Once(inbox'[u], kind)
                                                  /\ u = t /\ m.kind = kind
                                                       => ~Some(inbox'[u], kind)
             /\ \A S : All(inbox[u], S) => All(inbox'[u], S) /\ (u = t => m \in S)
  <2>1. \A kind : Some(inbox'[u], kind) => Some(inbox[u], kind)
    BY <1>1, PopKeeps
  <2>2. u = t => Some(inbox[u], m.kind)
    BY <1>1, PopKeeps
  <2>3. \A kind : Once(inbox[u], kind) => /\ Once(inbox'[u], kind)
                                          /\ u = t /\ m.kind = kind
                                               => ~Some(inbox'[u], kind)
    BY <1>1, PopKeeps
  <2>4. \A S : All(inbox[u], S) => All(inbox'[u], S) /\ (u = t => m \in S)
    BY <1>1, PopKeeps
  <2>. QED  BY <2>1, <2>2, <2>3, <2>4
<1>4. m \in Message
  BY <1>1, PopTypes
<1> HIDE DEF m
<1>5. /\ \A u \in Tab, p \in Place : Has(u, p) => u = t /\ p = "inbox"
      /\ ~Has(t, "inbox")'
  <2>1. Has(t, "inbox")
    BY <1>1, <1>3 DEF Has
  <2>2. \A u \in Tab, p \in Place : Has(u, p) => u = t /\ p = "inbox"
    BY <2>1 DEF Token, OneToken, Place
  <2>3. ~Some(inbox'[t], m.kind)
    BY <1>1, <1>3 DEF Token, OnceEach
  <2>4. ~(Some(inbox[t], "load") /\ Some(inbox[t], "start"))
    BY DEF Token, InPhase, Early, Late
  <2>. QED  BY <1>1, <1>3, <2>2, <2>3, <2>4 DEF Has
<1>6. ASSUME NEW u \in Tab
      PROVE  /\ Early(u)' => Early(u)
             /\ Reporting(u)' <=> Reporting(u)
             /\ Ending(u)' <=> Ending(u)
             /\ Late(u)' => Late(u)
             /\ Loading(u)' => Loading(u)
             /\ \A p \in Place : Has(u, p)' => u = t /\ p = "worker"
             /\ worker'[u].instance = worker[u].instance
  <2>1. \A p \in Place : Has(u, p)' => u = t /\ p = "worker"
    BY <1>1, <1>2, <1>3, <1>5 DEF Has, Place
  <2>2. /\ Early(u)' => Early(u)
        /\ Reporting(u)' <=> Reporting(u)
        /\ Ending(u)' <=> Ending(u)
        /\ Late(u)' => Late(u)
        /\ Loading(u)' => Loading(u)
        /\ worker'[u].instance = worker[u].instance
    BY <1>1, <1>2, <1>3 DEF Early, Reporting, Ending, Late, Loading
  <2>. QED  BY <2>1, <2>2
<1>7. OneToken'
  BY <1>6 DEF OneToken
<1>8. OnceEach'
  BY <1>1, <1>3 DEF Token, OnceEach
<1>9. InPhase'
  BY <1>1, <1>6 DEF Token, InPhase
<1>10. OfCurrent'
  <2> SUFFICES ASSUME currentJob # None PROVE OfCurrent'
    BY <1>1 DEF OfCurrent
  <2> DEFINE j == currentJob.id
  <2>1. ASSUME NEW u \in Tab
        PROVE  /\ All(down[u], OrderOf(j)) /\ All(inbox[u], OrderOf(j))
               /\ All(outbox[u], WordOf(j)) /\ All(up[u], WordOf(j))
               /\ worker[u].doing = "loading" => worker[u].load = j
               /\ worker[u].instance # None => worker[u].instance = j
    BY DEF Token, OfCurrent
  <2>2. ASSUME NEW u \in Tab
        PROVE  All(inbox'[u], OrderOf(j)) /\ (u = t => m \in OrderOf(j))
    BY <1>3, <2>1
  <2>3. m.kind = "load" => m.job = j
    BY <2>2 DEF OrderOf
  <2>4. ASSUME NEW u \in Tab
        PROVE  /\ worker'[u].doing = "loading" => worker'[u].load = j
               /\ worker'[u].instance # None => worker'[u].instance = j
    BY <1>1, <1>2, <2>1, <2>3
  <2>. QED  BY <1>1, <2>1, <2>2, <2>4 DEF OfCurrent
<1>11. OneInstance'
  BY <1>6 DEF Token, OneInstance
<1>12. ReportsFirst'
  <2>1. ASSUME NEW u \in Tab, Reporting(u)', NEW v \in Tab, NEW p \in Place, Has(v, p)'
        PROVE  FALSE
    <3>1. Reporting(u) /\ Has(t, "inbox")
      BY <1>1, <1>3, <1>6, <2>1 DEF Has
    <3>. QED  BY <3>1 DEF Token, ReportsFirst, Place
  <2>. QED  BY <1>1, <2>1 DEF Token, ReportsFirst
<1>. QED  BY <1>7, <1>8, <1>9, <1>10, <1>11, <1>12 DEF Token

\* The worker has its instance, the first and only one, and says so.
LEMMA LoadedToken ==
  ASSUME Typed, Token, NEW t \in Tab, worker[t].doing = "loading", currentJob # None,
         UNCHANGED <<up, down, inbox, currentJob>>,
         \A u \in Tab : u # t => worker'[u] = worker[u],
         worker'[t].doing = "idle", worker'[t].instance = currentJob.id,
         outbox' = Post(outbox, t, Msg("instantiated", currentJob.id))
  PROVE  Token'
<1> DEFINE j == currentJob.id
           m == Msg("instantiated", j)
<1>1. /\ outbox \in [Tab -> Seq(Message)] /\ m \in Message /\ m.kind = "instantiated"
      /\ j \in Job /\ outbox' = Post(outbox, t, m)
  BY Queues, MsgTypes DEF Typed, HostTypes, Msg, Kind
<1> HIDE DEF m
<1>2. ASSUME NEW u \in Tab
      PROVE  /\ \A kind : Some(outbox'[u], kind)
                            <=> Some(outbox[u], kind) \/ (u = t /\ kind = "instantiated")
             /\ \A kind : Once(outbox[u], kind) /\ (u = t /\ kind = "instantiated"
                                                      => ~Some(outbox[u], kind))
                            => Once(outbox'[u], kind)
             /\ \A S : All(outbox[u], S) /\ (u = t => m \in S) => All(outbox'[u], S)
             /\ ReportFirst(outbox[u]) => ReportFirst(outbox'[u])
  <2> DEFINE r == Post(outbox, t, m)
  <2>0. outbox \in [Tab -> Seq(Message)] /\ m \in Message
    BY <1>1
  <2>1. ASSUME NEW kind
        PROVE  Some(outbox'[u], kind)
                 <=> Some(outbox[u], kind) \/ (u = t /\ kind = "instantiated")
    <3>1. Some(r[u], kind) <=> Some(outbox[u], kind) \/ (u = t /\ m.kind = kind)
      BY <2>0, PostEach
    <3> HIDE DEF r
    <3>. QED  BY <1>1, <3>1 DEF r
  <2>2. ASSUME NEW kind, Once(outbox[u], kind),
               u = t /\ kind = "instantiated" => ~Some(outbox[u], kind)
        PROVE  Once(outbox'[u], kind)
    <3>1. u = t /\ m.kind = kind => ~Some(outbox[u], kind)
      BY <1>1, <2>2
    <3>2. Once(r[u], kind)
      BY <2>0, <2>2, <3>1, PostEach
    <3>. QED  BY <1>1, <3>2
  <2>3. \A S : All(outbox[u], S) /\ (u = t => m \in S) => All(outbox'[u], S)
    BY <1>1, PostEvery
  <2>4. ReportFirst(outbox[u]) => ReportFirst(outbox'[u])
    BY <1>1, PostKeeps, SMTT(30)
  <2>. QED  BY <2>1, <2>2, <2>3, <2>4
<1>3. \A u \in Tab, p \in Place : Has(u, p) => u = t /\ p = "worker"
  <2>1. Has(t, "worker")
    BY DEF Has
  <2>. QED  BY <2>1 DEF Token, OneToken, Place
<1>4. ~currentJob.started /\ \A u \in Tab : ~Late(u) /\ worker[u].instance = None
  BY DEF Token, InPhase, Early, OneInstance, Loading
<1>5. ASSUME NEW u \in Tab
      PROVE  /\ ~Late(u)' /\ ~Loading(u)'
             /\ \A p \in Place : Has(u, p)' => u = t /\ p = "outbox"
             /\ worker'[u].doing = "idle"
             /\ worker'[u].instance = IF u = t THEN j ELSE None
  <2>1. /\ worker'[u].doing = "idle"
        /\ worker'[u].instance = IF u = t THEN j ELSE None
    BY <1>3, <1>4 DEF Has, Place
  <2>2. ~Has(u, "down") /\ ~Has(u, "inbox") /\ (u # t => ~Has(u, "outbox")) /\ ~Has(u, "up")
    BY <1>3 DEF Place
  <2>3. ~Late(u)' /\ ~Loading(u)'
    BY <1>2, <1>4, <2>1, <2>2 DEF Late, Loading, Reporting, Ending, Has
  <2>4. \A p \in Place : Has(u, p)' => u = t /\ p = "outbox"
    BY <1>2, <2>1, <2>2 DEF Has, Place
  <2>. QED  BY <2>1, <2>3, <2>4
<1>6. OneToken'
  BY <1>5 DEF OneToken
<1>7. OnceEach'
  <2>1. ~Some(outbox[t], "instantiated")
    BY <1>3 DEF Has, Place
  <2>. QED  BY <1>2, <2>1 DEF Token, OnceEach
<1>8. InPhase'
  BY <1>4, <1>5 DEF InPhase
<1>9. OfCurrent'
  <2>1. ASSUME NEW u \in Tab
        PROVE  /\ All(down[u], OrderOf(j)) /\ All(inbox[u], OrderOf(j))
               /\ All(outbox[u], WordOf(j)) /\ All(up[u], WordOf(j))
    BY DEF Token, OfCurrent
  <2>2. ASSUME NEW u \in Tab PROVE All(outbox'[u], WordOf(j))
    <3>1. m \in WordOf(j)
      BY <1>1 DEF WordOf
    <3>. QED  BY <1>2, <2>1, <3>1
  <2>. QED  BY <1>5, <2>1, <2>2 DEF OfCurrent
<1>10. OneInstance'
  <2>1. \A u \in Tab : ~Ending(u)'
    BY <1>5 DEF Late
  <2>. QED  BY <1>5, <2>1 DEF OneInstance
<1>11. ReportsFirst'
  <2>1. \A u \in Tab : ~Reporting(u)' /\ ~Ending(u)'
    BY <1>5 DEF Late
  <2>. QED  BY <1>2, <2>1 DEF Token, ReportsFirst, Ending
<1>. QED  BY <1>6, <1>7, <1>8, <1>9, <1>10, <1>11 DEF Token

\* What is true of a queue when a worker has ended: one message, or two.
LEMMA SaidTwice ==
  ASSUME NEW t \in Tab, NEW q \in [Tab -> Seq(Message)], NEW a \in Message, NEW b \in Message,
         NEW u \in Tab
  PROVE  LET r == Post(Post(q, t, a), t, b)
         IN  /\ \A kind : Some(r[u], kind)
                            <=> Some(q[u], kind) \/ (u = t /\ kind \in {a.kind, b.kind})
             /\ \A kind : Once(q[u], kind) /\ a.kind # b.kind
                          /\ (u = t /\ kind \in {a.kind, b.kind} => ~Some(q[u], kind))
                            => Once(r[u], kind)
             /\ \A S : All(q[u], S) /\ a \in S /\ b \in S => All(r[u], S)
             /\ ReportFirst(q[u]) /\ b.kind # "report" /\ ~Some(q[u], "done")
                  => ReportFirst(r[u])
<1> DEFINE s == Post(q, t, a)
           r == Post(s, t, b)
<1>1. s \in [Tab -> Seq(Message)]
  BY PostTypes
<1>2. /\ \A kind : Some(s[u], kind) <=> Some(q[u], kind) \/ (u = t /\ a.kind = kind)
      /\ \A kind : Once(q[u], kind) /\ (u = t /\ a.kind = kind => ~Some(q[u], kind))
                     => Once(s[u], kind)
      /\ \A S : All(q[u], S) /\ (u = t => a \in S) => All(s[u], S)
      /\ ReportFirst(q[u]) /\ (u = t /\ a.kind = "report" => ~Some(q[u], "done"))
           => ReportFirst(s[u])
  BY PostKeeps
<1> HIDE DEF s
<1>3. /\ \A kind : Some(r[u], kind) <=> Some(s[u], kind) \/ (u = t /\ b.kind = kind)
      /\ \A kind : Once(s[u], kind) /\ (u = t /\ b.kind = kind => ~Some(s[u], kind))
                     => Once(r[u], kind)
      /\ \A S : All(s[u], S) /\ (u = t => b \in S) => All(r[u], S)
      /\ ReportFirst(s[u]) /\ (u = t /\ b.kind = "report" => ~Some(s[u], "done"))
           => ReportFirst(r[u])
  BY <1>1, PostKeeps
<1> HIDE DEF r
<1>4. /\ \A kind : Some(r[u], kind)
                     <=> Some(q[u], kind) \/ (u = t /\ kind \in {a.kind, b.kind})
      /\ \A kind : Once(q[u], kind) /\ a.kind # b.kind
                   /\ (u = t /\ kind \in {a.kind, b.kind} => ~Some(q[u], kind))
                     => Once(r[u], kind)
  BY <1>2, <1>3
<1>5. \A S : All(q[u], S) /\ a \in S /\ b \in S => All(r[u], S)
  BY <1>2, <1>3
<1>6. ReportFirst(q[u]) /\ b.kind # "report" /\ ~Some(q[u], "done") => ReportFirst(r[u])
  BY <1>2, <1>3
<1>. QED  BY <1>4, <1>5, <1>6 DEF r, s

LEMMA SaidEach ==
  ASSUME outbox \in [Tab -> Seq(Message)], NEW t \in Tab, NEW a \in Message, NEW b \in Message,
         outbox' = Post(Post(outbox, t, a), t, b), NEW u \in Tab, NEW kind
  PROVE  /\ Some(outbox'[u], kind) <=> Some(outbox[u], kind)
                                       \/ (u = t /\ (kind = a.kind \/ kind = b.kind))
         /\ Once(outbox[u], kind) /\ a.kind # b.kind
            /\ (u = t /\ (kind = a.kind \/ kind = b.kind) => ~Some(outbox[u], kind))
              => Once(outbox'[u], kind)
<1> DEFINE s == Post(outbox, t, a)
           r == Post(s, t, b)
<1>1. s \in [Tab -> Seq(Message)]
  BY PostTypes
<1>2. /\ Some(s[u], kind) <=> Some(outbox[u], kind) \/ (u = t /\ a.kind = kind)
      /\ Once(outbox[u], kind) /\ (u = t /\ a.kind = kind => ~Some(outbox[u], kind))
           => Once(s[u], kind)
  BY PostEach
<1> HIDE DEF s
<1>3. /\ Some(r[u], kind) <=> Some(s[u], kind) \/ (u = t /\ b.kind = kind)
      /\ Once(s[u], kind) /\ (u = t /\ b.kind = kind => ~Some(s[u], kind)) => Once(r[u], kind)
  BY <1>1, PostEach
<1>4. outbox' = r
  BY DEF s
<1> HIDE DEF r
<1>. QED  BY <1>2, <1>3, <1>4

LEMMA SaidEvery ==
  ASSUME NEW t \in Tab, NEW q \in [Tab -> Seq(Message)], NEW a \in Message, NEW b \in Message,
         NEW u \in Tab, NEW S, All(q[u], S), a \in S, b \in S
  PROVE  All(Post(Post(q, t, a), t, b)[u], S)
  BY SaidTwice

LEMMA SaidFirst ==
  ASSUME NEW t \in Tab, NEW q \in [Tab -> Seq(Message)], NEW a \in Message, NEW b \in Message,
         NEW u \in Tab, ReportFirst(q[u]), b.kind # "report", ~Some(q[u], "done")
  PROVE  ReportFirst(Post(Post(q, t, a), t, b)[u])
  BY SaidTwice

\* The spec has run to its end: its report is out, and then "done".
LEMMA EndedToken ==
  ASSUME Typed, Token, NEW t \in Tab, RunToEnd(t)
  PROVE  Token'
<1> DEFINE j == worker[t].instance
           a == Msg("report", j)
           b == Msg("done", j)
<1>1. /\ a \in Message /\ b \in Message /\ a.kind = "report" /\ b.kind = "done"
      /\ a.job = j /\ b.job = j /\ j \in Job
      /\ outbox' = Post(Post(outbox, t, a), t, b)
      /\ UNCHANGED <<up, down, inbox, currentJob>>
      /\ outbox \in [Tab -> Seq(Message)]
  BY EndSaid, Queues DEF RunToEnd, hostVars, Msg
<1>2. /\ worker[t].doing = "running"
      /\ \A u \in Tab : u # t => worker'[u] = worker[u]
      /\ worker'[t].doing = "idle" /\ worker'[t].instance = None
  <2>1. worker \in [Tab -> Runtime]
        /\ worker' = [worker EXCEPT ![t].doing = "idle", ![t].instance = None]
        /\ worker[t].doing = "running"
    BY DEF Typed, WorkerTypes, RunToEnd
  <2>. QED  BY <2>1 DEF Runtime
<1> HIDE DEF a, b
<1>3. ASSUME NEW u \in Tab
      PROVE  /\ \A kind : Some(outbox'[u], kind)
                            <=> Some(outbox[u], kind) \/ (u = t /\ kind \in {"report", "done"})
             /\ \A kind : Once(outbox[u], kind)
                          /\ (u = t /\ kind \in {"report", "done"} => ~Some(outbox[u], kind))
                            => Once(outbox'[u], kind)
             /\ \A S : All(outbox[u], S) /\ a \in S /\ b \in S => All(outbox'[u], S)
             /\ ReportFirst(outbox[u]) /\ ~Some(outbox[u], "done") => ReportFirst(outbox'[u])
  <2>0. /\ \A kind : kind = a.kind \/ kind = b.kind <=> kind \in {"report", "done"}
        /\ a.kind # b.kind /\ b.kind # "report"
    BY <1>1
  <2>5. /\ outbox \in [Tab -> Seq(Message)] /\ a \in Message /\ b \in Message
        /\ outbox' = Post(Post(outbox, t, a), t, b)
    BY <1>1
  <2>1. ASSUME NEW kind
        PROVE  Some(outbox'[u], kind)
                 <=> Some(outbox[u], kind) \/ (u = t /\ kind \in {"report", "done"})
    <3>1. Some(outbox'[u], kind) <=> Some(outbox[u], kind)
                                     \/ (u = t /\ (kind = a.kind \/ kind = b.kind))
      BY <2>5, SaidEach
    <3>. QED  BY <2>0, <3>1
  <2>2. ASSUME NEW kind, Once(outbox[u], kind),
               u = t /\ kind \in {"report", "done"} => ~Some(outbox[u], kind)
        PROVE  Once(outbox'[u], kind)
    <3>1. u = t /\ (kind = a.kind \/ kind = b.kind) => ~Some(outbox[u], kind)
      BY <2>0, <2>2
    <3>2. a.kind # b.kind
      BY <2>0
    <3>. QED  BY <2>2, <2>5, <3>1, <3>2, SaidEach
  <2>3. ASSUME NEW S, All(outbox[u], S), a \in S, b \in S PROVE All(outbox'[u], S)
    BY <1>1, <2>3, SaidEvery
  <2>4. ReportFirst(outbox[u]) /\ ~Some(outbox[u], "done") => ReportFirst(outbox'[u])
    BY <1>1, <2>0, SaidFirst
  <2>. QED  BY <2>1, <2>2, <2>3, <2>4
<1>4. \A u \in Tab, p \in Place : Has(u, p) => u = t /\ p = "worker"
  <2>1. Has(t, "worker")
    BY <1>2 DEF Has
  <2>. QED  BY <2>1 DEF Token, OneToken, Place
<1>5. currentJob # None /\ currentJob.started /\ \A u \in Tab : ~Early(u)
  BY <1>2 DEF Token, InPhase, Late
<1>6. \A u \in Tab : ~Reporting(u)
  <2>1. Has(t, "worker") /\ "worker" \in Place
    BY <1>2 DEF Has, Place
  <2>. QED  BY <2>1 DEF Token, ReportsFirst
<1>7. currentJob.id = j /\ \A u \in Tab : u # t => worker[u].instance = None
  <2>1. j # None
    BY <1>1, NoneAssumption DEF Job
  <2>. QED  BY <1>5, <2>1 DEF Token, OfCurrent, OneInstance
<1>8. ASSUME NEW u \in Tab
      PROVE  /\ ~Early(u)' /\ (u # t => ~Reporting(u)')
             /\ ~Some(up[u], "done") /\ ~Some(outbox[u], "done")
             /\ ~Some(up[u], "report") /\ ~Some(outbox[u], "report")
             /\ \A p \in Place : Has(u, p)' => u = t /\ p = "outbox"
             /\ worker'[u].doing = "idle" /\ worker'[u].instance = None
  <2>1. worker'[u].doing = "idle" /\ worker'[u].instance = None
    BY <1>2, <1>4, <1>7 DEF Has, Place
  <2>2. ~Has(u, "down") /\ ~Has(u, "inbox") /\ ~Has(u, "outbox") /\ ~Has(u, "up")
    BY <1>4 DEF Place
  <2>3. ~Early(u)' /\ (u # t => ~Reporting(u)')
    BY <1>1, <1>3, <1>5, <1>6, <2>1 DEF Early, Reporting
  <2>4. \A p \in Place : Has(u, p)' => u = t /\ p = "outbox"
    BY <1>1, <1>3, <2>1, <2>2 DEF Has, Place
  <2>5. /\ ~Some(up[u], "done") /\ ~Some(outbox[u], "done")
        /\ ~Some(up[u], "report") /\ ~Some(outbox[u], "report")
    BY <1>6, <2>2 DEF Has, Reporting
  <2>. QED  BY <2>1, <2>3, <2>4, <2>5
<1>9. OneToken'
  BY <1>8 DEF OneToken
<1>10. OnceEach'
  BY <1>1, <1>3, <1>8 DEF Token, OnceEach
<1>11. InPhase'
  BY <1>1, <1>5, <1>8 DEF InPhase
<1>12. OfCurrent'
  <2>1. ASSUME NEW u \in Tab
        PROVE  /\ All(down[u], OrderOf(j)) /\ All(inbox[u], OrderOf(j))
               /\ All(outbox[u], WordOf(j)) /\ All(up[u], WordOf(j))
    BY <1>5, <1>7 DEF Token, OfCurrent
  <2>2. ASSUME NEW u \in Tab PROVE All(outbox'[u], WordOf(j))
    <3>1. a \in WordOf(j) /\ b \in WordOf(j)
      BY <1>1 DEF WordOf
    <3>. QED  BY <1>3, <2>1, <3>1
  <2> HIDE DEF j
  <2>3. currentJob'.id = j
    BY <1>1, <1>7
  <2>. QED  BY <1>1, <1>8, <2>1, <2>2, <2>3 DEF OfCurrent
<1>13. OneInstance'
  BY <1>8 DEF OneInstance
<1>14. ReportsFirst'
  BY <1>1, <1>3, <1>8 DEF Token, ReportsFirst
<1>. QED  BY <1>9, <1>10, <1>11, <1>12, <1>13, <1>14 DEF Token

\* It has trapped, and no report is out but its own, which nothing follows.
LEMMA TrappedToken ==
  ASSUME Typed, Token, NEW t \in Tab, Trap(t), NEW e \in Message, e.kind = "error",
         outbox' = Post(Post(outbox, t, Msg("report", worker[t].instance)), t, e)
  PROVE  Token'
<1> DEFINE j == worker[t].instance
           a == Msg("report", j)
<1>1. /\ a \in Message /\ a.kind = "report" /\ a.job = j /\ j \in Job
      /\ outbox' = Post(Post(outbox, t, a), t, e)
      /\ UNCHANGED <<up, down, inbox, currentJob>>
      /\ outbox \in [Tab -> Seq(Message)]
  BY TrapSaid, Queues DEF Trap, hostVars, Msg
<1>2. /\ worker[t].doing = "running"
      /\ \A u \in Tab : u # t => worker'[u] = worker[u]
      /\ worker'[t].doing = "idle" /\ worker'[t].instance = j
  <2>1. worker \in [Tab -> Runtime] /\ worker' = [worker EXCEPT ![t].doing = "idle"]
        /\ worker[t].doing = "running"
    BY DEF Typed, WorkerTypes, Trap
  <2>. QED  BY <2>1 DEF Runtime
<1> HIDE DEF a
<1>3. ASSUME NEW u \in Tab
      PROVE  /\ \A kind : Some(outbox'[u], kind)
                            <=> Some(outbox[u], kind) \/ (u = t /\ kind \in {"report", "error"})
             /\ \A kind : Once(outbox[u], kind)
                          /\ (u = t /\ kind \in {"report", "error"} => ~Some(outbox[u], kind))
                            => Once(outbox'[u], kind)
             /\ \A S : All(outbox[u], S) /\ a \in S /\ e \in S => All(outbox'[u], S)
             /\ ReportFirst(outbox[u]) /\ ~Some(outbox[u], "done") => ReportFirst(outbox'[u])
  <2>0. /\ \A kind : kind = a.kind \/ kind = e.kind <=> kind \in {"report", "error"}
        /\ a.kind # e.kind /\ e.kind # "report"
    BY <1>1
  <2>5. /\ outbox \in [Tab -> Seq(Message)] /\ a \in Message /\ e \in Message
        /\ outbox' = Post(Post(outbox, t, a), t, e)
    BY <1>1
  <2>1. ASSUME NEW kind
        PROVE  Some(outbox'[u], kind)
                 <=> Some(outbox[u], kind) \/ (u = t /\ kind \in {"report", "error"})
    <3>1. Some(outbox'[u], kind) <=> Some(outbox[u], kind)
                                     \/ (u = t /\ (kind = a.kind \/ kind = e.kind))
      BY <2>5, SaidEach
    <3>. QED  BY <2>0, <3>1
  <2>2. ASSUME NEW kind, Once(outbox[u], kind),
               u = t /\ kind \in {"report", "error"} => ~Some(outbox[u], kind)
        PROVE  Once(outbox'[u], kind)
    <3>1. u = t /\ (kind = a.kind \/ kind = e.kind) => ~Some(outbox[u], kind)
      BY <2>0, <2>2
    <3>2. a.kind # e.kind
      BY <2>0
    <3>. QED  BY <2>2, <2>5, <3>1, <3>2, SaidEach
  <2>3. ASSUME NEW S, All(outbox[u], S), a \in S, e \in S PROVE All(outbox'[u], S)
    BY <1>1, <2>3, SaidEvery
  <2>4. ReportFirst(outbox[u]) /\ ~Some(outbox[u], "done") => ReportFirst(outbox'[u])
    BY <1>1, <2>0, SaidFirst
  <2>. QED  BY <2>1, <2>2, <2>3, <2>4
<1>4. \A u \in Tab, p \in Place : Has(u, p) => u = t /\ p = "worker"
  <2>1. Has(t, "worker")
    BY <1>2 DEF Has
  <2>. QED  BY <2>1 DEF Token, OneToken, Place
<1>5. currentJob # None /\ currentJob.started /\ \A u \in Tab : ~Early(u)
  BY <1>2 DEF Token, InPhase, Late
<1>6. ASSUME NEW u \in Tab
      PROVE  /\ ~Early(u)' /\ ~Ending(u)'
             /\ ~Some(up[u], "done") /\ ~Some(outbox[u], "done")
             /\ \A p \in Place : ~Has(u, p)'
             /\ worker'[u].doing = "idle" /\ worker'[u].instance = worker[u].instance
             /\ ~Loading(u)'
  <2>1. worker'[u].doing = "idle" /\ worker'[u].instance = worker[u].instance
    BY <1>2, <1>4 DEF Has, Place
  <2>2. ~Has(u, "down") /\ ~Has(u, "inbox") /\ ~Has(u, "outbox") /\ ~Has(u, "up")
    BY <1>4 DEF Place
  <2>3. ~Early(u)'
    BY <1>1, <1>3, <1>5, <2>1 DEF Early
  <2>4. \A p \in Place : ~Has(u, p)'
    BY <1>1, <1>3, <2>1, <2>2 DEF Has, Place
  <2>5. ~Some(up[u], "done") /\ ~Some(outbox[u], "done")
    BY <2>2 DEF Has
  <2>6. ~Ending(u)' /\ ~Loading(u)'
    BY <1>1, <1>3, <2>3, <2>5 DEF Ending, Loading, Early
  <2>. QED  BY <2>1, <2>3, <2>4, <2>5, <2>6
<1>7. OneToken'
  BY <1>6 DEF OneToken
<1>8. OnceEach'
  BY <1>1, <1>3 DEF Token, OnceEach
<1>9. InPhase'
  BY <1>1, <1>5, <1>6 DEF InPhase
<1>10. OfCurrent'
  <2>1. ASSUME NEW u \in Tab
        PROVE  /\ All(down[u], OrderOf(j)) /\ All(inbox[u], OrderOf(j))
               /\ All(outbox[u], WordOf(j)) /\ All(up[u], WordOf(j))
               /\ worker[u].instance # None => worker[u].instance = j
               /\ currentJob.id = j
    <3>1. j # None
      BY <1>1, NoneAssumption DEF Job
    <3>. QED  BY <1>5, <3>1 DEF Token, OfCurrent
  <2>2. ASSUME NEW u \in Tab PROVE All(outbox'[u], WordOf(j))
    <3>1. a \in WordOf(j) /\ e \in WordOf(j)
      BY <1>1 DEF WordOf
    <3>. QED  BY <1>3, <2>1, <3>1
  <2> HIDE DEF j
  <2>3. currentJob'.id = j
    BY <1>1, <2>1
  <2>. QED  BY <1>1, <1>6, <2>1, <2>2, <2>3 DEF OfCurrent
<1>11. OneInstance'
  BY <1>6 DEF Token, OneInstance
<1>12. ReportsFirst'
  BY <1>1, <1>3, <1>6 DEF Token, ReportsFirst, Ending
<1>. QED  BY <1>7, <1>8, <1>9, <1>10, <1>11, <1>12 DEF Token

\* A session that is broken stays so.
LEMMA StaysBroken ==
  ASSUME Typed, OneJob, Broken, [Next]_vars
  PROVE  Broken'
<1>0. outcome \in [Job -> {"none", "pending", "resolved", "rejected"}]
  BY DEF Typed, CallerTypes
<1>1. ASSUME UNCHANGED <<closed, outcome>> PROVE Broken'
  BY <1>1 DEF Broken
<1>2. ASSUME UNCHANGED closed, NEW how \in {"resolved", "rejected"}, Settle(how) PROVE Broken'
  BY <1>0, <1>2, SettleOutcome DEF Broken
<1>3. ASSUME Close PROVE Broken'
  BY <1>3, CloseOutcome DEF Broken
<1>4. CASE Submit
  <2>1. /\ outcome[next] = "none" /\ UNCHANGED closed
        /\ \E o \in {"pending", "rejected"} : outcome' = [outcome EXCEPT ![next] = o]
    BY <1>4 DEF Submit
  <2>. QED  BY <1>0, <2>1 DEF Broken
<1>5. CASE BrowserExits \/ TerminalCloses \/ TerminalExits \/ Continue \/ Finish \/ \E t \in Tab : Disconnected(t)
  <2>1. Close \/ UNCHANGED <<closed, outcome>>
    BY <1>5 DEF BrowserExits, TerminalCloses, TerminalExits, callerVars, tabVars, Continue, Finish, Disconnected
  <2>. QED  BY <1>1, <1>3, <2>1
<1>6. CASE \E t \in Tab : Open(t) \/ Leave(t) \/ PageStep(t) \/ WorkerStep(t) \/ Trap(t)
  <2>1. UNCHANGED <<closed, outcome>>
    BY <1>6, TabStepElsewhere DEF Open, hostVars, callerVars
  <2>. QED  BY <1>1, <2>1
<1>7. ASSUME NEW t \in Tab, HostHears(t) PROVE Broken'
  <2>1. /\ UNCHANGED closed
        /\ UNCHANGED outcome \/ \E how \in {"resolved", "rejected"} : Settle(how)
    BY <1>7 DEF HostHears, OnReady, OnInstantiated, OnRequest, OnReport, OnDone, OnError,
                hostVars, callerVars
  <2>. QED  BY <1>1, <1>2, <2>1
<1>8. CASE UNCHANGED vars
  BY <1>1, <1>8 DEF vars, hostVars, callerVars
<1>. QED  BY <1>4, <1>5, <1>6, <1>7, <1>8 DEF Next

LEMMA SameIsQuieter == \A w : Quieter(w, w)
  BY DEF Quieter

\* The steps that put nothing in a queue that counts, one lemma for each place they happen.
LEMMA HeardToken ==
  ASSUME Typed, Token, NEW t \in Tab, NEW kind, Hears(t, kind),
         UNCHANGED <<currentJob, inbox, outbox, worker>>,
         \/ UNCHANGED down
         \/ \E s \in Tab, m \in Message : m.kind = "reply" /\ down' = Post(down, s, m)
  PROVE  Token'
<1>1. /\ up[t] # <<>> /\ up' = Pop(up, t)
      /\ up \in [Tab -> Seq(Message)] /\ down \in [Tab -> Seq(Message)]
  BY Queues DEF Hears
<1>2. \A u \in Tab : Fewer(up[u], up'[u])
  BY <1>1, PopIsFewer
<1>3. \A u \in Tab : Fewer(down[u], down'[u])
  <2>1. CASE UNCHANGED down
    BY <2>1, SameIsFewer
  <2>2. ASSUME NEW s \in Tab, NEW m \in Message, m.kind = "reply", down' = Post(down, s, m)
        PROVE  \A u \in Tab : Fewer(down[u], down'[u])
    <3>1. m.kind \notin TokenKind
      BY <2>2 DEF TokenKind
    <3>. QED  BY <1>1, <2>2, <3>1, PostIsFewer
  <2>. QED  BY <2>1, <2>2
<1>4. \A u \in Tab : /\ Fewer(inbox[u], inbox'[u]) /\ Fewer(outbox[u], outbox'[u])
                     /\ Quieter(worker[u], worker'[u])
  BY SameIsFewer, SameIsQuieter
<1>. QED  BY <1>2, <1>3, <1>4, TokenFewer

LEMMA PageToken ==
  ASSUME Typed, Token, NEW t \in Tab, PageStep(t)
  PROVE  Token'
<1>0. /\ up \in [Tab -> Seq(Message)] /\ down \in [Tab -> Seq(Message)]
      /\ outbox \in [Tab -> Seq(Message)]
      /\ UNCHANGED <<currentJob, worker>>
  BY Queues DEF PageStep, PageRelays, PageReceives, hostVars
<1>1. CASE PageRelays(t) /\ conn[t] # "open"
  <2>1. /\ outbox[t] # <<>> /\ outbox' = Pop(outbox, t) /\ UNCHANGED <<up, down, inbox>>
    BY <1>1 DEF PageRelays
  <2>2. \A u \in Tab : Fewer(outbox[u], outbox'[u])
    BY <1>0, <2>1, PopIsFewer
  <2>. QED  BY <1>0, <2>1, <2>2, SameIsFewer, SameIsQuieter, TokenFewer
<1>2. CASE PageReceives(t) /\ Head(down[t]).kind = "reply"
  <2>1. /\ down[t] # <<>> /\ down' = Pop(down, t) /\ UNCHANGED <<outbox, inbox>>
        /\ UNCHANGED up \/ up' = Post(up, t, Msg("error", None))
    BY <1>2 DEF PageReceives
  <2>2. \A u \in Tab : Fewer(down[u], down'[u])
    BY <1>0, <2>1, PopIsFewer
  <2>3. \A u \in Tab : Fewer(up[u], up'[u])
    <3>1. Msg("error", None) \in Message /\ Msg("error", None).kind \notin TokenKind
      BY MsgTypes DEF Msg, Kind, TokenKind
    <3>. QED  BY <1>0, <2>1, <3>1, SameIsFewer, PostIsFewer
  <2>. QED  BY <1>0, <2>1, <2>2, <2>3, SameIsFewer, SameIsQuieter, TokenFewer
<1>. QED  BY <1>1, <1>2, RelayedToken, DeliveredToken DEF PageStep

LEMMA WorkerToken ==
  ASSUME Typed, Token, NEW t \in Tab, WorkerStep(t) \/ Trap(t)
  PROVE  Token'
<1>0. /\ inbox \in [Tab -> Seq(Message)] /\ outbox \in [Tab -> Seq(Message)]
      /\ UNCHANGED <<currentJob, up, down>>
      /\ worker \in [Tab -> Runtime]
  BY Queues DEF WorkerStep, WorkerReceives, Instantiate, Ask, ReadReply, RunToEnd, Trap, hostVars,
                Typed, WorkerTypes
\* What does not count.
<1>1. ASSUME NEW m \in Message, m.kind \in {"error", "ask"}, outbox' = Post(outbox, t, m)
      PROVE  \A u \in Tab : Fewer(outbox[u], outbox'[u])
  <2>1. m.kind \notin TokenKind
    BY <1>1 DEF TokenKind
  <2>. QED  BY <1>0, <1>1, <2>1, PostIsFewer
<1>2. \A j \in Job \cup {None} : Msg("error", j) \in Message /\ Msg("error", j).kind = "error"
  BY MsgTypes DEF Msg, Kind
<1>3. CASE WorkerReceives(t)
  <2> DEFINE m == Head(inbox[t])
  <2>1. CASE m.kind = "load" \/ (m.kind = "start" /\ worker[t].instance # None)
    BY <1>3, <2>1, ObeyedToken
  <2>2. CASE m.kind # "load" /\ ~(m.kind = "start" /\ worker[t].instance # None)
    <3>1. /\ inbox[t] # <<>> /\ inbox' = Pop(inbox, t) /\ UNCHANGED worker
          /\ outbox' = Post(outbox, t, Msg("error", None))
      <4>1. inbox[t] # <<>> /\ inbox' = Pop(inbox, t)
        BY <1>3 DEF WorkerReceives
      <4>3. UNCHANGED worker /\ outbox' = Post(outbox, t, Msg("error", None))
        BY <1>3, <2>2 DEF WorkerReceives
      <4>. QED  BY <4>1, <4>3
    <3>2. \A u \in Tab : Fewer(inbox[u], inbox'[u])
      BY <1>0, <3>1, PopIsFewer
    <3>3. \A u \in Tab : Fewer(outbox[u], outbox'[u])
      BY <1>1, <1>2, <3>1
    <3>. QED  BY <1>0, <3>1, <3>2, <3>3, SameIsFewer, SameIsQuieter, TokenFewer
  <2>. QED  BY <2>1, <2>2
<1>4. CASE Instantiate(t)
  <2>1. PICK works \in {FALSE, conn[t] = "open" /\ currentJob # None
                                 /\ currentJob.id = worker[t].load} :
          /\ worker' = [worker EXCEPT ![t].doing = "idle",
                          ![t].instance = IF works THEN worker[t].load ELSE @]
          /\ outbox' = Post(outbox, t, Msg(IF works THEN "instantiated" ELSE "error",
                                           worker[t].load))
    BY <1>4 DEF Instantiate
  <2>2. UNCHANGED inbox /\ worker[t].doing = "loading" /\ worker[t].load \in Job \cup {None}
    BY <1>0, <1>4 DEF Instantiate, Runtime
  <2>3. CASE works
    <3>1. /\ currentJob # None /\ currentJob.id = worker[t].load
          /\ outbox' = Post(outbox, t, Msg("instantiated", currentJob.id))
          /\ worker' = [worker EXCEPT ![t].doing = "idle", ![t].instance = worker[t].load]
      BY <2>1, <2>3
    <3>2. /\ \A u \in Tab : u # t => worker'[u] = worker[u]
          /\ worker'[t].doing = "idle" /\ worker'[t].instance = currentJob.id
      BY <1>0, <3>1 DEF Runtime
    <3>. QED  BY <1>0, <2>2, <3>1, <3>2, LoadedToken
  <2>4. CASE ~works
    <3>1. /\ outbox' = Post(outbox, t, Msg("error", worker[t].load))
          /\ worker' = [worker EXCEPT ![t].doing = "idle", ![t].instance = @]
      BY <2>1, <2>4
    <3>2. \A u \in Tab : Quieter(worker[u], worker'[u])
      BY <1>0, <3>1 DEF Runtime, Quieter
    <3>3. \A u \in Tab : Fewer(outbox[u], outbox'[u])
      BY <1>1, <1>2, <2>2, <3>1
    <3>. QED  BY <1>0, <2>2, <3>2, <3>3, SameIsFewer, TokenFewer
  <2>. QED  BY <2>3, <2>4
<1>5. CASE Ask(t)
  <2> DEFINE m == [kind |-> "ask", job |-> worker[t].instance, n |-> worker[t].asked + 1]
  <2>1. m \in Message /\ m.kind = "ask"
    BY <1>0, <1>5, JobsAssumption DEF Ask, Message, Kind, Runtime
  <2>2. outbox' = Post(outbox, t, m) /\ UNCHANGED inbox
    BY <1>5 DEF Ask
  <2> HIDE DEF m
  <2>3. \A u \in Tab : Quieter(worker[u], worker'[u])
    BY <1>0, <1>5 DEF Ask, Runtime, Quieter
  <2>4. \A u \in Tab : Fewer(outbox[u], outbox'[u])
    BY <1>1, <2>1, <2>2
  <2>. QED  BY <1>0, <2>2, <2>3, <2>4, SameIsFewer, TokenFewer
<1>6. CASE ReadReply(t)
  <2>1. UNCHANGED <<inbox, outbox>>
    BY <1>6 DEF ReadReply
  <2>2. \A u \in Tab : Quieter(worker[u], worker'[u])
    BY <1>0, <1>6 DEF ReadReply, Runtime, Quieter
  <2>. QED  BY <1>0, <2>1, <2>2, SameIsFewer, TokenFewer
<1>7. CASE Trap(t)
  <2> DEFINE j == worker[t].instance
  <2>1. j \in Job /\ Msg("error", j) \in Message /\ Msg("error", j).kind = "error"
    BY <1>7, TrapSaid DEF Msg
  <2>2. CASE outbox' = Post(outbox, t, Msg("error", j))
    <3>1. \A u \in Tab : Quieter(worker[u], worker'[u])
      BY <1>0, <1>7 DEF Trap, Runtime, Quieter
    <3>2. \A u \in Tab : Fewer(outbox[u], outbox'[u])
      BY <1>1, <2>1, <2>2
    <3>3. UNCHANGED inbox
      BY <1>7 DEF Trap
    <3>. QED  BY <1>0, <3>1, <3>2, <3>3, SameIsFewer, TokenFewer
  <2>3. CASE outbox' = Post(Post(outbox, t, Msg("report", j)), t, Msg("error", j))
    BY <1>7, <2>1, <2>3, TrappedToken
  <2>. QED  BY <1>7, <2>2, <2>3, TrapSaid
<1>. QED  BY <1>3, <1>4, <1>5, <1>6, <1>7, EndedToken DEF WorkerStep

LEMMA WholeStep ==
  ASSUME Typed, Connected, OneJob, InOrder, WholeSession, [Next]_vars
  PROVE  WholeSession'
<1> SUFFICES ASSUME ~Broken' PROVE Token'
  BY DEF WholeSession
<1>0. Token /\ ~Broken
  BY StaysBroken DEF WholeSession
<1>1. ~closed /\ \A j \in Job : outcome[j] # "rejected"
  BY <1>0 DEF Broken
<1>2. ~closed' /\ \A j \in Job : outcome'[j] # "rejected"
  BY DEF Broken
<1>3. ASSUME UNCHANGED <<currentJob, up, down, inbox, outbox, worker>> PROVE Token'
  BY <1>0, <1>3, SameIsFewer, SameIsQuieter, TokenFewer
<1>4. ~Close
  BY <1>2, CloseOutcome
<1>5. CASE BrowserExits \/ TerminalCloses \/ TerminalExits \/ Finish \/ \E t \in Tab : Disconnected(t)
  <2>1. UNCHANGED <<currentJob, up, down, inbox, outbox, worker>>
    BY <1>4, <1>5 DEF BrowserExits, TerminalCloses, TerminalExits, callerVars, tabVars, Finish, Disconnected
  <2>. QED  BY <1>3, <2>1
<1>6. CASE Submit
  <2>1. currentJob = None
    <3>1. next \in Job /\ outcome \in [Job -> {"none", "pending", "resolved", "rejected"}]
      BY <1>6, JobsAssumption DEF Submit, Typed, CallerTypes, Job
    <3>. QED  BY <1>2, <1>6, <3>1 DEF Submit
  <2>. QED  BY <1>0, <1>1, <1>6, <2>1, SubmitToken
<1>7. CASE Continue
  <2>1. UNCHANGED <<currentJob, up, down, inbox, outbox, worker>>
    BY <1>4, <1>7 DEF Continue
  <2>. QED  BY <1>3, <2>1
<1>8. ASSUME NEW t \in Tab, Open(t) PROVE Token'
  <2>1. UNCHANGED <<currentJob, down, inbox, outbox, worker>>
        /\ up' = Post(up, t, Msg("ready", None)) /\ up \in [Tab -> Seq(Message)]
    BY <1>8, Queues DEF Open
  <2>2. Msg("ready", None) \in Message /\ Msg("ready", None).kind \notin TokenKind
    BY MsgTypes DEF Msg, Kind, TokenKind
  <2>3. \A u \in Tab : Fewer(up[u], up'[u])
    BY <2>1, <2>2, PostIsFewer
  <2>. QED  BY <1>0, <2>1, <2>3, SameIsFewer, SameIsQuieter, TokenFewer
<1>9. ASSUME NEW t \in Tab, Leave(t) PROVE Token'
  BY <1>3, <1>9 DEF Leave, hostVars
<1>10. ASSUME NEW t \in Tab, HostHears(t) PROVE Token'
  <2>1. CASE OnInstantiated(t) \/ OnDone(t)
    BY <1>0, <2>1, InstantiatedToken, DoneToken
  <2>2. CASE OnReady(t)
    <3>1. Hears(t, "ready") /\ UNCHANGED <<currentJob, down, inbox, outbox, worker>>
      BY <2>2 DEF OnReady, tabVars
    <3>. QED  BY <1>0, <3>1, HeardToken
  <2>3. CASE OnRequest(t)
    <3>1. Hears(t, "ask") /\ UNCHANGED <<currentJob, inbox, outbox, worker>>
      BY <2>3 DEF OnRequest, hostVars, tabVars
    <3>2. UNCHANGED down
          \/ \E s \in Tab, m \in Message : m.kind = "reply" /\ down' = Post(down, s, m)
      <4> DEFINE m == [Head(up[t]) EXCEPT !.kind = "reply"]
      <4>1. m \in Message /\ m.kind = "reply"
        <5>1. Head(up[t]) \in Message
          BY <3>1, Queues, PopTypes DEF Hears
        <5>. QED  BY <5>1 DEF Message, Kind
      <4>2. UNCHANGED down \/ (wsSocket \in Tab /\ down' = Post(down, wsSocket, m))
        BY <2>3 DEF OnRequest, Typed, HostTypes
      <4>. QED  BY <4>1, <4>2
    <3>. QED  BY <1>0, <3>1, <3>2, HeardToken
  <2>4. CASE OnReport(t)
    <3>1. Hears(t, "report") /\ UNCHANGED <<currentJob, down, inbox, outbox, worker>>
      BY <2>4 DEF OnReport, hostVars, tabVars
    <3>. QED  BY <1>0, <3>1, HeardToken
  <2>5. CASE OnError(t)
    <3>1. currentJob = None
      <4> SUFFICES ASSUME currentJob # None PROVE FALSE
        OBVIOUS
      <4>1. currentJob.id \in Job /\ outcome[currentJob.id] = "pending"
        BY DEF Typed, HostTypes, OneJob
      <4>2. outcome'[currentJob.id] = "rejected"
        BY <2>5, <4>1, SettleOutcome DEF OnError
      <4>. QED  BY <1>2, <4>1, <4>2
    <3>2. Hears(t, "error") /\ UNCHANGED <<currentJob, down, inbox, outbox, worker>>
      BY <2>5, <3>1 DEF OnError, Settle, tabVars
    <3>. QED  BY <1>0, <3>2, HeardToken
  <2>. QED  BY <1>10, <2>1, <2>2, <2>3, <2>4, <2>5 DEF HostHears
<1>11. CASE UNCHANGED vars
  BY <1>3, <1>11 DEF vars, hostVars, tabVars
<1>. QED
  BY <1>0, <1>5, <1>6, <1>7, <1>8, <1>9, <1>10, <1>11, PageToken, WorkerToken DEF Next

LEMMA WholeInitially == Init => WholeSession
<1> SUFFICES ASSUME Init PROVE Token
  BY DEF WholeSession
<1>1. \A t \in Tab : /\ up[t] = <<>> /\ down[t] = <<>> /\ inbox[t] = <<>> /\ outbox[t] = <<>>
                     /\ worker[t].doing = "idle" /\ worker[t].instance = None
  BY DEF Init, Asleep
<1>2. \A kind : ~Some(<<>>, kind) /\ Once(<<>>, kind)
  BY DEF Some, Once
<1>3. ReportFirst(<<>>) /\ \A S : All(<<>>, S)
  BY DEF ReportFirst, All
<1>4. \A t \in Tab : /\ ~Early(t) /\ ~Late(t) /\ ~Reporting(t) /\ ~Ending(t)
                     /\ \A p \in Place : ~Has(t, p)
  BY <1>1, <1>2 DEF Early, Late, Reporting, Ending, Has, Place
<1>5. OneToken /\ OnceEach /\ InPhase /\ OneInstance
  BY <1>1, <1>2, <1>4 DEF OneToken, OnceEach, InPhase, OneInstance
<1>6. OfCurrent
  BY DEF Init, OfCurrent
<1>7. ReportsFirst
  BY <1>1, <1>3, <1>4 DEF ReportsFirst, Ending
<1>. QED  BY <1>5, <1>6, <1>7 DEF Token

-------------------------------------------------------------------------------
(* Whose report it is *)

OwnReports == \A j \in Job : reports[j] \subseteq {j}

LEMMA OwnReportsStep ==
  ASSUME Typed, OneJob, InOrder, WholeSession, OwnReports, [Next]_vars
  PROVE  OwnReports'
<1>1. ASSUME UNCHANGED reports PROVE OwnReports'
  BY <1>1 DEF OwnReports
<1>2. ASSUME NEW t \in Tab, OnReport(t), currentJob # None PROVE OwnReports'
  <2> DEFINE m == Head(up[t])
  <2>1. Token
    BY <1>2, CurrentIsNext DEF WholeSession
  <2>2. m.kind = "report" /\ m \in WordOf(currentJob.id)
    <3>1. All(up[t], WordOf(currentJob.id)) /\ up[t] # <<>> /\ up \in [Tab -> Seq(Message)]
      BY <1>2, <2>1, Queues DEF Token, OfCurrent, OnReport, Hears
    <3>. QED  BY <1>2, <3>1, PopKeeps DEF OnReport, Hears
  <2>3. m.job = currentJob.id
    BY <2>2 DEF WordOf
  <2>4. reports' = [reports EXCEPT ![currentJob.id] = @ \cup {currentJob.id}]
        /\ reports \in [Job -> SUBSET Job]
    BY <1>2, <2>3 DEF OnReport, Typed, CallerTypes
  <2>. QED  BY <2>4 DEF OwnReports
<1>3. ASSUME NEW t \in Tab, HostHears(t) PROVE OwnReports'
  <2>1. CASE OnReport(t)
    BY <1>1, <1>2, <2>1 DEF OnReport
  <2>2. CASE ~OnReport(t)
    <3>1. UNCHANGED reports
      BY <1>3, <2>2 DEF HostHears, OnReady, OnInstantiated, OnRequest, OnDone, OnError,
                        callerVars
    <3>. QED  BY <1>1, <3>1
  <2>. QED  BY <2>1, <2>2
<1>4. CASE \E t \in Tab : Leave(t) \/ PageStep(t) \/ WorkerStep(t) \/ Trap(t)
  BY <1>1, <1>4, TabStepElsewhere DEF callerVars
<1>5. CASE BrowserExits \/ TerminalCloses \/ TerminalExits \/ Submit \/ Continue \/ Finish
           \/ \E t \in Tab : Open(t) \/ Disconnected(t)
  <2>1. UNCHANGED reports
    BY <1>5 DEF BrowserExits, TerminalCloses, TerminalExits, callerVars, tabVars, Submit, Continue, Finish, Open, Disconnected,
                callerVars
  <2>. QED  BY <1>1, <2>1
<1>6. CASE UNCHANGED vars
  BY <1>1, <1>6 DEF vars, callerVars
<1>. QED  BY <1>3, <1>4, <1>5, <1>6 DEF Next

-------------------------------------------------------------------------------
(* One request *)

\* A tab that has connected never becomes new again.
LEMMA SecondTabStays ==
  ASSUME Typed, OneJob, [Next]_vars
  PROVE  /\ \A t \in Tab : conn[t] # "new" => conn'[t] # "new"
         /\ SecondTab => SecondTab'
<1> SUFFICES \A t \in Tab : conn[t] # "new" => conn'[t] # "new"
  BY DEF SecondTab
<1>0. conn \in [Tab -> {"new", "open", "closing", "cut", "gone"}]
  BY DEF Typed, TabTypes
<1>1. CASE UNCHANGED conn
  BY <1>1
<1>2. CASE Close
  BY <1>2, CloseOutcome
<1>3. ASSUME NEW t \in Tab, Open(t) \/ Leave(t)
      PROVE  \A u \in Tab : conn[u] # "new" => conn'[u] # "new"
  BY <1>0, <1>3 DEF Open, Leave
<1>4. CASE BrowserExits \/ TerminalCloses \/ TerminalExits \/ Continue \/ Finish \/ \E t \in Tab : Disconnected(t)
  <2>1. UNCHANGED conn \/ Close
    BY <1>4 DEF BrowserExits, TerminalCloses, TerminalExits, callerVars, tabVars, Continue, Finish, Disconnected
  <2>. QED  BY <1>1, <1>2, <2>1
<1>5. CASE Submit \/ UNCHANGED vars \/ \E t \in Tab : HostHears(t) \/ PageStep(t) \/ WorkerStep(t) \/ Trap(t)
  <2>1. UNCHANGED conn
    BY <1>5 DEF Submit, vars, tabVars, HostHears, OnReady, OnInstantiated, OnRequest, OnReport,
         OnDone, OnError, PageStep, PageRelays, PageReceives, WorkerStep, WorkerReceives,
         Instantiate, Ask, ReadReply, RunToEnd, Trap
  <2>. QED  BY <1>1, <2>1
<1>. QED  BY <1>3, <1>4, <1>5 DEF Next

\* The request of a runtime, or its reply, is in one place, and is the one it waits for.
Of(kind, w) == {m \in Message : m.kind = kind => m.job = w.instance /\ m.n = w.asked}
Where == {"outbox", "up", "down", "buffer"}
Waits(t, p) ==
  \/ p = "outbox" /\ Some(outbox[t], "ask")
  \/ p = "up" /\ Some(up[t], "ask")
  \/ p = "down" /\ Some(down[t], "reply")
  \/ p = "buffer" /\ reply[t] # None
OwnRequest(t) ==
  /\ All(outbox[t], Of("ask", worker[t])) /\ All(up[t], Of("ask", worker[t]))
  /\ All(down[t], Of("reply", worker[t]))
  /\ reply[t] # None => reply[t].job = worker[t].instance /\ reply[t].n = worker[t].asked
Request(t) ==
  /\ \A p, q \in Where : Waits(t, p) /\ Waits(t, q) => p = q
  /\ Once(outbox[t], "ask") /\ Once(up[t], "ask") /\ Once(down[t], "reply")
  /\ (\E p \in Where : Waits(t, p)) => worker[t].doing = "waiting"
  /\ OwnRequest(t)
OneRequest == ~SecondTab => ~misread /\ \A t \in Tab : Request(t)

\* A queue with no more messages of a kind than before.
Shrinks(q, r, kind) ==
  /\ Some(r, kind) => Some(q, kind)
  /\ Once(q, kind) => Once(r, kind)
  /\ \A w : All(q, Of(kind, w)) => All(r, Of(kind, w))

LEMMA SameShrinks == \A q, kind : Shrinks(q, q, kind)
  BY DEF Shrinks

LEMMA PopShrinks ==
  ASSUME NEW queue \in [Tab -> Seq(Message)], NEW t \in Tab, queue[t] # <<>>, NEW u \in Tab,
         NEW kind
  PROVE  Shrinks(queue[u], Pop(queue, t)[u], kind)
  BY PopKeeps DEF Shrinks

LEMMA PostShrinks ==
  ASSUME NEW queue \in [Tab -> Seq(Message)], NEW t, NEW m \in Message, NEW u \in Tab,
         NEW kind, m.kind # kind \/ u # t
  PROVE  Shrinks(queue[u], Post(queue, t, m)[u], kind)
<1>1. ASSUME u = t PROVE \A w : m \in Of(kind, w)
  BY <1>1 DEF Of
<1> DEFINE q == queue[u]
           r == Post(queue, t, m)[u]
<1>2. /\ Some(r, kind) <=> Some(q, kind) \/ (u = t /\ m.kind = kind)
      /\ Once(q, kind) /\ (u = t /\ m.kind = kind => ~Some(q, kind)) => Once(r, kind)
  BY PostKeeps
<1>3. ASSUME NEW w, All(q, Of(kind, w)) PROVE All(r, Of(kind, w))
  <2>1. \A S : All(q, S) /\ (u = t => m \in S) => All(r, S)
    BY PostKeeps
  <2> HIDE DEF q, r
  <2>. QED  BY <1>1, <1>3, <2>1
<1> HIDE DEF q, r
<1>4. Shrinks(q, r, kind)
  BY <1>2, <1>3 DEF Shrinks
<1>. QED  BY <1>4 DEF q, r

\* A queue with no message of a kind.
LEMMA NoneOf ==
  ASSUME NEW q \in Seq(Message), NEW kind, ~Some(q, kind), NEW w
  PROVE  All(q, Of(kind, w)) /\ Once(q, kind)
<1>1. \A i \in DOMAIN q : q[i] \in Message
  BY ElementOfSeq, LenProperties
<1>. QED  BY <1>1 DEF Some, All, Once, Of

LEMMA NoRequest ==
  ASSUME NEW t \in Tab, up[t] \in Seq(Message), down[t] \in Seq(Message),
         outbox[t] \in Seq(Message), \A p \in Where : ~Waits(t, p)
  PROVE  Request(t)
<1>1. ~Some(outbox[t], "ask") /\ ~Some(up[t], "ask") /\ ~Some(down[t], "reply") /\ reply[t] = None
  BY DEF Waits, Where
<1>. QED  BY <1>1, NoneOf DEF Request, OwnRequest

\* Nothing asked, and a runtime that waits left as it is.
LEMMA RequestFewer ==
  ASSUME NEW t \in Tab, Request(t),
         up'[t] \in Seq(Message), down'[t] \in Seq(Message), outbox'[t] \in Seq(Message),
         Shrinks(outbox[t], outbox'[t], "ask"), Shrinks(up[t], up'[t], "ask"),
         Shrinks(down[t], down'[t], "reply"), reply'[t] \in {reply[t], None},
         worker'[t] = worker[t] \/ worker[t].doing # "waiting"
  PROVE  Request(t)'
<1>1. \A p \in Where : Waits(t, p)' => Waits(t, p)
  BY DEF Waits, Where, Shrinks
<1>2. CASE \E p \in Where : Waits(t, p)'
  <2>1. worker[t].doing = "waiting" /\ worker'[t] = worker[t]
    BY <1>1, <1>2 DEF Request
  <2>2. \A p, q \in Where : Waits(t, p)' /\ Waits(t, q)' => p = q
    BY <1>1 DEF Request
  <2>3. Once(outbox'[t], "ask") /\ Once(up'[t], "ask") /\ Once(down'[t], "reply")
    BY DEF Request, Shrinks
  <2>4. OwnRequest(t)'
    BY <2>1 DEF Request, OwnRequest, Shrinks
  <2>. QED  BY <2>1, <2>2, <2>3, <2>4 DEF Request
<1>3. CASE \A p \in Where : ~Waits(t, p)'
  <2>1. /\ ~Some(outbox'[t], "ask") /\ ~Some(up'[t], "ask") /\ ~Some(down'[t], "reply")
        /\ reply'[t] = None
    BY <1>3 DEF Waits, Where
  <2>. QED  BY <1>3, <2>1, NoneOf DEF Request, OwnRequest
<1>. QED  BY <1>2, <1>3

\* A runtime asks, having nothing else to wait for.
LEMMA AskedRequest ==
  ASSUME Typed, NEW t \in Tab, Request(t), Ask(t)
  PROVE  Request(t)'
<1> DEFINE m == [kind |-> "ask", job |-> worker[t].instance, n |-> worker[t].asked + 1]
           w == worker'[t]
<1>0. worker \in [Tab -> Runtime] /\ worker[t].doing = "running"
  BY DEF Ask, Typed, WorkerTypes
<1>1. m \in Message /\ m.kind = "ask"
  BY <1>0, JobsAssumption DEF Ask, Message, Kind, Runtime
<1>2. w.doing = "waiting" /\ m.job = w.instance /\ m.n = w.asked
  BY <1>0 DEF Ask, Runtime
<1>3. /\ outbox' = Post(outbox, t, m) /\ UNCHANGED <<up, down, reply>>
      /\ outbox \in [Tab -> Seq(Message)] /\ up \in [Tab -> Seq(Message)]
      /\ down \in [Tab -> Seq(Message)]
  BY Queues DEF Ask
<1> HIDE DEF m, w
<1>4. /\ ~Some(outbox[t], "ask") /\ ~Some(up[t], "ask") /\ ~Some(down[t], "reply")
      /\ reply[t] = None
  BY <1>0 DEF Request, Waits, Where
<1>5. m \in Of("ask", w)
  BY <1>1, <1>2 DEF Of
<1>6. All(outbox'[t], Of("ask", w)) /\ Once(outbox'[t], "ask")
  <2>1. All(outbox[t], Of("ask", w)) /\ Once(outbox[t], "ask")
    BY <1>3, <1>4, NoneOf
  <2>2. Once(outbox'[t], "ask")
    BY <1>1, <1>3, <1>4, <2>1, PostEach
  <2>3. All(outbox'[t], Of("ask", w))
    BY <1>1, <1>3, <1>5, <2>1, PostEvery, ZenonT(60)
  <2>. QED  BY <2>2, <2>3
<1>7. /\ All(up[t], Of("ask", w)) /\ Once(up[t], "ask")
      /\ All(down[t], Of("reply", w)) /\ Once(down[t], "reply")
  BY <1>3, <1>4, NoneOf
<1>8. \A p \in Where : Waits(t, p)' => p = "outbox"
  BY <1>3, <1>4 DEF Waits, Where
<1>. QED  BY <1>2, <1>3, <1>4, <1>6, <1>7, <1>8 DEF Request, OwnRequest, w

\* The page relays it.
LEMMA RelayedRequest ==
  ASSUME Typed, NEW t \in Tab, Request(t), PageRelays(t), conn[t] = "open",
         Head(outbox[t]).kind = "ask"
  PROVE  Request(t)'
<1> DEFINE m == Head(outbox[t])
           w == worker[t]
<1>1. /\ outbox[t] # <<>> /\ outbox' = Pop(outbox, t) /\ up' = Post(up, t, m)
      /\ UNCHANGED <<worker, down, reply>> /\ m.kind = "ask"
      /\ up \in [Tab -> Seq(Message)] /\ outbox \in [Tab -> Seq(Message)]
  BY Queues DEF PageRelays
<1>2. m \in Message
  BY <1>1, PopTypes
<1>3. /\ Some(outbox[t], "ask") /\ ~Some(outbox'[t], "ask") /\ Once(outbox'[t], "ask")
      /\ All(outbox'[t], Of("ask", w)) /\ m \in Of("ask", w)
  <2>1. Once(outbox[t], "ask") /\ All(outbox[t], Of("ask", w))
    BY DEF Request, OwnRequest
  <2>. QED  BY <1>1, <2>1, PopEach, PopEvery
<1> HIDE DEF m
<1>4. /\ w.doing = "waiting" /\ ~Some(up[t], "ask") /\ ~Some(down[t], "reply") /\ reply[t] = None
  BY <1>3 DEF Request, Waits, Where
<1>5. Once(up'[t], "ask") /\ All(up'[t], Of("ask", w))
  <2>1. Once(up[t], "ask") /\ All(up[t], Of("ask", w))
    BY DEF Request, OwnRequest
  <2>2. Once(up'[t], "ask")
    BY <1>1, <1>2, <1>4, <2>1, PostEach
  <2>3. All(up'[t], Of("ask", w))
    <3>1. up \in [Tab -> Seq(Message)] /\ m \in Of("ask", w)
      BY <1>1, <1>3
    <3>2. All(Post(up, t, m)[t], Of("ask", w))
      BY <1>2, <2>1, <3>1, PostEvery
    <3>. QED  BY <1>1, <3>2
  <2>. QED  BY <2>2, <2>3
<1>6. \A p \in Where : Waits(t, p)' => p = "up"
  BY <1>1, <1>3, <1>4 DEF Waits, Where
<1>. QED  BY <1>1, <1>3, <1>4, <1>5, <1>6 DEF Request, OwnRequest

\* The host answers it, to the only socket there is.
LEMMA AnsweredRequest ==
  ASSUME Typed, NEW t \in Tab, Request(t), OnRequest(t), wsSocket = t, currentJob # None
  PROVE  Request(t)'
<1> DEFINE h == Head(up[t])
           m == [h EXCEPT !.kind = "reply"]
           w == worker[t]
<1>1. /\ up[t] # <<>> /\ up' = Pop(up, t) /\ h.kind = "ask"
      /\ UNCHANGED <<worker, outbox, reply>>
      /\ up \in [Tab -> Seq(Message)] /\ down \in [Tab -> Seq(Message)]
  BY Queues DEF OnRequest, Hears, tabVars
<1>2. down' = Post(down, t, m)
  BY NoneAssumption DEF OnRequest
<1>3. h \in Message
  BY <1>1, PopTypes
<1>4. m \in Message /\ m.kind = "reply" /\ m.job = h.job /\ m.n = h.n
  BY <1>3 DEF Message, Kind
<1>5. /\ Some(up[t], "ask") /\ ~Some(up'[t], "ask") /\ Once(up'[t], "ask")
      /\ All(up'[t], Of("ask", w)) /\ h \in Of("ask", w)
  <2>1. Once(up[t], "ask") /\ All(up[t], Of("ask", w))
    BY DEF Request, OwnRequest
  <2>. QED  BY <1>1, <2>1, PopEach, PopEvery
<1>6. m \in Of("reply", w)
  BY <1>1, <1>4, <1>5 DEF Of
<1> HIDE DEF m, h
<1>7. /\ w.doing = "waiting" /\ ~Some(outbox[t], "ask") /\ ~Some(down[t], "reply") /\ reply[t] = None
  BY <1>5 DEF Request, Waits, Where
<1>8. Once(down'[t], "reply") /\ All(down'[t], Of("reply", w))
  <2>1. Once(down[t], "reply") /\ All(down[t], Of("reply", w))
    BY DEF Request, OwnRequest
  <2>2. Once(down'[t], "reply")
    BY <1>1, <1>2, <1>4, <1>7, <2>1, PostEach
  <2>3. All(down'[t], Of("reply", w))
    <3>1. down \in [Tab -> Seq(Message)] /\ m \in Message
      BY <1>1, <1>4
    <3>2. All(Post(down, t, m)[t], Of("reply", w))
      BY <1>6, <2>1, <3>1, PostEvery
    <3>. QED  BY <1>2, <3>2
  <2>. QED  BY <2>2, <2>3
<1>9. \A p \in Where : Waits(t, p)' => p = "down"
  BY <1>1, <1>5, <1>7 DEF Waits, Where
<1>. QED  BY <1>1, <1>5, <1>7, <1>8, <1>9 DEF Request, OwnRequest

\* The page puts the reply into the buffer.
LEMMA BufferedRequest ==
  ASSUME Typed, NEW t \in Tab, Request(t), PageReceives(t), Head(down[t]).kind = "reply",
         reply[t] = None
  PROVE  Request(t)'
<1> DEFINE m == Head(down[t])
           w == worker[t]
<1>1. /\ down[t] # <<>> /\ down' = Pop(down, t) /\ reply' = [reply EXCEPT ![t] = m]
      /\ UNCHANGED <<worker, outbox, up>> /\ m.kind = "reply"
      /\ down \in [Tab -> Seq(Message)]
  BY Queues DEF PageReceives
<1>2. m \in Message
  BY <1>1, PopTypes
<1>3. /\ Some(down[t], "reply") /\ ~Some(down'[t], "reply") /\ Once(down'[t], "reply")
      /\ All(down'[t], Of("reply", w)) /\ m \in Of("reply", w)
  <2>1. Once(down[t], "reply") /\ All(down[t], Of("reply", w))
    BY DEF Request, OwnRequest
  <2>. QED  BY <1>1, <2>1, PopEach, PopEvery
<1> HIDE DEF m
<1>4. w.doing = "waiting" /\ ~Some(outbox[t], "ask") /\ ~Some(up[t], "ask")
  BY <1>3 DEF Request, Waits, Where
<1>5. reply'[t] = m /\ m.job = w.instance /\ m.n = w.asked
  BY <1>1, <1>3 DEF Of, Typed, TabTypes
<1>6. \A p \in Where : Waits(t, p)' => p = "buffer"
  BY <1>1, <1>3, <1>4 DEF Waits, Where
<1>. QED  BY <1>1, <1>3, <1>4, <1>5, <1>6 DEF Request, OwnRequest

\* The runtime reads it, and it is its own.
LEMMA ReadRequest ==
  ASSUME Typed, NEW t \in Tab, Request(t), ReadReply(t)
  PROVE  Request(t)' /\ misread' = misread
<1>1. /\ reply[t] # None /\ reply' = [reply EXCEPT ![t] = None]
      /\ UNCHANGED <<up, down, outbox>>
      /\ up \in [Tab -> Seq(Message)] /\ down \in [Tab -> Seq(Message)]
      /\ outbox \in [Tab -> Seq(Message)] /\ reply \in [Tab -> Message \cup {None}]
      /\ misread' = (misread \/ <<reply[t].job, reply[t].n>>
                                 # <<worker[t].instance, worker[t].asked>>)
      /\ misread \in BOOLEAN
  BY Queues DEF ReadReply, Typed, TabTypes
<1>2. \A p \in Where : Waits(t, p) => p = "buffer"
  BY <1>1 DEF Request, Waits, Where
<1>3. \A p \in Where : ~Waits(t, p)'
  BY <1>1, <1>2 DEF Waits, Where
<1>4. /\ ~Some(outbox'[t], "ask") /\ ~Some(up'[t], "ask") /\ ~Some(down'[t], "reply")
      /\ reply'[t] = None
  BY <1>3 DEF Waits, Where
<1>5. Request(t)'
  <2>1. \A w : /\ All(outbox'[t], Of("ask", w)) /\ All(up'[t], Of("ask", w))
               /\ All(down'[t], Of("reply", w))
               /\ Once(outbox'[t], "ask") /\ Once(up'[t], "ask") /\ Once(down'[t], "reply")
    BY <1>1, <1>4, NoneOf
  <2>. QED  BY <1>3, <1>4, <2>1 DEF Request, OwnRequest
<1>6. reply[t].job = worker[t].instance /\ reply[t].n = worker[t].asked
  BY <1>1 DEF Request, OwnRequest
<1>. QED  BY <1>1, <1>5, <1>6

\* Steps of the host and of the page at one tab, and of the worker; t is where they happen.
LEMMA HeardRequest ==
  ASSUME Typed, Connected, OneJob, ~SecondTab, NEW t \in Tab, HostHears(t),
         NEW u \in Tab, Request(u)
  PROVE  Request(u)'
<1>0. /\ up[t] # <<>> /\ up' = Pop(up, t) /\ UNCHANGED <<outbox, reply, worker>>
      /\ up \in [Tab -> Seq(Message)] /\ down \in [Tab -> Seq(Message)]
      /\ outbox \in [Tab -> Seq(Message)]
  BY Queues DEF HostHears, OnReady, OnInstantiated, OnRequest, OnReport, OnDone, OnError, Hears,
                tabVars
<1>1. up'[u] \in Seq(Message) /\ Shrinks(up[u], up'[u], "ask")
  <2>1. up' \in [Tab -> Seq(Message)]
    BY <1>0, PopTypes
  <2>. QED  BY <1>0, <2>1, PopShrinks
<1>2. ASSUME UNCHANGED down PROVE Request(u)'
  BY <1>0, <1>1, <1>2, SameShrinks, RequestFewer
<1>3. CASE OnInstantiated(t)
  <2>1. CASE UNCHANGED down
    BY <1>2, <2>1
  <2>2. CASE down' = Post(down, wsSocket, Msg("start", None))
    <3>1. Msg("start", None) \in Message /\ Msg("start", None).kind # "reply"
      BY MsgTypes DEF Msg, Kind
    <3>2. down'[u] \in Seq(Message) /\ Shrinks(down[u], down'[u], "reply")
      BY <1>0, <2>2, <3>1, PostShrinks, PostTypes
    <3>. QED  BY <1>0, <1>1, <3>2, SameShrinks, RequestFewer
  <2>. QED  BY <1>3, <2>1, <2>2 DEF OnInstantiated
<1>4. CASE OnRequest(t) /\ currentJob # None /\ wsSocket # None
  <2>1. wsSocket = t
    <3>1. conn[t] # "new" /\ ~closed
      BY <1>4 DEF OnRequest, Hears, OneJob
    <3>2. wsSocket \in Tab /\ conn[wsSocket] # "new"
      BY <3>1 DEF Connected, Socket
    <3>. QED  BY <3>1, <3>2 DEF SecondTab
  <2>2. CASE u = t
    BY <1>4, <2>1, <2>2, AnsweredRequest
  <2>3. CASE u # t
    <3>1. down'[u] = down[u]
      BY <1>0, <1>4, <2>1, <2>3 DEF OnRequest, Post
    <3>. QED  BY <1>0, <1>1, <3>1, SameShrinks, RequestFewer
  <2>. QED  BY <2>2, <2>3
<1>5. CASE ~OnInstantiated(t) /\ ~(OnRequest(t) /\ currentJob # None /\ wsSocket # None)
  <2>1. UNCHANGED down
    BY <1>5 DEF HostHears, OnReady, OnRequest, OnReport, OnDone, OnError
  <2>. QED  BY <1>2, <2>1
<1>. QED  BY <1>3, <1>4, <1>5

LEMMA PageRequest ==
  ASSUME Typed, NEW t \in Tab, PageStep(t), NEW u \in Tab, Request(u)
  PROVE  Request(u)'
<1>0. /\ up \in [Tab -> Seq(Message)] /\ down \in [Tab -> Seq(Message)]
      /\ outbox \in [Tab -> Seq(Message)] /\ UNCHANGED worker
  BY Queues DEF PageStep, PageRelays, PageReceives
<1>1. CASE PageRelays(t)
  <2> DEFINE m == Head(outbox[t])
  <2>1. /\ outbox[t] # <<>> /\ outbox' = Pop(outbox, t) /\ UNCHANGED <<down, reply>>
        /\ up' = IF conn[t] = "open" THEN Post(up, t, m) ELSE up
        /\ m \in Message
    BY <1>0, <1>1, PopTypes DEF PageRelays
  <2>2. outbox'[u] \in Seq(Message) /\ Shrinks(outbox[u], outbox'[u], "ask")
    <3>1. outbox' \in [Tab -> Seq(Message)]
      BY <1>0, <2>1, PopTypes
    <3>. QED  BY <1>0, <2>1, <3>1, PopShrinks
  <2>3. CASE conn[t] = "open" /\ m.kind = "ask" /\ u = t
    BY <1>1, <2>3, RelayedRequest
  <2>4. CASE conn[t] = "open" /\ (m.kind # "ask" \/ u # t)
    <3> HIDE DEF m
    <3>1. up'[u] \in Seq(Message) /\ Shrinks(up[u], up'[u], "ask")
      BY <1>0, <2>1, <2>4, PostShrinks, PostTypes
    <3>. QED  BY <1>0, <2>1, <2>2, <3>1, SameShrinks, RequestFewer
  <2>5. CASE conn[t] # "open"
    BY <1>0, <2>1, <2>2, <2>5, SameShrinks, RequestFewer
  <2>. QED  BY <2>3, <2>4, <2>5
<1>2. CASE PageReceives(t)
  <2> DEFINE m == Head(down[t])
  <2>1. down[t] # <<>> /\ down' = Pop(down, t) /\ UNCHANGED outbox
    BY <1>2 DEF PageReceives
  <2>2. down'[u] \in Seq(Message) /\ Shrinks(down[u], down'[u], "reply")
    <3>1. down' \in [Tab -> Seq(Message)]
      BY <1>0, <2>1, PopTypes
    <3>. QED  BY <1>0, <2>1, <3>1, PopShrinks
  <2>3. CASE m.kind = "reply" /\ reply[t] = None
    <3>1. CASE u = t
      BY <1>2, <2>3, <3>1, BufferedRequest
    <3>2. CASE u # t
      <4>1. reply'[u] = reply[u] /\ UNCHANGED up
        BY <1>2, <2>3, <3>2 DEF PageReceives, Typed, TabTypes
      <4>. QED  BY <1>0, <2>1, <2>2, <4>1, SameShrinks, RequestFewer
    <3>. QED  BY <3>1, <3>2
  <2>4. CASE ~(m.kind = "reply" /\ reply[t] = None)
    <3>1. UNCHANGED reply /\ (UNCHANGED up \/ up' = Post(up, t, Msg("error", None)))
      BY <1>2, <2>4 DEF PageReceives
    <3>2. Msg("error", None) \in Message /\ Msg("error", None).kind # "ask"
      BY MsgTypes DEF Msg, Kind
    <3>3. up'[u] \in Seq(Message) /\ Shrinks(up[u], up'[u], "ask")
      BY <1>0, <3>1, <3>2, SameShrinks, PostShrinks, PostTypes
    <3>. QED  BY <1>0, <2>1, <2>2, <3>1, <3>3, SameShrinks, RequestFewer
  <2>. QED  BY <2>3, <2>4
<1>. QED  BY <1>1, <1>2 DEF PageStep

LEMMA WorkerRequest ==
  ASSUME Typed, NEW t \in Tab, WorkerStep(t) \/ Trap(t), NEW u \in Tab, Request(u)
  PROVE  Request(u)'
<1>0. /\ up \in [Tab -> Seq(Message)] /\ down \in [Tab -> Seq(Message)]
      /\ outbox \in [Tab -> Seq(Message)] /\ UNCHANGED <<up, down>>
      /\ worker \in [Tab -> Runtime]
  BY Queues DEF WorkerStep, WorkerReceives, Instantiate, Ask, ReadReply, RunToEnd, Trap,
                Typed, WorkerTypes
<1>1. CASE u # t
  <2>1. worker'[u] = worker[u] /\ outbox'[u] = outbox[u] /\ reply'[u] = reply[u]
    BY <1>0, <1>1 DEF WorkerStep, WorkerReceives, Instantiate, Ask, ReadReply, RunToEnd, Trap,
                      Post, Typed, TabTypes
  <2>. QED  BY <1>0, <2>1, SameShrinks, RequestFewer
<1>2. CASE u = t /\ Ask(t)
  BY <1>2, AskedRequest
<1>3. CASE u = t /\ ReadReply(t)
  BY <1>3, ReadRequest
\* Otherwise it does not wait, and asks nothing.
<1>4. ASSUME u = t, worker[t].doing # "waiting", UNCHANGED reply, outbox'[t] \in Seq(Message),
             Shrinks(outbox[t], outbox'[t], "ask")
      PROVE  Request(u)'
  BY <1>0, <1>4, SameShrinks, RequestFewer
<1>5. ASSUME u = t, worker[t].doing # "waiting", UNCHANGED reply,
             NEW m \in Message, m.kind # "ask", outbox' = Post(outbox, t, m)
      PROVE  Request(u)'
  <2>1. Shrinks(outbox[t], outbox'[t], "ask")
    BY <1>0, <1>5, PostShrinks
  <2>2. outbox'[t] \in Seq(Message)
    BY <1>0, <1>5, PostTypes
  <2>. QED  BY <1>4, <1>5, <2>1, <2>2
<1>6. ASSUME u = t, worker[t].doing # "waiting", UNCHANGED reply,
             NEW m \in Message, m.kind # "ask", NEW n \in Message, n.kind # "ask",
             outbox' = Post(Post(outbox, t, m), t, n)
      PROVE  Request(u)'
  <2> DEFINE s == Post(outbox, t, m)
  <2>1. s \in [Tab -> Seq(Message)] /\ Shrinks(outbox[t], s[t], "ask")
    BY <1>0, <1>6, PostShrinks, PostTypes
  <2> HIDE DEF s
  <2>2. outbox' = Post(s, t, n)
    BY <1>6 DEF s
  <2>3. outbox'[t] \in Seq(Message) /\ Shrinks(s[t], outbox'[t], "ask")
    BY <1>6, <2>1, <2>2, PostShrinks, PostTypes
  <2>4. Shrinks(outbox[t], outbox'[t], "ask")
    BY <2>1, <2>3 DEF Shrinks
  <2>. QED  BY <1>4, <1>6, <2>3, <2>4
<1>7. /\ \A j \in Job \cup {None} : Msg("error", j) \in Message /\ Msg("error", j).kind # "ask"
      /\ \A j \in Job \cup {None} : /\ Msg("instantiated", j) \in Message
                                    /\ Msg("instantiated", j).kind # "ask"
      /\ \A j : Msg("report", j).kind # "ask" /\ Msg("done", j).kind # "ask"
  BY MsgTypes DEF Msg, Kind
<1>8. CASE u = t /\ WorkerReceives(t)
  <2>1. worker[t].doing # "waiting" /\ UNCHANGED reply
        /\ (UNCHANGED outbox \/ outbox' = Post(outbox, t, Msg("error", None)))
    BY <1>8 DEF WorkerReceives
  <2>2. CASE UNCHANGED outbox
    BY <1>0, <1>4, <1>8, <2>1, <2>2, SameShrinks
  <2>3. CASE outbox' = Post(outbox, t, Msg("error", None))
    BY <1>5, <1>7, <1>8, <2>1, <2>3
  <2>. QED  BY <2>1, <2>2, <2>3
<1>9. CASE u = t /\ Instantiate(t)
  <2>1. worker[t].doing # "waiting" /\ UNCHANGED reply /\ worker[t].load \in Job \cup {None}
        /\ \E kind \in {"instantiated", "error"} : outbox' = Post(outbox, t, Msg(kind, worker[t].load))
    BY <1>0, <1>9 DEF Instantiate, Runtime
  <2>. QED  BY <1>5, <1>7, <1>9, <2>1
<1>10. CASE u = t /\ RunToEnd(t)
  <2>1. worker[t].doing # "waiting" /\ UNCHANGED reply
    BY <1>10 DEF RunToEnd
  <2>. QED  BY <1>6, <1>7, <1>10, <2>1, EndSaid
<1>11. CASE u = t /\ Trap(t)
  <2> DEFINE j == worker[t].instance
  <2>1. worker[t].doing # "waiting" /\ UNCHANGED reply
    BY <1>11 DEF Trap
  <2>2. /\ Msg("error", j) \in Message /\ Msg("report", j) \in Message
        /\ \/ outbox' = Post(outbox, t, Msg("error", j))
           \/ outbox' = Post(Post(outbox, t, Msg("report", j)), t, Msg("error", j))
        /\ j \in Job
    BY <1>11, TrapSaid
  <2>3. Msg("error", j).kind # "ask" /\ Msg("report", j).kind # "ask"
    BY <1>7, <2>2
  <2>. QED  BY <1>5, <1>6, <1>11, <2>1, <2>2, <2>3
<1>. QED  BY <1>1, <1>2, <1>3, <1>8, <1>9, <1>10, <1>11 DEF WorkerStep

LEMMA RequestStep ==
  ASSUME Typed, Connected, OneJob, OneRequest, [Next]_vars
  PROVE  OneRequest'
<1> SUFFICES ASSUME ~SecondTab' PROVE ~misread' /\ \A u \in Tab : Request(u)'
  BY DEF OneRequest
<1>0. ~SecondTab /\ ~misread /\ \A u \in Tab : Request(u)
  BY SecondTabStays DEF OneRequest
<1>1. /\ up \in [Tab -> Seq(Message)] /\ down \in [Tab -> Seq(Message)]
      /\ outbox \in [Tab -> Seq(Message)]
  BY Queues
<1>2. misread' = misread
  <2>1. CASE \E t \in Tab : ReadReply(t)
    BY <1>0, <2>1, ReadRequest
  <2>2. CASE ~\E t \in Tab : ReadReply(t)
    BY <2>2 DEF Next, vars, tabVars, BrowserExits, TerminalCloses, TerminalExits, callerVars, Submit, Continue, Finish, Open,
         Leave, Disconnected, HostHears, OnReady, OnInstantiated, OnRequest, OnReport, OnDone,
         OnError, PageStep, PageRelays, PageReceives, WorkerStep, WorkerReceives, Instantiate,
         Ask, RunToEnd, Trap
  <2>. QED  BY <2>1, <2>2
<1> SUFFICES ASSUME NEW u \in Tab PROVE Request(u)'
  BY <1>0, <1>2
<1>3. ASSUME UNCHANGED <<up, down, outbox, reply, worker>> PROVE Request(u)'
  BY <1>0, <1>1, <1>3, SameShrinks, RequestFewer
<1>4. CASE BrowserExits \/ TerminalCloses \/ TerminalExits \/ Continue \/ Finish
           \/ \E t \in Tab : Disconnected(t) \/ Leave(t)
  <2>1. UNCHANGED <<up, down, outbox, reply, worker>>
    BY <1>4 DEF BrowserExits, TerminalCloses, TerminalExits, callerVars, tabVars, Continue, Finish, Disconnected, Leave
  <2>. QED  BY <1>3, <2>1
<1>5. CASE Submit
  <2>1. UNCHANGED <<up, outbox, reply, worker>>
        /\ (UNCHANGED down \/ down' = Post(down, wsSocket, Msg("load", next)))
    BY <1>5 DEF Submit, tabVars
  <2>2. Msg("load", next) \in Message /\ Msg("load", next).kind # "reply"
    BY <1>5, MsgTypes, JobsAssumption DEF Submit, Typed, CallerTypes, Job, Msg, Kind
  <2>3. down'[u] \in Seq(Message) /\ Shrinks(down[u], down'[u], "reply")
    BY <1>1, <2>1, <2>2, SameShrinks, PostShrinks, PostTypes
  <2>. QED  BY <1>0, <1>1, <2>1, <2>3, SameShrinks, RequestFewer
<1>6. ASSUME NEW t \in Tab, Open(t) PROVE Request(u)'
  <2>1. UNCHANGED <<down, outbox, reply, worker>> /\ up' = Post(up, t, Msg("ready", None))
    BY <1>6 DEF Open
  <2>2. Msg("ready", None) \in Message /\ Msg("ready", None).kind # "ask"
    BY MsgTypes DEF Msg, Kind
  <2>3. up'[u] \in Seq(Message) /\ Shrinks(up[u], up'[u], "ask")
    BY <1>1, <2>1, <2>2, PostShrinks, PostTypes
  <2>. QED  BY <1>0, <1>1, <2>1, <2>3, SameShrinks, RequestFewer
<1>7. CASE UNCHANGED vars
  BY <1>3, <1>7 DEF vars, tabVars
<1>. QED
  BY <1>0, <1>4, <1>5, <1>6, <1>7, HeardRequest, PageRequest, WorkerRequest DEF Next

LEMMA RequestInitially == Init => OneRequest
<1> SUFFICES ASSUME Init PROVE ~misread /\ \A t \in Tab : Request(t)
  BY DEF OneRequest
<1>1. ~misread
  BY DEF Init
<1>2. ASSUME NEW t \in Tab PROVE Request(t)
  <2>1. up[t] = <<>> /\ down[t] = <<>> /\ outbox[t] = <<>> /\ reply[t] = None
    BY DEF Init
  <2>2. ~Some(<<>>, "ask") /\ ~Some(<<>>, "reply") /\ <<>> \in Seq(Message)
    BY EmptySeq DEF Some
  <2>. QED  BY <2>1, <2>2, NoRequest DEF Waits
<1>. QED  BY <1>1, <1>2

-------------------------------------------------------------------------------
(* The session is a WebService *)

LEMMA ServiceInitially == Init => Service!Init
  BY DEF Init, Service!Init, Job, Service!Job

LEMMA ServiceStep ==
  ASSUME Typed, OneJob, InOrder, Named, WholeSession, [Next]_vars
  PROVE  [Service!Next]_(Service!vars)
<1>0. /\ outcome \in [Job -> {"none", "pending", "resolved", "rejected"}]
      /\ \A j \in Job : j \in Nat
  BY JobsAreNumbers DEF Typed, CallerTypes
<1>1. ASSUME UNCHANGED <<outcome, completed, closed>> PROVE UNCHANGED Service!vars
  BY <1>1 DEF Service!vars
\* The session breaks, unless it is broken.
<1>2. ASSUME outcome' = [j \in Job |-> IF outcome[j] = "pending" THEN "rejected" ELSE outcome[j]],
             UNCHANGED completed, Broken'
      PROVE  Service!Break \/ UNCHANGED Service!vars
  <2>1. CASE Broken
    <3>1. currentJob = None
      BY <2>1, CurrentIsNext
    <3>2. \A j \in Job : outcome[j] # "pending"
      BY <3>1 DEF OneJob
    <3>3. outcome' = outcome
      BY <1>0, <1>2, <3>2
    <3>. QED  BY <1>2, <2>1, <3>3 DEF Broken, Service!vars
  <2>2. CASE ~Broken
    BY <1>2, <2>2 DEF Broken, Service!Break, Job, Service!Job
  <2>. QED  BY <2>1, <2>2
<1>3. ASSUME Close, UNCHANGED completed PROVE Service!Break \/ UNCHANGED Service!vars
  BY <1>2, <1>3, CloseOutcome DEF Broken
<1>4. CASE BrowserExits \/ TerminalCloses \/ TerminalExits \/ Continue \/ Finish \/ \E t \in Tab : Disconnected(t)
  <2>1. UNCHANGED completed /\ (Close \/ UNCHANGED <<outcome, closed>>)
    BY <1>4 DEF BrowserExits, TerminalCloses, TerminalExits, callerVars, tabVars, Continue, Finish, Disconnected
  <2>. QED  BY <1>1, <1>3, <2>1 DEF Service!Next
<1>5. CASE Submit
  <2>1. /\ next \in Job /\ outcome[next] = "none" /\ UNCHANGED <<completed, closed>>
    BY <1>5, JobsAssumption DEF Submit, Typed, CallerTypes, Job, tabVars
  <2>2. currentJob = None
    BY <2>1, CurrentIsNext
  <2>3. Broken <=> closed
    <3>1. \A j \in Job : j < next \/ j = next \/ j > next
      BY <1>0, <2>1
    <3>. QED  BY <2>1, <3>1 DEF InOrder, Broken
  <2>4. outcome' = [outcome EXCEPT ![next] = IF Broken THEN "rejected" ELSE "pending"]
    BY <1>5, <2>2, <2>3 DEF Submit
  <2>5. Broken' <=> Broken
    BY <1>0, <2>1, <2>3, <2>4 DEF Broken
  <2>6. \A i \in 1..(next - 1) : Service!Settled(i)
    <3> SUFFICES ASSUME NEW i \in 1..(next - 1) PROVE Service!Settled(i)
      OBVIOUS
    <3>1. i \in Job /\ i < next
      BY <2>1, JobsAssumption DEF Job
    <3>. QED  BY <3>1 DEF InOrder, Service!Settled
  <2>7. Service!Begin(next)
    BY <2>1, <2>4, <2>5, <2>6 DEF Service!Begin, Broken
  <2>. QED  BY <2>1, <2>7 DEF Service!Next, Job, Service!Job
<1>6. ASSUME NEW t \in Tab, OnDone(t) PROVE [Service!Next]_(Service!vars)
  <2>0. UNCHANGED <<completed, closed>> /\ Settle("resolved")
    BY <1>6 DEF OnDone, tabVars
  <2>1. CASE currentJob = None
    BY <1>1, <2>0, <2>1 DEF Settle
  <2>2. CASE currentJob # None
    <3> DEFINE j == currentJob.id
               m == Head(up[t])
    <3>1. j \in Job /\ outcome[j] = "pending" /\ ~Broken
      <4>1. j \in Job
        BY <2>2 DEF Typed, HostTypes
      <4>. QED  BY <2>2, <4>1, CurrentIsNext
    <3>2. m.kind = "done" /\ m \in WordOf(j) /\ m \in Claims
      <4>1. /\ up[t] # <<>> /\ up \in [Tab -> Seq(Message)] /\ m.kind = "done"
        BY <1>6, Queues DEF OnDone, Hears
      <4>2. All(up[t], WordOf(j)) /\ All(up[t], Claims)
        BY <2>2, <3>1 DEF WholeSession, Token, OfCurrent, Named
      <4>. QED  BY <4>1, <4>2, PopKeeps
    <3>3. j \in completed
      BY <3>2 DEF WordOf, Claims
    <3>4. outcome' = [outcome EXCEPT ![j] = "resolved"]
      BY <2>0, <2>2 DEF Settle
    <3>5. ~Broken'
      BY <1>0, <2>0, <3>1, <3>4 DEF Broken
    <3>6. Service!Resolve(j)
      BY <2>0, <3>1, <3>3, <3>4, <3>5 DEF Service!Resolve, Broken
    <3>. QED  BY <3>1, <3>6 DEF Service!Next, Job, Service!Job
  <2>. QED  BY <2>1, <2>2
<1>7. ASSUME NEW t \in Tab, OnError(t) PROVE [Service!Next]_(Service!vars)
  <2>0. UNCHANGED <<completed, closed>> /\ Settle("rejected")
    BY <1>7 DEF OnError, tabVars
  <2>1. CASE currentJob = None
    BY <1>1, <2>0, <2>1 DEF Settle
  <2>2. CASE currentJob # None
    <3>1. outcome' = [j \in Job |-> IF outcome[j] = "pending" THEN "rejected" ELSE outcome[j]]
      BY <2>0, SettleOutcome
    <3>2. Broken'
      <4>1. currentJob.id \in Job /\ outcome[currentJob.id] = "pending"
        BY <2>2 DEF Typed, HostTypes, OneJob
      <4>. QED  BY <3>1, <4>1 DEF Broken
    <3>. QED  BY <1>2, <2>0, <3>1, <3>2 DEF Service!Next
  <2>. QED  BY <2>1, <2>2
<1>8. ASSUME NEW t \in Tab, HostHears(t) PROVE [Service!Next]_(Service!vars)
  <2>1. CASE ~OnDone(t) /\ ~OnError(t)
    <3>1. UNCHANGED <<outcome, completed, closed>>
      BY <1>8, <2>1 DEF HostHears, OnReady, OnInstantiated, OnRequest, OnReport, hostVars,
                        callerVars, tabVars
    <3>. QED  BY <1>1, <3>1
  <2>. QED  BY <1>6, <1>7, <2>1
<1>9. ASSUME NEW t \in Tab, RunToEnd(t) PROVE [Service!Next]_(Service!vars)
  <2> DEFINE j == worker[t].instance
  <2>1. j \in Job /\ j \in Begun
    <3>1. j \in Job
      BY <1>9 DEF RunToEnd, Typed, WorkerTypes
    <3>2. j # None
      BY <3>1, NoneAssumption DEF Job
    <3>. QED  BY <3>1, <3>2 DEF Named
  <2>2. completed' = completed \cup {j} /\ UNCHANGED <<outcome, closed>>
    BY <1>9 DEF RunToEnd, hostVars, callerVars
  <2>3. Service!Complete(j)
    BY <2>1, <2>2 DEF Service!Complete, Begun
  <2>. QED  BY <2>1, <2>3 DEF Service!Next, Job, Service!Job
<1>10. CASE \E t \in Tab : \/ Open(t) \/ Leave(t) \/ PageStep(t) \/ Trap(t)
                           \/ WorkerStep(t) /\ ~RunToEnd(t)
  <2>1. UNCHANGED completed
    BY <1>10 DEF Open, Leave, PageStep, PageRelays, PageReceives, Trap, WorkerStep,
                 WorkerReceives, Instantiate, Ask, ReadReply
  <2>2. UNCHANGED <<outcome, closed>>
    BY <1>10, TabStepElsewhere DEF Open, hostVars, callerVars
  <2>. QED  BY <1>1, <2>1, <2>2
<1>11. CASE UNCHANGED vars
  BY <1>1, <1>11 DEF vars, hostVars, callerVars, tabVars
<1>. QED  BY <1>4, <1>5, <1>8, <1>9, <1>10, <1>11 DEF Next

-------------------------------------------------------------------------------
(* The whole invariant *)

Inv == /\ Typed /\ Connected /\ OneJob /\ InOrder /\ Named
       /\ WholeSession /\ OwnReports /\ OneRequest

LEMMA InvHolds == Spec => []Inv
<1>1. Init => Inv
  BY TypedInitially, OpenInitially, OrderInitially, NamedInitially, WholeInitially,
     RequestInitially DEF Inv, OwnReports, Init
<1>2. Inv /\ [Next]_vars => Inv'
  <2> SUFFICES ASSUME Inv, [Next]_vars PROVE Inv'
    OBVIOUS
  <2>. QED
    BY TypedStep, OpenStep, OrderStep, NamedStep, WholeStep, OwnReportsStep, RequestStep DEF Inv
<1>. QED  BY <1>1, <1>2, PTL DEF Spec

-------------------------------------------------------------------------------
\* Messages, jobs and workers keep their types: above all, no worker runs, and no
\* report is recorded, without a spec that was instantiated.
THEOREM TypeCorrect == Spec => []TypeOK
<1>. QED  BY TypedInitially, TypedStep, TypedIsTypeOK, PTL DEF Spec

\* The host never sends into the void, which would leave a job behind that blocks
\* the next, and a job is under way exactly while its promise is pending.
THEOREM ConnectedWhileOpenHolds == Spec => []ConnectedWhileOpen
<1>. QED
  BY TypedInitially, TypedStep, OpenInitially, OpenStep, OpenImplied, PTL DEF Spec

\* No spec is given the report of another one, for any number of tabs, and with a
\* single tab no runtime reads the reply of another request: the frames carry no job
\* and the replies no request, but while the session is whole there is one token.
THEOREM OwnMessagesHolds == Spec => []OwnMessages
<1>1. Inv => OwnMessages
  BY DEF Inv, OwnReports, OneRequest, OwnMessages
<1>. QED  BY <1>1, InvHolds, PTL

\* The session of host, pages and workers is a WebService: each step is one of its
\* steps or leaves its variables alone.
THEOREM ServiceImplemented == Spec => ImplementsService
<1>1. Inv /\ [Next]_vars => [Service!Next]_(Service!vars)
  BY ServiceStep DEF Inv
<1>. QED
  BY <1>1, ServiceInitially, InvHolds, PTL DEF Spec, ImplementsService, Service!Spec
===============================================================================
