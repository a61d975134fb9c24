------------------------------ MODULE WebSession ------------------------------
(***************************************************************************)
(* A shared web session: PersistentWebSessionHost of web-session.ts, the   *)
(* page and the worker it serves, and the loop of run-core.ts that runs    *)
(* one compiled spec after the other in it.                                *)
(*                                                                         *)
(* A tab that opens the session's URL connects a socket, and the host      *)
(* talks to the one that connected last.  The page relays between socket   *)
(* and worker; the worker instantiates a spec, runs it, and waits for the  *)
(* reply of each request (snapshot, coverage) in a shared buffer.          *)
(*                                                                         *)
(* The messages of the code are bare kinds.  The fields job and n of a     *)
(* message are history, read by the host only to answer and by properties; *)
(* "load" alone names its job, in the URL of the artifact.  A socket       *)
(* delivers whole messages in order: the fragments of onWebSocketData are  *)
(* not modelled, nor is what the page displays.                            *)
(***************************************************************************)
EXTENDS Naturals, Sequences, FiniteSets

CONSTANTS
  Tab,             \* browser tabs that may open the session's URL
  NumJobs,         \* specs of the session
  Requests,        \* bound on the requests of one runtime
  Launched,        \* the host starts the browser itself (BROWSER is set)
  None

ASSUME JobsAssumption == NumJobs \in Nat /\ Requests \in Nat
ASSUME LaunchedAssumption == Launched \in BOOLEAN

Job == 1..NumJobs

Kind == {"ready", "instantiated", "ask", "report", "done", "error",
         "load", "start", "reply"}
Message == [kind : Kind, job : Job \cup {None}, n : 0..Requests]
Msg(kind, j) == [kind |-> kind, job |-> j, n |-> 0]

ASSUME NoneAssumption ==
  None \notin Tab /\ None \notin Nat /\ None \notin Message
  /\ None \notin [id : Job, started : BOOLEAN]

VARIABLES
  hostUp,          \* the CLI process runs
  browser,         \* the launched browser process
  start,           \* the promise of start(): readyPromise
  ready,           \* ready
  closed,          \* closed
  wsSocket,        \* wsSocket: the tab whose socket it is
  currentJob,      \* currentJob
  next,            \* run(): the spec it is at
  outcome,         \* outcome[j]: the promise of runJob
  reports,         \* reports[j]: runtimes whose report job j's channel got
  verdict,         \* verdict[j]: what runWebSessionProcess made of it
  conn,            \* conn[t]: the connection of tab t
  up, down,        \* messages from and to the page
  inbox, outbox,   \* messages to and from its worker
  worker,          \* worker[t]
  reply,           \* reply[t]: the shared reply buffer
  completed,       \* history: jobs whose runtime ran to its end
  misread          \* history: some runtime read the reply of another request

hostVars == <<hostUp, browser, start, ready, closed, wsSocket, currentJob>>
callerVars == <<next, outcome, reports, verdict>>
tabVars == <<conn, inbox, outbox, worker, reply, completed, misread>>
vars == <<hostVars, callerVars, up, down, tabVars>>

Asleep == [doing |-> "idle", load |-> None, instance |-> None, asked |-> 0]

TypeOK ==
  /\ {hostUp, ready, closed, misread} \subseteq BOOLEAN
  /\ browser \in {"none", "running", "gone"}
  /\ start \in {"waiting", "ok", "failed"}
  /\ wsSocket \in Tab \cup {None}
  /\ currentJob \in [id : Job, started : BOOLEAN] \cup {None}
  /\ next \in 1..(NumJobs + 1)
  /\ outcome \in [Job -> {"none", "pending", "resolved", "rejected"}]
  /\ reports \in [Job -> SUBSET Job]
  /\ verdict \in [Job -> {"none", "pass", "fail"}]
  /\ conn \in [Tab -> {"new", "open", "closing", "cut", "gone"}]
  /\ {up, down, inbox, outbox} \subseteq [Tab -> Seq(Message)]
  /\ worker \in [Tab -> [doing : {"idle", "loading", "running", "waiting"},
                         load : Job \cup {None}, instance : Job \cup {None},
                         asked : 0..Requests]]
  /\ reply \in [Tab -> Message \cup {None}]
  /\ completed \in SUBSET Job

Init ==
  /\ hostUp = TRUE
  /\ browser = IF Launched THEN "running" ELSE "none"
  /\ start = "waiting"
  /\ ready = FALSE /\ closed = FALSE
  /\ wsSocket = None
  /\ currentJob = None
  /\ next = 1
  /\ outcome = [j \in Job |-> "none"]
  /\ reports = [j \in Job |-> {}]
  /\ verdict = [j \in Job |-> "none"]
  /\ conn = [t \in Tab |-> "new"]
  /\ up = [t \in Tab |-> <<>>] /\ down = [t \in Tab |-> <<>>]
  /\ inbox = [t \in Tab |-> <<>>] /\ outbox = [t \in Tab |-> <<>>]
  /\ worker = [t \in Tab |-> Asleep]
  /\ reply = [t \in Tab |-> None]
  /\ completed = {}
  /\ misread = FALSE

Post(queue, t, m) == [queue EXCEPT ![t] = Append(@, m)]
Pop(queue, t) == [queue EXCEPT ![t] = Tail(@)]

-------------------------------------------------------------------------------
(* The host: closing *)

\* currentJob.resolve and currentJob.reject
Settle(how) ==
  IF currentJob = None THEN UNCHANGED <<currentJob, outcome>>
  ELSE /\ currentJob' = None
       /\ outcome' = [outcome EXCEPT ![currentJob.id] = how]

\* Seeded fault: closing leaves the job under way to itself.
CloseQuietly ==
  IF closed THEN UNCHANGED <<closed, start, wsSocket, currentJob, outcome, conn>>
  ELSE /\ closed' = TRUE
       /\ start' = IF start = "waiting" THEN "failed" ELSE start
       /\ wsSocket' = None
       /\ UNCHANGED <<currentJob, outcome>>
       /\ conn' = [t \in Tab |-> IF conn[t] = "open" THEN "cut" ELSE conn[t]]

\* close(): the first call rejects what waits and destroys every socket.  The
\* events of the sockets, which clear wsSocket, find the host closed.
Close ==
  IF closed THEN UNCHANGED <<closed, start, wsSocket, currentJob, outcome, conn>>
  ELSE /\ closed' = TRUE
       /\ start' = IF start = "waiting" THEN "failed" ELSE start
       /\ wsSocket' = None
       /\ Settle("rejected")
       /\ conn' = [t \in Tab |-> CASE conn[t] = "open" -> "cut"
                                 [] conn[t] = "closing" -> "gone"
                                 [] OTHER -> conn[t]]

\* Seeded fault: only the end of the current socket closes the host.
DisconnectedCurrent(t) ==
  /\ hostUp /\ conn[t] = "closing"
  /\ IF t = wsSocket THEN Close
     ELSE /\ wsSocket' = None
          /\ conn' = [conn EXCEPT ![t] = "gone"]
          /\ UNCHANGED <<closed, start, currentJob, outcome>>
  /\ UNCHANGED <<hostUp, browser, ready, next, reports, verdict, up, down, inbox,
                 outbox, worker, reply, completed, misread>>

\* A socket ends, closes or fails, the current one or another.
Disconnected(t) ==
  /\ hostUp /\ conn[t] = "closing"
  /\ Close
  /\ UNCHANGED <<hostUp, browser, ready, next, reports, verdict, up, down, inbox,
                 outbox, worker, reply, completed, misread>>

\* The launched process exits, with its tabs or having handed them to another
\* process.  Before a page is ready, only start() hears of it.
BrowserExits ==
  /\ hostUp /\ browser = "running"
  /\ browser' = "gone"
  /\ IF ~ready /\ ~closed
       THEN /\ start' = "failed"
            /\ UNCHANGED <<closed, wsSocket, currentJob, outcome, conn>>
       ELSE Close
  /\ UNCHANGED <<hostUp, ready, next, reports, verdict, up, down, inbox, outbox,
                 worker, reply, completed, misread>>

\* exitFromTerminalClosure, up to the await of close(): SIGHUP, or stdin of the
\* terminal ends.  What waited for the session goes on meanwhile.
TerminalCloses ==
  /\ hostUp /\ ~closed
  /\ Close
  /\ UNCHANGED <<hostUp, browser, ready, next, reports, verdict, up, down, inbox,
                 outbox, worker, reply, completed, misread>>

\* The rest of it; close() removes the hooks, so SIGHUP ends a CLI whose session
\* has been closed for another reason, too.
TerminalExits ==
  /\ hostUp /\ closed
  /\ hostUp' = FALSE
  /\ UNCHANGED <<browser, start, ready, closed, wsSocket, currentJob, callerVars, up,
                 down, tabVars>>

-------------------------------------------------------------------------------
(* The host: sockets and messages *)

\* A tab opens the URL; its page says "ready" as soon as it is connected.  The
\* host listens as long as it is not closed, even if start() has failed.
Open(t) ==
  /\ hostUp /\ ~closed /\ conn[t] = "new"
  /\ conn' = [conn EXCEPT ![t] = "open"]
  /\ wsSocket' = t
  /\ up' = Post(up, t, Msg("ready", None))
  /\ UNCHANGED <<hostUp, browser, start, ready, closed, currentJob, callerVars, down,
                 inbox, outbox, worker, reply, completed, misread>>

\* Whether the next message from tab t is of this kind.
Hears(t, kind) ==
  /\ hostUp /\ conn[t] \in {"open", "closing"}
  /\ up[t] # <<>> /\ Head(up[t]).kind = kind
  /\ up' = Pop(up, t)

OnReady(t) ==
  /\ Hears(t, "ready")
  /\ ready' = TRUE
  /\ start' = IF start = "waiting" THEN "ok" ELSE start
  /\ UNCHANGED <<hostUp, browser, closed, wsSocket, currentJob, callerVars, down,
                 tabVars>>

OnInstantiated(t) ==
  /\ Hears(t, "instantiated")
  /\ IF currentJob # None /\ ~currentJob.started
       THEN /\ currentJob' = [currentJob EXCEPT !.started = TRUE]
            /\ down' = Post(down, wsSocket, Msg("start", None))
       ELSE UNCHANGED <<currentJob, down>>
  /\ UNCHANGED <<hostUp, browser, start, ready, closed, wsSocket, callerVars, tabVars>>

\* A binary frame goes to the channel of the current job, whichever that is; a
\* request is answered to the current socket, whoever asked.
OnRequest(t) ==
  /\ Hears(t, "ask")
  /\ IF currentJob # None /\ wsSocket # None
       THEN down' = Post(down, wsSocket, [Head(up[t]) EXCEPT !.kind = "reply"])
       ELSE UNCHANGED down
  /\ UNCHANGED <<hostVars, callerVars, tabVars>>

OnReport(t) ==
  /\ Hears(t, "report")
  /\ IF currentJob # None
       THEN reports' = [reports EXCEPT ![currentJob.id] = @ \cup {Head(up[t]).job}]
       ELSE UNCHANGED reports
  /\ UNCHANGED <<hostVars, next, outcome, verdict, down, tabVars>>

OnDone(t) ==
  /\ Hears(t, "done")
  /\ Settle("resolved")
  /\ UNCHANGED <<hostUp, browser, start, ready, closed, wsSocket, next, reports,
                 verdict, down, tabVars>>

OnError(t) ==
  /\ Hears(t, "error")
  /\ Settle("rejected")
  /\ UNCHANGED <<hostUp, browser, start, ready, closed, wsSocket, next, reports,
                 verdict, down, tabVars>>

HostHears(t) ==
  \/ OnReady(t) \/ OnInstantiated(t) \/ OnRequest(t)
  \/ OnReport(t) \/ OnDone(t) \/ OnError(t)

-------------------------------------------------------------------------------
(* run(): one spec after the other *)

\* runJob, up to its promise
Submit ==
  /\ hostUp /\ start = "ok" /\ next <= NumJobs /\ outcome[next] = "none"
  /\ IF closed \/ currentJob # None
       THEN /\ outcome' = [outcome EXCEPT ![next] = "rejected"]
            /\ UNCHANGED <<currentJob, down>>
       ELSE /\ outcome' = [outcome EXCEPT ![next] = "pending"]
            /\ currentJob' = [id |-> next, started |-> FALSE]
            /\ down' = Post(down, wsSocket, Msg("load", next))
  /\ UNCHANGED <<hostUp, browser, start, ready, closed, wsSocket, next, reports,
                 verdict, up, tabVars>>

\* Seeded fault: the session stays open after a job that failed.
ContinueOpen ==
  /\ hostUp /\ next <= NumJobs /\ outcome[next] \in {"resolved", "rejected"}
  /\ verdict' = [verdict EXCEPT ![next] = IF reports[next] = {} THEN "fail" ELSE "pass"]
  /\ next' = next + 1
  /\ UNCHANGED <<hostVars, conn, outcome, reports, up, down, inbox, outbox, worker,
                 reply, completed, misread>>

\* runWebSessionProcess, after runJob: a failure closes the session; a report,
\* if there is one, is the result either way.  (The tests of the model pass.)
Continue ==
  /\ hostUp /\ next <= NumJobs /\ outcome[next] \in {"resolved", "rejected"}
  /\ verdict' = [verdict EXCEPT ![next] = IF reports[next] = {} THEN "fail" ELSE "pass"]
  /\ next' = next + 1
  /\ IF outcome[next] = "rejected" THEN Close
     ELSE UNCHANGED <<closed, start, wsSocket, currentJob, outcome, conn>>
  /\ UNCHANGED <<hostUp, browser, ready, reports, up, down, inbox, outbox, worker,
                 reply, completed, misread>>

\* The finally of run() or of runTestModesCore.
Finish ==
  /\ hostUp /\ start = "ok" /\ next = NumJobs + 1 /\ ~closed
  /\ Close
  /\ UNCHANGED <<hostUp, browser, ready, next, reports, verdict, up, down, inbox,
                 outbox, worker, reply, completed, misread>>

-------------------------------------------------------------------------------
(* A tab: page and worker.  They live until the tab goes, connected or cut. *)

Alive(t) == conn[t] \in {"open", "cut"}

\* The user closes or reloads the tab, or it crashes.
Leave(t) ==
  /\ conn[t] = "open"
  /\ conn' = [conn EXCEPT ![t] = "closing"]
  /\ UNCHANGED <<hostVars, callerVars, up, down, inbox, outbox, worker, reply,
                 completed, misread>>

\* worker.onmessage: what the worker says goes to the socket, if it is open.
PageRelays(t) ==
  /\ Alive(t) /\ outbox[t] # <<>>
  /\ outbox' = Pop(outbox, t)
  /\ up' = IF conn[t] = "open" THEN Post(up, t, Head(outbox[t])) ELSE up
  /\ UNCHANGED <<hostVars, callerVars, down, conn, inbox, worker, reply, completed,
                 misread>>

\* The socket's messages: "load" and "start" go to the worker, a reply into
\* the buffer.  pushReply cannot wait on the page's thread: if the last reply
\* has not been read it throws, and the page reports an error.
PageReceives(t) ==
  /\ Alive(t) /\ down[t] # <<>>
  /\ down' = Pop(down, t)
  /\ LET m == Head(down[t])
     IN  CASE m.kind # "reply" ->
                inbox' = Post(inbox, t, m) /\ UNCHANGED <<reply, up>>
           [] m.kind = "reply" /\ reply[t] = None ->
                reply' = [reply EXCEPT ![t] = m] /\ UNCHANGED <<inbox, up>>
           [] OTHER ->
                /\ up' = IF conn[t] = "open" THEN Post(up, t, Msg("error", None)) ELSE up
                /\ UNCHANGED <<inbox, reply>>
  /\ UNCHANGED <<hostVars, callerVars, conn, outbox, worker, completed, misread>>

\* Seeded fault: "start" is obeyed with nothing instantiated.
WorkerReceivesAnyStart(t) ==
  /\ Alive(t) /\ inbox[t] # <<>> /\ worker[t].doing \in {"idle", "loading"}
  /\ inbox' = Pop(inbox, t)
  /\ LET m == Head(inbox[t])
     IN  CASE m.kind = "load" ->
                /\ worker' = [worker EXCEPT ![t].doing = "loading", ![t].load = m.job]
                /\ UNCHANGED outbox
           [] m.kind = "start" ->
                /\ worker' = [worker EXCEPT ![t].doing = "running", ![t].asked = 0]
                /\ UNCHANGED outbox
           [] OTHER ->
                /\ outbox' = Post(outbox, t, Msg("error", None))
                /\ UNCHANGED worker
  /\ UNCHANGED <<hostVars, callerVars, up, down, conn, reply, completed, misread>>

\* The worker takes a message whenever it is not inside the WASM.
WorkerReceives(t) ==
  /\ Alive(t) /\ inbox[t] # <<>> /\ worker[t].doing \in {"idle", "loading"}
  /\ inbox' = Pop(inbox, t)
  /\ LET m == Head(inbox[t])
     IN  CASE m.kind = "load" ->
                /\ worker' = [worker EXCEPT ![t].doing = "loading", ![t].load = m.job]
                /\ UNCHANGED outbox
           [] m.kind = "start" /\ worker[t].instance # None ->
                /\ worker' = [worker EXCEPT ![t].doing = "running", ![t].asked = 0]
                /\ UNCHANGED outbox
           [] OTHER ->
                /\ outbox' = Post(outbox, t, Msg("error", None))
                /\ UNCHANGED worker
  /\ UNCHANGED <<hostVars, callerVars, up, down, conn, reply, completed, misread>>

\* instantiate(): the artifact is served while its job is the current one.
Instantiate(t) ==
  /\ Alive(t) /\ worker[t].doing = "loading"
  /\ \E works \in {FALSE, conn[t] = "open" /\ currentJob # None
                            /\ currentJob.id = worker[t].load} :
       /\ worker' = [worker EXCEPT ![t].doing = "idle",
                       ![t].instance = IF works THEN worker[t].load ELSE @]
       /\ outbox' = Post(outbox, t, Msg(IF works THEN "instantiated" ELSE "error",
                                        worker[t].load))
  /\ UNCHANGED <<hostVars, callerVars, up, down, conn, inbox, reply, completed, misread>>

\* The running spec asks for a snapshot or for coverage settings, and waits.
Ask(t) ==
  /\ Alive(t) /\ worker[t].doing = "running" /\ worker[t].asked < Requests
  /\ worker' = [worker EXCEPT ![t].doing = "waiting", ![t].asked = @ + 1]
  /\ outbox' = Post(outbox, t, [kind |-> "ask", job |-> worker[t].instance,
                                n |-> worker[t].asked + 1])
  /\ UNCHANGED <<hostVars, callerVars, up, down, conn, inbox, reply, completed, misread>>

ReadReply(t) ==
  /\ Alive(t) /\ worker[t].doing = "waiting" /\ reply[t] # None
  /\ reply' = [reply EXCEPT ![t] = None]
  /\ worker' = [worker EXCEPT ![t].doing = "running"]
  /\ misread' = (misread \/ <<reply[t].job, reply[t].n>>
                             # <<worker[t].instance, worker[t].asked>>)
  /\ UNCHANGED <<hostVars, callerVars, up, down, conn, inbox, outbox, completed>>

\* Seeded fault: "done" overtakes the frames of the spec.
RunToEndHasty(t) ==
  /\ Alive(t) /\ worker[t].doing = "running"
  /\ worker' = [worker EXCEPT ![t].doing = "idle", ![t].instance = None]
  /\ outbox' = [outbox EXCEPT ![t] = @ \o <<Msg("done", worker[t].instance),
                                            Msg("report", worker[t].instance)>>]
  /\ completed' = completed \cup {worker[t].instance}
  /\ UNCHANGED <<hostVars, callerVars, up, down, conn, inbox, reply, misread>>

\* The spec ends: its report, then "done".
RunToEnd(t) ==
  /\ Alive(t) /\ worker[t].doing = "running"
  /\ worker' = [worker EXCEPT ![t].doing = "idle", ![t].instance = None]
  /\ outbox' = [outbox EXCEPT ![t] = @ \o <<Msg("report", worker[t].instance),
                                            Msg("done", worker[t].instance)>>]
  /\ completed' = completed \cup {worker[t].instance}
  /\ UNCHANGED <<hostVars, callerVars, up, down, conn, inbox, reply, misread>>

\* It traps, before or after its report.
Trap(t) ==
  /\ Alive(t) /\ worker[t].doing = "running"
  /\ worker' = [worker EXCEPT ![t].doing = "idle"]
  /\ \E said \in {<<>>, <<Msg("report", worker[t].instance)>>} :
       outbox' = [outbox EXCEPT ![t] = @ \o Append(said, Msg("error", worker[t].instance))]
  /\ UNCHANGED <<hostVars, callerVars, up, down, conn, inbox, reply, completed, misread>>

PageStep(t) == PageRelays(t) \/ PageReceives(t)
WorkerStep(t) ==
  WorkerReceives(t) \/ Instantiate(t) \/ Ask(t) \/ ReadReply(t) \/ RunToEnd(t)

-------------------------------------------------------------------------------
Next ==
  \/ BrowserExits \/ TerminalCloses \/ TerminalExits
  \/ Submit \/ Continue \/ Finish
  \/ \E t \in Tab :
       \/ Open(t) \/ Leave(t) \/ Disconnected(t)
       \/ HostHears(t) \/ PageStep(t) \/ WorkerStep(t) \/ Trap(t)

\* Sockets deliver or report their end, pages and workers go on, specs
\* terminate.  Nobody has to open a tab, to leave, or to close anything.
Fairness ==
  /\ WF_vars(Submit) /\ WF_vars(Continue) /\ WF_vars(Finish)
  /\ \A t \in Tab :
       /\ WF_vars(Disconnected(t)) /\ WF_vars(HostHears(t))
       /\ WF_vars(PageStep(t)) /\ WF_vars(WorkerStep(t))

Spec == Init /\ [][Next]_vars /\ Fairness

-------------------------------------------------------------------------------
(* Properties *)

SecondTab == \E t, u \in Tab : t # u /\ "new" \notin {conn[t], conn[u]}

\* sendControl never throws, so runJob leaves no job behind that blocks the
\* next one: an open host whose page is ready has a connected socket, and a
\* current job only while its promise is pending.
ConnectedWhileOpen ==
  /\ ready /\ ~closed => wsSocket # None /\ conn[wsSocket] \in {"open", "closing"}
  /\ \A j \in Job : outcome[j] = "pending" <=> currentJob # None /\ currentJob.id = j
  /\ closed => currentJob = None

\* Frames carry no job and replies no request: still no spec is given the report
\* of another one, with any number of tabs, and while one tab is all there is a
\* runtime reads the reply of the request it waits for.
OwnMessages ==
  /\ \A j \in Job : reports[j] \subseteq {j}
  /\ ~SecondTab => ~misread

\* A job is settled in the end: by its runtime, by an error, or because the
\* browser went away; with one tab, and while the CLI lives.
JobsSettle ==
  \A j \in Job : outcome[j] = "pending" ~> outcome[j] # "pending" \/ SecondTab

\* "fail terminal-side runs when the browser side disconnects unexpectedly": a
\* spec whose job was cut off does not pass.
DisconnectFails ==
  \A j \in Job : outcome[j] = "rejected" => verdict[j] # "pass"

\* The session is a WebService: in order, one at a time, resolved only by its
\* own completion, broken for good by the first failure.
Service == INSTANCE WebService WITH
  broken <- closed \/ \E j \in Job : outcome[j] = "rejected"
ImplementsService == Service!Spec
===============================================================================
