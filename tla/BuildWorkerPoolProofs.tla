------------------------- MODULE BuildWorkerPoolProofs -------------------------
(***************************************************************************)
(* The safety of BuildWorkerPool for any number of calls, signatures,      *)
(* workers and deaths.  pump is the step all handlers end in, so what it   *)
(* does is stated once (PumpTypes, PumpEffect), then that it keeps each    *)
(* part of the invariant (PumpKeepsPlaces, PumpKeepsAnswers); the step of  *)
(* each handler shows the same of the state in which it calls pump.        *)
(***************************************************************************)
EXTENDS BuildWorkerPool, SequenceTheorems, TLAPS

\* One execution of pump's loop: the slots A get the first n tasks of q.
Moved(s, q, T, C, n, A, place) ==
  LET idle == {i \in Slot : T[<<s, i>>] = NoTask}
  IN  /\ A \in SUBSET idle /\ place \in [A -> 1..n]
      /\ Dispatch(q, idle, n, A, place)
      /\ queue' = [queue EXCEPT ![s] = SubSeq(q, n + 1, Len(q))]
      /\ task' = [w \in Worker |-> IF w[1] = s /\ w[2] \in A
                                   THEN q[place[w[2]]] ELSE T[w]]
      /\ work' = [w \in Worker |-> IF w[1] = s /\ w[2] \in A /\ C[w] = "up"
                                   THEN work[w] \cup {q[place[w[2]]]}
                                   ELSE work[w]]
      /\ hostUp' = \A i \in A : C[<<s, i>>] = "up"

\* pump only moves tasks from queues to workers.
LEMMA PumpTypes ==
  ASSUME TypeOK,
         NEW s \in Signature, NEW q \in Seq(Task),
         NEW T \in [Worker -> Task \cup {NoTask}], NEW C,
         Pump(s, q, T, C)
  PROVE  /\ queue' \in [Signature -> Seq(Task)]
         /\ task' \in [Worker -> Task \cup {NoTask}]
         /\ work' \in [Worker -> SUBSET Task]
         /\ hostUp' \in BOOLEAN
<1> DEFINE idle == {i \in Slot : T[<<s, i>>] = NoTask}
<1>0. PICK n \in 0..Len(q) : \E A, place : Moved(s, q, T, C, n, A, place)
  BY ZenonT(60) DEF Pump, Moved
<1>1. PICK A, place : Moved(s, q, T, C, n, A, place)
  BY <1>0
<1> USE DEF Moved
<1>2. Len(q) \in Nat /\ \A p \in 1..Len(q) : q[p] \in Task
  BY LenProperties, ElementOfSeq
<1>3. SubSeq(q, n + 1, Len(q)) \in Seq(Task)
  <2>1. \A p \in n + 1..Len(q) : q[p] \in Task
    BY <1>2
  <2>. QED  BY <1>2, <2>1, SubSeqProperties
<1>4. \A i \in A : q[place[i]] \in Task
  BY <1>1, <1>2
<1>. QED
  BY <1>1, <1>3, <1>4 DEF TypeOK

\* What pump does, entered with queue q and worker tasks T: the first n tasks of
\* q go to n different idle workers of the pool, until the tasks or the idle
\* workers run out.
Effect(s, q, T, C) ==
  /\ \A r \in Signature \ {s} : queue'[r] = queue[r]
  /\ (\A w \in Worker : task'[w] = T[w]) => hostUp'
  /\ \A w \in Worker : task'[w] = T[w] => work'[w] = work[w]
  /\ \A w \in Worker : task'[w] # T[w] =>
       /\ w[1] = s /\ T[w] = NoTask /\ task'[w] # NoTask
       /\ work'[w] = work[w] \/ (C[w] = "up" /\ work'[w] \subseteq work[w] \cup {task'[w]})
  /\ \E n \in 0..Len(q) :
       /\ Len(queue'[s]) = Len(q) - n
       /\ \A i \in 1..Len(q) - n : queue'[s][i] = q[n + i]
       /\ \A p \in 1..n : \E w \in Worker :
            w[1] = s /\ task'[w] # T[w] /\ task'[w] = q[p]
       /\ \A w \in Worker : task'[w] # T[w] => \E p \in 1..n : task'[w] = q[p]
       /\ \A v, w \in Worker : task'[v] # T[v] /\ task'[w] # T[w] /\ v # w =>
            \E p, o \in 1..n : p # o /\ task'[v] = q[p] /\ task'[w] = q[o]
       /\ n = Len(q) \/ \A i \in Slot : task'[<<s, i>>] # NoTask

\* What pump leaves behind: a shorter queue, and its head on idle workers.
LEMMA PumpEffect ==
  ASSUME TypeOK,
         NEW s \in Signature, NEW q \in Seq(Task),
         NEW T \in [Worker -> Task \cup {NoTask}], NEW C,
         Pump(s, q, T, C)
  PROVE  Effect(s, q, T, C)
<1> DEFINE idle == {i \in Slot : T[<<s, i>>] = NoTask}
<1>0. PICK n \in 0..Len(q) : \E A, place : Moved(s, q, T, C, n, A, place)
  BY ZenonT(60) DEF Pump, Moved
<1>1. PICK A, place : Moved(s, q, T, C, n, A, place)
  BY <1>0
<1> USE DEF Moved
<1> DEFINE given == {w \in Worker : w[1] = s /\ w[2] \in A}
<1>2. Len(q) \in Nat /\ \A p \in 1..Len(q) : q[p] \in Task
  BY LenProperties, ElementOfSeq
<1>3. \A i \in A : i \in Slot /\ T[<<s, i>>] = NoTask /\ place[i] \in 1..n
                   /\ q[place[i]] \in Task
  BY <1>1, <1>2
<1>4. \A w \in Worker : w = <<w[1], w[2]>> /\ w[1] \in Signature /\ w[2] \in Slot
  BY DEF Worker
<1>5. \A w \in given : /\ T[w] = NoTask /\ task'[w] = q[place[w[2]]]
                       /\ task'[w] \in Task /\ task'[w] # NoTask
  BY <1>1, <1>3, <1>4, NoTaskAssumption
<1>6. \A w \in Worker \ given : task'[w] = T[w] /\ work'[w] = work[w]
  BY <1>1
<1>7. \A w \in Worker : task'[w] # T[w] <=> w \in given
  BY <1>5, <1>6
<1>8. /\ Len(queue'[s]) = Len(q) - n
      /\ \A i \in 1..Len(q) - n : queue'[s][i] = q[n + i]
  <2>1. queue'[s] = SubSeq(q, n + 1, Len(q))
    BY <1>1 DEF TypeOK
  <2>2. \A p \in n + 1..Len(q) : q[p] \in Task
    BY <1>2
  <2>3. n + 1 \in Int /\ Len(q) \in Int
    BY <1>2
  <2>4. /\ Len(SubSeq(q, n + 1, Len(q))) =
             IF n + 1 <= Len(q) THEN Len(q) - (n + 1) + 1 ELSE 0
        /\ \A i \in 1..Len(q) - (n + 1) + 1 :
             SubSeq(q, n + 1, Len(q))[i] = q[n + 1 + i - 1]
    BY <2>2, <2>3, SubSeqProperties
  <2>. QED  BY <1>2, <2>1, <2>4
<1>9. \A r \in Signature \ {s} : queue'[r] = queue[r]
  BY <1>1 DEF TypeOK
<1>10. \A w \in Worker :
         work'[w] = work[w] \/ (C[w] = "up" /\ work'[w] \subseteq work[w] \cup {task'[w]})
  BY <1>1
<1>11. \A p \in 1..n : \E w \in Worker :
         w[1] = s /\ task'[w] # T[w] /\ task'[w] = q[p]
  <2> TAKE p \in 1..n
  <2>1. PICK i \in A : place[i] = p
    BY <1>1 DEF Dispatch
  <2>2. <<s, i>> \in given
    BY <1>3 DEF Worker
  <2>. QED  BY <1>5, <1>7, <2>1, <2>2
<1>12. \A w \in Worker : task'[w] # T[w] => \E p \in 1..n : task'[w] = q[p]
  BY <1>3, <1>5, <1>7
<1>13. \A i, j \in A : i # j => place[i] # place[j]
  <2>1. \A i, j \in A : i < j => place[i] < place[j]
    BY <1>1 DEF Dispatch
  <2>2. \A i \in A : i \in Int
    <3>1. \A i \in Slot : i \in Int
      BY SizeAssumption DEF Slot
    <3>. QED  BY <1>3, <3>1
  <2>3. \A i \in A : place[i] \in Int
    <3>1. n \in Int
      BY <1>2
    <3>2. \A p \in 1..n : p \in Int
      BY <3>1
    <3>. QED  BY <1>3, <3>2
  <2>. QED  BY <2>1, <2>2, <2>3
<1>14. \A v, w \in Worker : task'[v] # T[v] /\ task'[w] # T[w] /\ v # w =>
         \E p, o \in 1..n : p # o /\ task'[v] = q[p] /\ task'[w] = q[o]
  <2> SUFFICES ASSUME NEW v \in given, NEW w \in given, v # w
               PROVE  \E p, o \in 1..n : p # o /\ task'[v] = q[p] /\ task'[w] = q[o]
    BY <1>7
  <2>1. v[2] # w[2] /\ v[2] \in A /\ w[2] \in A
    BY <1>4
  <2>2. place[v[2]] # place[w[2]]
    BY <1>13, <2>1
  <2>. QED  BY <1>3, <1>5, <2>1, <2>2
<1>15. n = Len(q) \/ \A i \in Slot : task'[<<s, i>>] # NoTask
  <2> SUFFICES ASSUME n # Len(q), NEW i \in Slot
               PROVE  task'[<<s, i>>] # NoTask
    OBVIOUS
  <2>1. A = idle
    BY <1>1 DEF Dispatch
  <2>2. <<s, i>> \in Worker
    BY DEF Worker
  <2>. QED  BY <1>5, <1>6, <2>1, <2>2
<1>16. (\A w \in Worker : task'[w] = T[w]) => hostUp'
  <2>1. \A i \in A : <<s, i>> \in given
    BY <1>3 DEF Worker
  <2>. QED  BY <1>1, <1>7, <2>1
<1>. QED
  BY <1>5, <1>6, <1>7, <1>8, <1>9, <1>10, <1>11, <1>12, <1>14, <1>15, <1>16
     DEF Effect

-------------------------------------------------------------------------------
(* Every unsettled task is in one place *)

Elements(q) == {q[i] : i \in 1..Len(q)}
Held(T, t) == \E w \in Worker : T[w] = t

\* OnePlace of promises pr, queues Q and worker tasks T; pump is called in the
\* middle of a handler, where these are not the variables.
PlacedIn(pr, Q, T) ==
  /\ \A t \in Task : pr[t] = "pending" <=> Held(T, t) \/ t \in Elements(Q[SignatureOf[t]])
  /\ \A s \in Signature : \A i, j \in 1..Len(Q[s]) :
       /\ SignatureOf[Q[s][i]] = s
       /\ ~Held(T, Q[s][i])
       /\ Q[s][i] = Q[s][j] => i = j
  /\ \A v, w \in Worker : T[w] # NoTask =>
       /\ SignatureOf[T[w]] = w[1]
       /\ T[v] = T[w] => v = w

\* OnePlace, said of the three variables it is about.
LEMMA OnePlaceIsPlacedIn == OnePlace <=> PlacedIn(promise, queue, task)
  BY DEF OnePlace, PlacedIn, Assigned, Held, Queued, Elements

\* No task is queued twice.
LEMMA NoTaskTwice ==
  ASSUME NEW pr, NEW Q, NEW T, PlacedIn(pr, Q, T), NEW s \in Signature
  PROVE  \A i, j \in 1..Len(Q[s]) : Q[s][i] = Q[s][j] => i = j
  BY DEF PlacedIn

\* A task that pump takes from the queue is the task of one worker afterwards.
LEMMA PumpKeepsPlaces ==
  ASSUME TypeOK,
         NEW s \in Signature, NEW q \in Seq(Task),
         NEW T \in [Worker -> Task \cup {NoTask}], NEW C,
         NEW pr, NEW Q, Q = [queue EXCEPT ![s] = q],
         PlacedIn(pr, Q, T),
         Pump(s, q, T, C)
  PROVE  PlacedIn(pr, queue', task')
<1>0. Effect(s, q, T, C)
  BY PumpEffect
<1>1. /\ Q[s] = q
      /\ \A r \in Signature \ {s} : Q[r] = queue'[r]
  BY <1>0 DEF TypeOK, Effect
<1>2. /\ Len(q) \in Nat
      /\ \A p \in 1..Len(q) : q[p] \in Task /\ SignatureOf[q[p]] = s /\ ~Held(T, q[p])
      /\ \A p, o \in 1..Len(q) : q[p] = q[o] => p = o
  BY <1>1, LenProperties, ElementOfSeq DEF PlacedIn
<1>3. \A w \in Worker : task'[w] # T[w] => w[1] = s /\ T[w] = NoTask /\ task'[w] # NoTask
  BY <1>0 DEF Effect
<1>4. PICK n \in 0..Len(q) :
        /\ Len(queue'[s]) = Len(q) - n
        /\ \A i \in 1..Len(q) - n : queue'[s][i] = q[n + i]
        /\ \A p \in 1..n : \E w \in Worker :
             w[1] = s /\ task'[w] # T[w] /\ task'[w] = q[p]
        /\ \A w \in Worker : task'[w] # T[w] =>
             \E p \in 1..n : task'[w] = q[p]
        /\ \A v, w \in Worker : task'[v] # T[v] /\ task'[w] # T[w] /\ v # w =>
             \E p, o \in 1..n : p # o /\ task'[v] = q[p] /\ task'[w] = q[o]
  BY <1>0 DEF Effect
<1>5. n \in Nat /\ 1..n \subseteq 1..Len(q)
  BY <1>2
<1>6. \A w \in Worker : task'[w] # T[w] =>
        /\ task'[w] \in Task /\ SignatureOf[task'[w]] = s /\ ~Held(T, task'[w])
        /\ \E p \in 1..n : task'[w] = q[p]
  BY <1>2, <1>4, <1>5
<1>7. \A t \in Task : Held(T, t) => Held(task', t)
  BY <1>3, NoTaskAssumption DEF Held
<1>8. \A t \in Task : Held(task', t) =>
        Held(T, t) \/ (SignatureOf[t] = s /\ \E p \in 1..n : t = q[p])
  BY <1>6 DEF Held
<1>9. \A t \in Elements(queue'[s]) : \E p \in n + 1..Len(q) : t = q[p]
  <2>1. \A i \in 1..Len(q) - n : n + i \in n + 1..Len(q)
    BY <1>2, <1>5
  <2>. QED  BY <1>4, <2>1 DEF Elements
<1>10. \A p \in n + 1..Len(q) : q[p] \in Elements(queue'[s])
  <2> TAKE p \in n + 1..Len(q)
  <2>1. p - n \in 1..Len(q) - n /\ n + (p - n) = p
    BY <1>2, <1>5
  <2>2. queue'[s][p - n] = q[p]
    BY <1>4, <2>1
  <2>. QED  BY <1>4, <2>1, <2>2 DEF Elements
<1>11. 1..Len(q) = 1..n \cup n + 1..Len(q)
  BY <1>2, <1>5
<1>12. ASSUME NEW t \in Task
       PROVE  pr[t] = "pending" <=> Held(task', t) \/ t \in Elements(queue'[SignatureOf[t]])
  <2>1. pr[t] = "pending" <=> Held(T, t) \/ t \in Elements(Q[SignatureOf[t]])
    BY DEF PlacedIn
  <2>2. CASE SignatureOf[t] # s
    <3>1. Held(task', t) <=> Held(T, t)
      BY <1>7, <1>8, <2>2
    <3>. QED  BY <1>1, <2>1, <2>2, <3>1, SignatureAssumption
  <2>3. CASE SignatureOf[t] = s
    <3>1. t \in Elements(q) <=> \/ \E p \in 1..n : t = q[p]
                                \/ t \in Elements(queue'[s])
      BY <1>9, <1>10, <1>11 DEF Elements
    <3>2. (\E p \in 1..n : t = q[p]) => Held(task', t)
      BY <1>4 DEF Held
    <3>. QED  BY <1>1, <1>7, <1>8, <2>1, <2>3, <3>1, <3>2
  <2>. QED  BY <2>2, <2>3
<1>13. ASSUME NEW r \in Signature, NEW i \in 1..Len(queue'[r]), NEW j \in 1..Len(queue'[r])
       PROVE  /\ SignatureOf[queue'[r][i]] = r
              /\ ~Held(task', queue'[r][i])
              /\ queue'[r][i] = queue'[r][j] => i = j
  <2>1. CASE r # s
    <3>1. queue'[r] = Q[r] /\ Q[r] = queue[r]
      BY <1>1, <2>1 DEF TypeOK
    <3>2. queue[r][i] \in Task
      BY <3>1, ElementOfSeq DEF TypeOK
    <3>3. /\ SignatureOf[Q[r][i]] = r /\ ~Held(T, Q[r][i])
          /\ Q[r][i] = Q[r][j] => i = j
      BY <3>1 DEF PlacedIn
    <3>. QED  BY <1>8, <2>1, <3>1, <3>2, <3>3
  <2>2. CASE r = s
    <3>1. /\ i \in Int /\ j \in Int
          /\ n + i \in 1..Len(q) /\ n + j \in 1..Len(q) /\ ~(n + i \in 1..n)
          /\ n + i = n + j => i = j
      BY <1>2, <1>4, <1>5, <2>2
    <3>2. queue'[s][i] = q[n + i] /\ queue'[s][j] = q[n + j]
      BY <1>4, <2>2
    <3>3. ~ \E p \in 1..n : q[n + i] = q[p]
      BY <1>2, <1>5, <3>1
    <3>. QED  BY <1>2, <1>8, <2>2, <3>1, <3>2, <3>3
  <2>. QED  BY <2>1, <2>2
<1>14. ASSUME NEW v \in Worker, NEW w \in Worker, task'[w] # NoTask
       PROVE  SignatureOf[task'[w]] = w[1] /\ (task'[v] = task'[w] => v = w)
  <2>1. T[w] # NoTask => SignatureOf[T[w]] = w[1] /\ (T[v] = T[w] => v = w)
    BY DEF PlacedIn
  <2>2. CASE task'[w] = T[w]
    <3>1. task'[v] # T[v] => task'[v] # task'[w]
      BY <1>6, <2>2 DEF Held
    <3>. QED  BY <1>14, <2>1, <2>2, <3>1
  <2>3. CASE task'[w] # T[w]
    <3>1. task'[v] = T[v] => task'[v] # task'[w]
      BY <1>6, <2>3 DEF Held
    <3>2. task'[v] # T[v] /\ v # w => task'[v] # task'[w]
      BY <1>2, <1>4, <1>5, <2>3
    <3>. QED  BY <1>3, <1>6, <2>3, <3>1, <3>2
  <2>. QED  BY <2>2, <2>3
<1>. QED
  BY <1>12, <1>13, <1>14 DEF PlacedIn

-------------------------------------------------------------------------------
(* Types *)

\* The arguments with which the handlers call pump.
LEMMA PumpArguments ==
  ASSUME TypeOK
  PROVE  /\ \A t \in Task : /\ SignatureOf[t] \in Signature
                            /\ Append(queue[SignatureOf[t]], t) \in Seq(Task)
         /\ \A w \in Worker : /\ w[1] \in Signature
                              /\ queue[w[1]] \in Seq(Task)
                              /\ [task EXCEPT ![w] = NoTask]
                                   \in [Worker -> Task \cup {NoTask}]
<1>1. \A t \in Task : /\ SignatureOf[t] \in Signature
                      /\ Append(queue[SignatureOf[t]], t) \in Seq(Task)
  BY SignatureAssumption, AppendProperties DEF TypeOK
<1>2. \A w \in Worker : w[1] \in Signature
  BY DEF Worker
<1>. QED
  BY <1>1, <1>2 DEF TypeOK

\* The fields of a message.
LEMMA MessageFields ==
  /\ \A m \in Message : m.id \in Task /\ m.stale \in BOOLEAN
                        /\ [m EXCEPT !.stale = TRUE] \in Message
  /\ \A t \in Task : /\ [id |-> t, type |-> "done", stale |-> FALSE] \in Message
                     /\ [id |-> t, type |-> "error", stale |-> FALSE] \in Message
  BY DEF Message

\* Every handler of the pool keeps the types.
LEMMA TypeStep == TypeOK /\ [Next]_vars => TypeOK'
<1> SUFFICES ASSUME TypeOK, [Next]_vars PROVE TypeOK'
  OBVIOUS
<1>1. ASSUME NEW t \in Task, BuildFileMode(t) PROVE TypeOK'
  <2>1. /\ queue' \in [Signature -> Seq(Task)]
        /\ task' \in [Worker -> Task \cup {NoTask}]
        /\ work' \in [Worker -> SUBSET Task]
        /\ hostUp' \in BOOLEAN
    BY <1>1, PumpArguments, PumpTypes DEF BuildFileMode, TypeOK
  <2>2. /\ pools' \in SUBSET Signature
        /\ child' \in [Worker -> {"absent", "up", "dead", "exited"}]
        /\ promise' \in [Task -> {"idle", "pending", "resolved", "rejected"}]
    BY <1>1, PumpArguments DEF BuildFileMode, Spawned, TypeOK
  <2>. QED  BY <1>1, <2>1, <2>2 DEF BuildFileMode, TypeOK
<1>2. ASSUME NEW t \in Task, BuildFileModeClosed(t) PROVE TypeOK'
  BY <1>2 DEF BuildFileModeClosed, TypeOK
<1>3. ASSUME NEW w \in Worker, NEW m \in reply[w], OnMessage(w, m) PROVE TypeOK'
  <2>1. /\ queue' \in [Signature -> Seq(Task)]
        /\ task' \in [Worker -> Task \cup {NoTask}]
        /\ work' \in [Worker -> SUBSET Task]
        /\ hostUp' \in BOOLEAN
    BY <1>3, PumpArguments, PumpTypes DEF OnMessage
  <2>2. task[w] \in Task
    BY <1>3, MessageFields DEF OnMessage, Expected, TypeOK
  <2>3. /\ reply' \in [Worker -> SUBSET Message]
        /\ promise' \in [Task -> {"idle", "pending", "resolved", "rejected"}]
        /\ reads' \in SUBSET Task
    BY <1>3, <2>2 DEF OnMessage, TypeOK
  <2>. QED  BY <1>3, <2>1, <2>3 DEF OnMessage, TypeOK
<1>4. ASSUME NEW w \in Worker, NEW m \in reply[w], OnMessageIgnored(w, m) PROVE TypeOK'
  BY <1>4 DEF OnMessageIgnored, TypeOK
<1>5. ASSUME NEW w \in Worker, OnExit(w) PROVE TypeOK'
  <2>1. /\ queue' \in [Signature -> Seq(Task)]
        /\ task' \in [Worker -> Task \cup {NoTask}]
        /\ work' \in [Worker -> SUBSET Task]
        /\ hostUp' \in BOOLEAN
    BY <1>5, PumpArguments, PumpTypes DEF OnExit
  <2>2. {[m EXCEPT !.stale = TRUE] : m \in reply[w]} \in SUBSET Message
    BY MessageFields DEF TypeOK
  <2>3. /\ reply' \in [Worker -> SUBSET Message]
        /\ promise' \in [Task -> {"idle", "pending", "resolved", "rejected"}]
        /\ child' \in [Worker -> {"absent", "up", "dead", "exited"}]
    BY <1>5, <2>2 DEF OnExit, RejectTaskOf, TypeOK
  <2>. QED  BY <1>5, <2>1, <2>3 DEF OnExit, TypeOK
<1>6. ASSUME NEW w \in Worker, OnExitClosed(w) PROVE TypeOK'
  BY <1>6 DEF OnExitClosed, RejectTaskOf, TypeOK
<1>7. ASSUME NEW w \in Worker, NEW t \in work[w], BuildDone(w, t) \/ BuildError(w, t)
      PROVE  TypeOK'
  <2>1. t \in Task
    BY DEF TypeOK
  <2>2. CASE BuildDone(w, t)
    BY <2>1, <2>2, MessageFields DEF BuildDone, TypeOK
  <2>3. CASE BuildError(w, t)
    BY <2>1, <2>3, MessageFields DEF BuildError, TypeOK
  <2>. QED  BY <1>7, <2>2, <2>3
<1>8. ASSUME NEW w \in Worker, Die(w) PROVE TypeOK'
  BY <1>8 DEF Die, TypeOK
<1>9. CASE Close
  <2>1. <<>> \in Seq(Task)
    BY EmptySeq
  <2>. QED  BY <1>9, <2>1 DEF Close, TypeOK
<1>10. CASE UNCHANGED vars
  BY <1>10 DEF vars, TypeOK
<1>. QED
  BY <1>1, <1>2, <1>3, <1>4, <1>5, <1>6, <1>7, <1>8, <1>9, <1>10
     DEF Next, Receive, Exit, Answer

-------------------------------------------------------------------------------
(* Every handler keeps tasks in one place *)

\* Settling the task of a worker and freeing the worker go together.
LEMMA FreeingKeepsPlaces ==
  ASSUME TypeOK, OnePlace, NEW w \in Worker, NEW pr,
         \A t \in Task : pr[t] = "pending" <=> promise[t] = "pending" /\ t # task[w]
  PROVE  PlacedIn(pr, queue, [task EXCEPT ![w] = NoTask])
<1> DEFINE T == [task EXCEPT ![w] = NoTask]
<1>1. PlacedIn(promise, queue, task)
  BY OnePlaceIsPlacedIn
<1>2. T[w] = NoTask /\ \A v \in Worker \ {w} : T[v] = task[v]
  BY DEF TypeOK
<1>3. \A t \in Task : Held(T, t) <=> Held(task, t) /\ t # task[w]
  <2>1. \A u, v \in Worker : task[v] # NoTask => (task[u] = task[v] => u = v)
    BY <1>1 DEF PlacedIn
  <2>2. \A t \in Task, v \in Worker : T[v] = t => v # w /\ task[v] = t /\ task[w] # t
    BY <1>2, <2>1, NoTaskAssumption
  <2>3. \A t \in Task, v \in Worker : task[v] = t /\ t # task[w] => T[v] = t
    BY <1>2
  <2>. QED  BY <2>2, <2>3 DEF Held
<1>4. ASSUME NEW t \in Task
      PROVE  pr[t] = "pending" <=> Held(T, t) \/ t \in Elements(queue[SignatureOf[t]])
  <2>1. promise[t] = "pending" <=>
          Held(task, t) \/ t \in Elements(queue[SignatureOf[t]])
    BY <1>1 DEF PlacedIn
  <2>2. t \in Elements(queue[SignatureOf[t]]) => t # task[w]
    BY <1>1, SignatureAssumption DEF PlacedIn, Held, Elements
  <2>. QED  BY <1>3, <2>1, <2>2
<1>5. \A s \in Signature : \A i \in 1..Len(queue[s]) : queue[s][i] \in Task
  BY ElementOfSeq DEF TypeOK
<1>6. \A s \in Signature : \A i, j \in 1..Len(queue[s]) :
        /\ SignatureOf[queue[s][i]] = s
        /\ ~Held(T, queue[s][i])
        /\ queue[s][i] = queue[s][j] => i = j
  <2> SUFFICES ASSUME NEW s \in Signature, NEW i \in 1..Len(queue[s]),
                      NEW j \in 1..Len(queue[s])
               PROVE  /\ SignatureOf[queue[s][i]] = s
                      /\ ~Held(T, queue[s][i])
                      /\ queue[s][i] = queue[s][j] => i = j
    OBVIOUS
  <2>1. /\ SignatureOf[queue[s][i]] = s /\ ~Held(task, queue[s][i])
        /\ queue[s][i] = queue[s][j] => i = j
    BY <1>1 DEF PlacedIn
  <2>. QED  BY <1>3, <1>5, <2>1
<1>7. \A u, v \in Worker : T[v] # NoTask =>
        SignatureOf[T[v]] = v[1] /\ (T[u] = T[v] => u = v)
  BY <1>1, <1>2 DEF PlacedIn
<1>. QED
  BY <1>4, <1>6, <1>7 DEF PlacedIn

\* A new task is at the end of its pool's queue and nowhere else.
LEMMA EnqueueKeepsPlaces ==
  ASSUME TypeOK, OnePlace, NEW t \in Task, promise[t] = "idle"
  PROVE  PlacedIn([promise EXCEPT ![t] = "pending"],
                  [queue EXCEPT ![SignatureOf[t]] = Append(queue[SignatureOf[t]], t)],
                  task)
<1> DEFINE s == SignatureOf[t]
           q == queue[s]
           pr == [promise EXCEPT ![t] = "pending"]
           Q == [queue EXCEPT ![s] = Append(q, t)]
<1>1. PlacedIn(promise, queue, task)
  BY OnePlaceIsPlacedIn
<1>2. s \in Signature /\ q \in Seq(Task)
  BY SignatureAssumption DEF TypeOK
<1>3. /\ Q[s] = Append(q, t)
      /\ \A r \in Signature \ {s} : Q[r] = queue[r]
  BY <1>2 DEF TypeOK
<1>4. /\ Len(q) \in Nat /\ Len(Q[s]) = Len(q) + 1 /\ Q[s][Len(q) + 1] = t
      /\ \A i \in 1..Len(q) : Q[s][i] = q[i]
  BY <1>2, <1>3, AppendProperties, LenProperties
<1>5. \A i \in 1..Len(q) + 1 : i \in 1..Len(q) \/ i = Len(q) + 1
  BY <1>4
<1>6. ~Held(task, t) /\ t \notin Elements(q)
  BY <1>1 DEF PlacedIn
<1>7. Elements(Q[s]) = Elements(q) \cup {t}
  <2>1. 1..Len(q) + 1 = 1..Len(q) \cup {Len(q) + 1}
    BY <1>4
  <2>. QED  BY <1>4, <2>1 DEF Elements
<1>8. ASSUME NEW u \in Task
      PROVE  pr[u] = "pending" <=> Held(task, u) \/ u \in Elements(Q[SignatureOf[u]])
  <2>1. promise[u] = "pending" <=> Held(task, u) \/ u \in Elements(queue[SignatureOf[u]])
    BY <1>1 DEF PlacedIn
  <2>2. CASE u = t
    BY <1>7, <2>2 DEF TypeOK
  <2>3. CASE u # t
    <3>1. pr[u] = promise[u]
      BY <2>3 DEF TypeOK
    <3>2. u \in Elements(Q[SignatureOf[u]]) <=> u \in Elements(queue[SignatureOf[u]])
      BY <1>3, <1>7, <2>3, SignatureAssumption
    <3>. QED  BY <2>1, <3>1, <3>2
  <2>. QED  BY <2>2, <2>3
<1>9. ASSUME NEW r \in Signature, NEW i \in 1..Len(Q[r]), NEW j \in 1..Len(Q[r])
      PROVE  SignatureOf[Q[r][i]] = r /\ ~Held(task, Q[r][i]) /\ (Q[r][i] = Q[r][j] => i = j)
  <2>1. CASE r # s
    BY <1>1, <1>3, <2>1 DEF PlacedIn
  <2>2. CASE r = s
    <3>1. \A k \in 1..Len(q) : /\ SignatureOf[q[k]] = s /\ ~Held(task, q[k]) /\ q[k] # t
                               /\ \A l \in 1..Len(q) : q[k] = q[l] => k = l
      BY <1>1, <1>2, <1>6 DEF PlacedIn, Elements
    <3>2. i \in 1..Len(q) + 1 /\ j \in 1..Len(q) + 1
      BY <1>4, <2>2
    <3>. QED  BY <1>4, <1>5, <1>6, <2>2, <3>1, <3>2
  <2>. QED  BY <2>1, <2>2
<1>10. \A v, w \in Worker : task[w] # NoTask =>
         SignatureOf[task[w]] = w[1] /\ (task[v] = task[w] => v = w)
  BY <1>1 DEF PlacedIn
<1>. QED
  BY <1>8, <1>9, <1>10 DEF PlacedIn

\* Workers exist for the signatures asked for; only they have tasks; after close
\* nothing is queued, and only then a worker is gone for good.
Lifecycle ==
  /\ \A w \in Worker : child[w] = "absent" <=> w[1] \notin pools
  /\ \A w \in Worker : task[w] # NoTask => w[1] \in pools
  /\ \A s \in Signature : queue[s] # <<>> => s \in pools /\ ~closed
  /\ \A w \in Worker : child[w] = "exited" => closed /\ task[w] = NoTask

\* No handler loses a task, doubles it or leaves a settled one behind.
LEMMA OnePlaceStep == TypeOK /\ OnePlace /\ Lifecycle /\ [Next]_vars => OnePlace'
<1> SUFFICES ASSUME TypeOK, OnePlace, Lifecycle, [Next]_vars PROVE OnePlace'
  OBVIOUS
<1> SUFFICES PlacedIn(promise', queue', task')
  BY DEF OnePlace, PlacedIn, Assigned, Held, Queued, Elements
<1>0. PlacedIn(promise, queue, task)
  BY OnePlaceIsPlacedIn
<1>1. ASSUME NEW t \in Task, BuildFileMode(t) PROVE PlacedIn(promise', queue', task')
  <2>1. PlacedIn(promise', [queue EXCEPT ![SignatureOf[t]] =
                              Append(queue[SignatureOf[t]], t)], task)
    BY <1>1, EnqueueKeepsPlaces DEF BuildFileMode
  <2>2. task \in [Worker -> Task \cup {NoTask}]
    BY DEF TypeOK
  <2>. QED  BY <1>1, <2>1, <2>2, PumpArguments, PumpKeepsPlaces DEF BuildFileMode
<1>2. ASSUME NEW t \in Task, BuildFileModeClosed(t) PROVE PlacedIn(promise', queue', task')
  BY <1>0, <1>2 DEF BuildFileModeClosed, PlacedIn, TypeOK
<1>3. ASSUME NEW w \in Worker, NEW m \in reply[w], OnMessage(w, m)
      PROVE  PlacedIn(promise', queue', task')
  <2>1. \A t \in Task : promise'[t] = "pending" <=> promise[t] = "pending" /\ t # task[w]
    BY <1>3 DEF OnMessage, TypeOK
  <2>2. PlacedIn(promise', queue, [task EXCEPT ![w] = NoTask])
    BY <2>1, FreeingKeepsPlaces
  <2>3. queue = [queue EXCEPT ![w[1]] = queue[w[1]]]
    BY DEF TypeOK
  <2>. QED  BY <1>3, <2>2, <2>3, PumpArguments, PumpKeepsPlaces DEF OnMessage
<1>4. ASSUME NEW w \in Worker, NEW m \in reply[w], OnMessageIgnored(w, m)
      PROVE  PlacedIn(promise', queue', task')
  BY <1>0, <1>4 DEF OnMessageIgnored
<1>5. ASSUME NEW w \in Worker, OnExit(w) PROVE PlacedIn(promise', queue', task')
  <2>1. \A t \in Task : promise'[t] = "pending" <=> promise[t] = "pending" /\ t # task[w]
    BY <1>5 DEF OnExit, RejectTaskOf
  <2>2. PlacedIn(promise', queue, [task EXCEPT ![w] = NoTask])
    BY <2>1, FreeingKeepsPlaces
  <2>3. queue = [queue EXCEPT ![w[1]] = queue[w[1]]]
    BY DEF TypeOK
  <2>. QED  BY <1>5, <2>2, <2>3, PumpArguments, PumpKeepsPlaces DEF OnExit
<1>6. ASSUME NEW w \in Worker, OnExitClosed(w) PROVE PlacedIn(promise', queue', task')
  <2>1. \A t \in Task : promise'[t] = "pending" <=> promise[t] = "pending" /\ t # task[w]
    BY <1>6 DEF OnExitClosed, RejectTaskOf
  <2>. QED  BY <1>6, <2>1, FreeingKeepsPlaces DEF OnExitClosed
<1>7. ASSUME NEW w \in Worker, NEW t \in work[w], BuildDone(w, t) \/ BuildError(w, t)
      PROVE  PlacedIn(promise', queue', task')
  BY <1>0, <1>7 DEF BuildDone, BuildError
<1>8. ASSUME NEW w \in Worker, Die(w) PROVE PlacedIn(promise', queue', task')
  BY <1>0, <1>8 DEF Die
<1>9. CASE Close
  <2>1. \A s \in Signature : queue'[s] = <<>> /\ Len(queue'[s]) = 0
    BY <1>9, EmptySeq DEF Close
  <2>2. \A t \in Task : promise'[t] = "pending" <=>
          promise[t] = "pending" /\ ~ \E s \in pools : t \in Queued(s)
    BY <1>9 DEF Close
  <2>3. \A t \in Task : t \in Elements(queue[SignatureOf[t]]) <=>
          \E s \in pools : t \in Queued(s)
    <3>1. \A s \in Signature \ pools : Len(queue[s]) = 0
      BY EmptySeq DEF Lifecycle
    <3>. QED  BY <1>0, <3>1, SignatureAssumption DEF PlacedIn, Elements, Queued, TypeOK
  <2>4. \A t \in Task : t \in Elements(queue[SignatureOf[t]]) => ~Held(task, t)
    BY <1>0, SignatureAssumption DEF PlacedIn, Elements
  <2>5. task' = task
    BY <1>9 DEF Close
  <2>6. \A t \in Task : t \notin Elements(queue'[SignatureOf[t]])
    BY <2>1, SignatureAssumption DEF Elements
  <2>7. \A t \in Task : promise'[t] = "pending" <=> Held(task', t)
    BY <1>0, <2>2, <2>3, <2>4, <2>5 DEF PlacedIn
  <2>8. \A s \in Signature : 1..Len(queue'[s]) = {}
    BY <2>1
  <2>. QED  BY <1>0, <2>5, <2>6, <2>7, <2>8 DEF PlacedIn
<1>10. CASE UNCHANGED vars
  BY <1>0, <1>10 DEF vars
<1>. QED
  BY <1>1, <1>2, <1>3, <1>4, <1>5, <1>6, <1>7, <1>8, <1>9, <1>10
     DEF Next, Receive, Exit, Answer

-------------------------------------------------------------------------------
(* Workers, pools and close *)

\* A worker is freed and its pool pumped, by "message" or by "exit".
LEMMA FreedPumpKeepsLifecycle ==
  ASSUME TypeOK, TypeOK', Lifecycle, NEW w \in Worker, w[1] \in pools, NEW C,
         Effect(w[1], queue[w[1]], [task EXCEPT ![w] = NoTask], C),
         UNCHANGED <<closed, pools>>,
         child' = child \/ (~closed /\ child[w] = "dead" /\ child' = [child EXCEPT ![w] = "up"])
  PROVE  Lifecycle'
<1> DEFINE s == w[1]
           T == [task EXCEPT ![w] = NoTask]
<1>1. s \in Signature /\ queue[s] \in Seq(Task)
  BY PumpArguments
<1>2. \A v \in Worker : T[v] = NoTask \/ T[v] = task[v]
  BY DEF TypeOK
<1>3. /\ \A r \in Signature \ {s} : queue'[r] = queue[r]
      /\ \A v \in Worker : task'[v] # T[v] => v[1] = s
  BY DEF Effect
<1>4. ASSUME queue[s] = <<>>
      PROVE  queue'[s] = <<>> /\ \A v \in Worker : task'[v] = T[v]
  <2>1. Len(queue[s]) = 0
    BY <1>4, EmptySeq
  <2>2. PICK n \in 0..Len(queue[s]) :
          /\ Len(queue'[s]) = Len(queue[s]) - n
          /\ \A v \in Worker : task'[v] # T[v] => \E p \in 1..n : task'[v] = queue[s][p]
    BY DEF Effect
  <2>3. n = 0 /\ 1..n = {} /\ Len(queue'[s]) = 0
    BY <2>1, <2>2
  <2>4. queue'[s] = <<>>
    BY <1>1, <2>3, EmptySeq DEF TypeOK
  <2>. QED  BY <2>2, <2>3, <2>4
<1>5. closed => queue[s] = <<>>
  BY <1>1 DEF Lifecycle
<1>6. \A v \in Worker : child'[v] = "absent" <=> v[1] \notin pools'
  BY DEF Lifecycle, TypeOK
<1>7. \A v \in Worker : task'[v] # NoTask => v[1] \in pools'
  BY <1>2, <1>3 DEF Lifecycle
<1>8. \A r \in Signature : queue'[r] # <<>> => r \in pools' /\ ~closed'
  BY <1>3, <1>4, <1>5 DEF Lifecycle
<1>9. \A v \in Worker : child'[v] = "exited" => closed' /\ task'[v] = NoTask
  <2>1. \A v \in Worker : child'[v] = "exited" => closed /\ task[v] = NoTask
    BY DEF Lifecycle, TypeOK
  <2>. QED  BY <1>2, <1>4, <1>5, <2>1
<1>. QED
  BY <1>6, <1>7, <1>8, <1>9 DEF Lifecycle

\* Workers exist exactly where their pool does, only an open pool has a queue,
\* and an exited worker belongs to a closed pool and holds no task.
LEMMA LifecycleStep == TypeOK /\ TypeOK' /\ Lifecycle /\ [Next]_vars => Lifecycle'
<1> SUFFICES ASSUME TypeOK, TypeOK', Lifecycle, [Next]_vars PROVE Lifecycle'
  OBVIOUS
<1>1. ASSUME NEW t \in Task, BuildFileMode(t) PROVE Lifecycle'
  <2> DEFINE s == SignatureOf[t]
             q == Append(queue[s], t)
  <2>1. s \in Signature /\ Effect(s, q, task, Spawned(s))
    BY <1>1, PumpArguments, PumpEffect DEF BuildFileMode, TypeOK
  <2>2. /\ \A r \in Signature \ {s} : queue'[r] = queue[r]
        /\ \A w \in Worker : task'[w] # task[w] => w[1] = s
        /\ \A w \in Worker : task'[w] # NoTask => task[w] # NoTask \/ w[1] = s
    BY <2>1 DEF Effect
  <2>3. \A w \in Worker : /\ w[1] \in Signature
                          /\ child'[w] = IF w[1] = s /\ s \notin pools THEN "up" ELSE child[w]
    BY <1>1 DEF BuildFileMode, Spawned, Worker
  <2>4. ~closed /\ ~closed' /\ pools' = pools \cup {s}
    BY <1>1 DEF BuildFileMode
  <2>. QED  BY <2>1, <2>2, <2>3, <2>4 DEF Lifecycle
<1>2. ASSUME NEW t \in Task, BuildFileModeClosed(t) PROVE Lifecycle'
  BY <1>2 DEF BuildFileModeClosed, Lifecycle
<1>3. ASSUME NEW w \in Worker, NEW m \in reply[w], OnMessage(w, m) PROVE Lifecycle'
  <2> DEFINE T == [task EXCEPT ![w] = NoTask]
  <2>1. w[1] \in Signature /\ Effect(w[1], queue[w[1]], T, child)
    BY <1>3, PumpArguments, PumpEffect DEF OnMessage
  <2>2. w[1] \in pools
    BY <1>3, MessageFields, NoTaskAssumption DEF OnMessage, Expected, Lifecycle, TypeOK
  <2>. QED  BY <1>3, <2>1, <2>2, FreedPumpKeepsLifecycle DEF OnMessage
<1>4. ASSUME NEW w \in Worker, NEW m \in reply[w], OnMessageIgnored(w, m) PROVE Lifecycle'
  BY <1>4 DEF OnMessageIgnored, Lifecycle
<1>5. ASSUME NEW w \in Worker, OnExit(w) PROVE Lifecycle'
  <2> DEFINE T == [task EXCEPT ![w] = NoTask]
             C == [child EXCEPT ![w] = "up"]
  <2>1. w[1] \in Signature /\ Effect(w[1], queue[w[1]], T, C)
    BY <1>5, PumpArguments, PumpEffect DEF OnExit
  <2>2. w[1] \in pools
    BY <1>5 DEF OnExit, Lifecycle
  <2>. QED  BY <1>5, <2>1, <2>2, FreedPumpKeepsLifecycle DEF OnExit, TypeOK
<1>6. ASSUME NEW w \in Worker, OnExitClosed(w) PROVE Lifecycle'
  BY <1>6 DEF OnExitClosed, Lifecycle, TypeOK
<1>7. ASSUME NEW w \in Worker, NEW t \in work[w], BuildDone(w, t) \/ BuildError(w, t)
      PROVE  Lifecycle'
  BY <1>7 DEF BuildDone, BuildError, Lifecycle
<1>8. ASSUME NEW w \in Worker, Die(w) PROVE Lifecycle'
  BY <1>8 DEF Die, Lifecycle, TypeOK
<1>9. CASE Close
  BY <1>9 DEF Close, Lifecycle, TypeOK
<1>10. CASE UNCHANGED vars
  BY <1>10 DEF vars, Lifecycle
<1>. QED
  BY <1>1, <1>2, <1>3, <1>4, <1>5, <1>6, <1>7, <1>8, <1>9, <1>10
     DEF Next, Receive, Exit, Answer

-------------------------------------------------------------------------------
(* Builds and answers *)

\* With worker tasks T, builds B, messages R and processes C: a child builds the
\* task of its worker or nothing; the one answer that is not stale is to the
\* task of the worker, unless the worker is gone, and "done" is said of what was
\* built.
AnswersIn(T, B, R, C, built) ==
  \A w \in Worker :
    /\ \A t \in B[w] : t = T[w] /\ \A m \in R[w] : m.stale
    /\ C[w] # "up" => B[w] = {}
    /\ \A m \in R[w] : ~m.stale =>
         /\ C[w] = "exited" \/ T[w] = m.id
         /\ m.type = "done" => m.id \in built
    /\ \A m, o \in R[w] : ~m.stale /\ ~o.stale => m = o

Answers == AnswersIn(task, work, reply, child, artifact)

\* pump sends work only to idle processes, which have nothing to answer.
LEMMA PumpKeepsAnswers ==
  ASSUME TypeOK,
         NEW s \in Signature, NEW q \in Seq(Task),
         NEW T \in [Worker -> Task \cup {NoTask}],
         NEW R \in [Worker -> SUBSET Message], NEW C, NEW built,
         AnswersIn(T, work, R, C, built),
         Pump(s, q, T, C)
  PROVE  AnswersIn(task', work', R, C, built)
<1> SUFFICES ASSUME NEW w \in Worker
             PROVE  /\ \A t \in work'[w] : t = task'[w] /\ \A m \in R[w] : m.stale
                    /\ C[w] # "up" => work'[w] = {}
                    /\ \A m \in R[w] : ~m.stale =>
                         /\ C[w] = "exited" \/ task'[w] = m.id
                         /\ m.type = "done" => m.id \in built
                    /\ \A m, o \in R[w] : ~m.stale /\ ~o.stale => m = o
  BY DEF AnswersIn
<1>1. Effect(s, q, T, C)
  BY PumpEffect
<1>2. /\ \A t \in work[w] : t = T[w] /\ \A m \in R[w] : m.stale
      /\ C[w] # "up" => work[w] = {}
      /\ \A m \in R[w] : ~m.stale =>
           /\ C[w] = "exited" \/ T[w] = m.id
           /\ m.type = "done" => m.id \in built
      /\ \A m, o \in R[w] : ~m.stale /\ ~o.stale => m = o
  BY DEF AnswersIn
<1>3. CASE task'[w] = T[w]
  <2>1. work'[w] = work[w]
    BY <1>1, <1>3 DEF Effect
  <2>. QED  BY <1>2, <1>3, <2>1
<1>4. CASE task'[w] # T[w]
  <2>1. /\ T[w] = NoTask
        /\ work'[w] = work[w] \/ (C[w] = "up" /\ work'[w] \subseteq work[w] \cup {task'[w]})
    BY <1>1, <1>4 DEF Effect
  <2>2. \A t \in work[w] : t \in Task
    BY DEF TypeOK
  <2>3. work[w] = {}
    BY <1>2, <2>1, <2>2, NoTaskAssumption
  <2>4. \A m \in R[w] : m.id # NoTask
    BY MessageFields, NoTaskAssumption
  <2>5. \A m \in R[w] : ~m.stale => C[w] = "exited"
    BY <1>2, <2>1, <2>4
  <2>. QED  BY <1>2, <2>1, <2>3, <2>5
<1>. QED  BY <1>3, <1>4

\* What a child works on or answers is the task its worker records.
LEMMA AnswersStep == TypeOK /\ Lifecycle /\ Answers /\ [Next]_vars => Answers'
<1> SUFFICES ASSUME TypeOK, Lifecycle, Answers, [Next]_vars PROVE Answers'
  OBVIOUS
<1>1. ASSUME NEW t \in Task, BuildFileMode(t) PROVE Answers'
  <2> DEFINE C == Spawned(SignatureOf[t])
  <2>1. \A w \in Worker : \/ C[w] = child[w]
                          \/ child[w] = "absent" /\ C[w] = "up"
    BY DEF Lifecycle, Spawned
  <2>2. AnswersIn(task, work, reply, C, artifact)
    BY <2>1 DEF Answers, AnswersIn
  <2>3. task \in [Worker -> Task \cup {NoTask}] /\ reply \in [Worker -> SUBSET Message]
    BY DEF TypeOK
  <2>4. AnswersIn(task', work', reply, C, artifact)
    BY <1>1, <2>2, <2>3, PumpArguments, PumpKeepsAnswers DEF BuildFileMode
  <2>. QED  BY <1>1, <2>4 DEF BuildFileMode, Answers
<1>2. ASSUME NEW t \in Task, BuildFileModeClosed(t) PROVE Answers'
  BY <1>2 DEF BuildFileModeClosed, Answers, AnswersIn
<1>3. ASSUME NEW w \in Worker, NEW m \in reply[w], OnMessage(w, m) PROVE Answers'
  <2> DEFINE T == [task EXCEPT ![w] = NoTask]
  <2>1. ~m.stale /\ work[w] = {} /\ \A o \in reply[w] \ {m} : o.stale
    BY <1>3, MessageFields DEF OnMessage, Expected, Answers, AnswersIn, TypeOK
  <2>2. /\ reply'[w] = reply[w] \ {m} /\ T[w] = NoTask
        /\ \A v \in Worker \ {w} : reply'[v] = reply[v] /\ T[v] = task[v]
    BY <1>3 DEF OnMessage, TypeOK
  <2>3. AnswersIn(T, work, reply', child, artifact)
    BY <2>1, <2>2 DEF Answers, AnswersIn
  <2>4. reply' \in [Worker -> SUBSET Message]
    BY <1>3 DEF OnMessage, TypeOK
  <2>5. AnswersIn(task', work', reply', child, artifact)
    BY <1>3, <2>3, <2>4, PumpArguments, PumpKeepsAnswers DEF OnMessage
  <2>. QED  BY <1>3, <2>5 DEF OnMessage, Answers
<1>4. ASSUME NEW w \in Worker, NEW m \in reply[w], OnMessageIgnored(w, m) PROVE Answers'
  <2>1. \A v \in Worker : reply'[v] \subseteq reply[v]
    BY <1>4 DEF OnMessageIgnored, TypeOK
  <2>. QED  BY <1>4, <2>1 DEF OnMessageIgnored, Answers, AnswersIn
<1>5. ASSUME NEW w \in Worker, OnExit(w) PROVE Answers'
  <2> DEFINE T == [task EXCEPT ![w] = NoTask]
             C == [child EXCEPT ![w] = "up"]
  <2>1. work[w] = {} /\ C[w] = "up" /\ \A o \in reply'[w] : o.stale
    <3>1. reply'[w] = {[m EXCEPT !.stale = TRUE] : m \in reply[w]}
      BY <1>5 DEF OnExit, TypeOK
    <3>2. \A m \in reply[w] : [m EXCEPT !.stale = TRUE].stale
      BY DEF TypeOK, Message
    <3>3. \A o \in reply'[w] : o.stale
      BY <3>1, <3>2
    <3>4. work[w] = {} /\ C[w] = "up"
      BY <1>5 DEF OnExit, Answers, AnswersIn, TypeOK
    <3>. QED  BY <3>3, <3>4
  <2>2. \A v \in Worker \ {w} : reply'[v] = reply[v] /\ T[v] = task[v] /\ C[v] = child[v]
    BY <1>5 DEF OnExit, TypeOK
  <2>3. AnswersIn(T, work, reply', C, artifact)
    BY <2>1, <2>2 DEF Answers, AnswersIn
  <2>4. reply' \in [Worker -> SUBSET Message]
    <3>1. {[m EXCEPT !.stale = TRUE] : m \in reply[w]} \in SUBSET Message
      BY MessageFields DEF TypeOK
    <3>. QED  BY <1>5, <3>1 DEF OnExit, TypeOK
  <2>5. AnswersIn(task', work', reply', C, artifact)
    BY <1>5, <2>3, <2>4, PumpArguments, PumpKeepsAnswers DEF OnExit
  <2>. QED  BY <1>5, <2>5 DEF OnExit, Answers
<1>6. ASSUME NEW w \in Worker, OnExitClosed(w) PROVE Answers'
  BY <1>6 DEF OnExitClosed, Answers, AnswersIn, TypeOK
<1>7. ASSUME NEW w \in Worker, NEW t \in work[w], BuildDone(w, t) \/ BuildError(w, t)
      PROVE  Answers'
  <2>1. task[w] = t /\ work'[w] = {} /\ \A m \in reply[w] : m.stale
    BY <1>7 DEF BuildDone, BuildError, Answers, AnswersIn, TypeOK
  <2>2. PICK answer \in {[id |-> t, type |-> "done", stale |-> FALSE],
                         [id |-> t, type |-> "error", stale |-> FALSE]} :
          /\ reply'[w] = reply[w] \cup {answer}
          /\ answer.type = "done" => t \in artifact'
    BY <1>7 DEF BuildDone, BuildError, TypeOK
  <2>3. /\ task' = task /\ child' = child /\ artifact \subseteq artifact'
        /\ \A v \in Worker \ {w} : reply'[v] = reply[v] /\ work'[v] = work[v]
    BY <1>7 DEF BuildDone, BuildError, TypeOK
  <2>4. /\ answer.id = t
        /\ \A m \in reply'[w] : ~m.stale => m = answer
    BY <2>1, <2>2
  <2> SUFFICES ASSUME NEW v \in Worker
               PROVE  /\ \A u \in work'[v] : u = task'[v] /\ \A m \in reply'[v] : m.stale
                      /\ child'[v] # "up" => work'[v] = {}
                      /\ \A m \in reply'[v] : ~m.stale =>
                           /\ child'[v] = "exited" \/ task'[v] = m.id
                           /\ m.type = "done" => m.id \in artifact'
                      /\ \A m, o \in reply'[v] : ~m.stale /\ ~o.stale => m = o
    BY DEF Answers, AnswersIn
  <2>5. CASE v = w
    BY <2>1, <2>2, <2>3, <2>4, <2>5
  <2>6. CASE v # w
    BY <2>3, <2>6 DEF Answers, AnswersIn
  <2>. QED  BY <2>5, <2>6
<1>8. ASSUME NEW w \in Worker, Die(w) PROVE Answers'
  <2>1. /\ \A v \in Worker : reply'[v] \subseteq reply[v]
        /\ work'[w] = {} /\ child[w] = "up" /\ child'[w] = "dead"
        /\ \A v \in Worker \ {w} : child'[v] = child[v] /\ work'[v] = work[v]
    BY <1>8 DEF Die, TypeOK
  <2>. QED  BY <1>8, <2>1 DEF Die, Answers, AnswersIn
<1>9. CASE Close
  BY <1>9 DEF Close, Answers, AnswersIn
<1>10. CASE UNCHANGED vars
  BY <1>10 DEF vars, Answers, AnswersIn
<1>. QED
  BY <1>1, <1>2, <1>3, <1>4, <1>5, <1>6, <1>7, <1>8, <1>9, <1>10
     DEF Next, Receive, Exit, Answer

-------------------------------------------------------------------------------
(* Work conservation *)

\* After pump no worker is idle, or the queue is empty.
LEMMA PumpConserves ==
  ASSUME TypeOK, TypeOK', WorkConserving,
         NEW s \in Signature, NEW q \in Seq(Task), NEW T, NEW C,
         \A w \in Worker : w[1] # s => T[w] = task[w],
         Effect(s, q, T, C)
  PROVE  WorkConserving'
<1> SUFFICES ASSUME NEW r \in Signature, queue'[r] # <<>>, NEW i \in Slot
             PROVE  task'[<<r, i>>] # NoTask
  BY DEF WorkConserving
<1>1. <<r, i>> \in Worker
  BY DEF Worker
<1>2. CASE r # s
  <2>1. queue'[r] = queue[r] /\ task'[<<r, i>>] = task[<<r, i>>]
    BY <1>1, <1>2 DEF Effect
  <2>. QED  BY <2>1 DEF WorkConserving
<1>3. CASE r = s
  <2>1. PICK n \in 0..Len(q) :
          /\ Len(queue'[s]) = Len(q) - n
          /\ n = Len(q) \/ \A k \in Slot : task'[<<s, k>>] # NoTask
    BY DEF Effect
  <2>2. Len(queue'[s]) # 0
    BY <1>3, EmptySeq DEF TypeOK
  <2>3. Len(q) \in Nat
    BY LenProperties
  <2>. QED  BY <1>3, <2>1, <2>2, <2>3
<1>. QED  BY <1>2, <1>3

\* Every handler that frees a worker or adds a task pumps.
LEMMA WorkConservingStep ==
  TypeOK /\ TypeOK' /\ Lifecycle /\ WorkConserving /\ [Next]_vars => WorkConserving'
<1> SUFFICES ASSUME TypeOK, TypeOK', Lifecycle, WorkConserving, [Next]_vars
             PROVE  WorkConserving'
  OBVIOUS
<1>0. \A w \in Worker, v \in Worker : v[1] # w[1] => [task EXCEPT ![w] = NoTask][v] = task[v]
  BY DEF TypeOK
<1>1. ASSUME NEW t \in Task, BuildFileMode(t) PROVE WorkConserving'
  <2> DEFINE s == SignatureOf[t]
  <2>1. s \in Signature /\ Append(queue[s], t) \in Seq(Task)
    BY PumpArguments
  <2>2. Effect(s, Append(queue[s], t), task, Spawned(s))
    BY <1>1, <2>1, PumpEffect DEF BuildFileMode, TypeOK
  <2>. QED  BY <2>1, <2>2, PumpConserves
<1>2. ASSUME NEW w \in Worker, NEW m \in reply[w], OnMessage(w, m) PROVE WorkConserving'
  <2>1. Effect(w[1], queue[w[1]], [task EXCEPT ![w] = NoTask], child)
    BY <1>2, PumpArguments, PumpEffect DEF OnMessage
  <2>. QED  BY <1>0, <2>1, PumpArguments, PumpConserves
<1>3. ASSUME NEW w \in Worker, OnExit(w) PROVE WorkConserving'
  <2>1. Effect(w[1], queue[w[1]], [task EXCEPT ![w] = NoTask], [child EXCEPT ![w] = "up"])
    BY <1>3, PumpArguments, PumpEffect DEF OnExit
  <2>. QED  BY <1>0, <2>1, PumpArguments, PumpConserves
<1>4. ASSUME NEW w \in Worker, OnExitClosed(w) PROVE WorkConserving'
  BY <1>4 DEF OnExitClosed, Lifecycle, WorkConserving
<1>5. CASE Close
  BY <1>5 DEF Close, WorkConserving
<1>6. ASSUME UNCHANGED <<queue, task>> PROVE WorkConserving'
  BY <1>6 DEF WorkConserving
<1>. QED
  BY <1>1, <1>2, <1>3, <1>4, <1>5, <1>6
     DEF Next, Receive, Exit, Answer, BuildFileModeClosed, OnMessageIgnored,
         BuildDone, BuildError, Die, vars

-------------------------------------------------------------------------------
(* Truthful settlement *)

\* A worker holds only tasks whose callers still wait.
LEMMA HeldTasksArePending ==
  ASSUME OnePlace
  PROVE  /\ \A w \in Worker : task[w] \in Task => promise[task[w]] = "pending"
         /\ \A s \in Signature : \A t \in Task : t \in Queued(s) => promise[t] = "pending"
  BY DEF OnePlace, Assigned, Queued

\* A promise is fulfilled only by the answer of its own, completed build.
LEMMA NoFalseSuccessStep ==
  TypeOK /\ OnePlace /\ Answers /\ NoFalseSuccess /\ [Next]_vars => NoFalseSuccess'
<1> SUFFICES ASSUME TypeOK, OnePlace, Answers, NoFalseSuccess, [Next]_vars
             PROVE  NoFalseSuccess'
  OBVIOUS
<1>1. ASSUME NEW t \in Task, BuildFileMode(t) \/ BuildFileModeClosed(t)
      PROVE  NoFalseSuccess'
  BY <1>1 DEF BuildFileMode, BuildFileModeClosed, NoFalseSuccess, TypeOK
<1>2. ASSUME NEW w \in Worker, NEW m \in reply[w], OnMessage(w, m)
      PROVE  NoFalseSuccess'
  <2>1. task[w] = m.id /\ ~m.stale /\ m.id \in Task /\ m.id # NoTask
    BY <1>2, MessageFields, NoTaskAssumption DEF OnMessage, Expected, TypeOK
  <2>2. promise[task[w]] = "pending"
    BY <2>1, HeldTasksArePending
  <2>3. CASE m.type = "done"
    <3>1. task[w] \in artifact
      BY <2>1, <2>3 DEF Answers, AnswersIn
    <3>. QED  BY <1>2, <2>1, <2>3, <3>1 DEF OnMessage, NoFalseSuccess, TypeOK
  <2>4. CASE m.type # "done"
    BY <1>2, <2>1, <2>2, <2>4 DEF OnMessage, NoFalseSuccess, TypeOK
  <2>. QED  BY <2>3, <2>4
<1>3. ASSUME NEW w \in Worker, OnExit(w) \/ OnExitClosed(w) PROVE NoFalseSuccess'
  <2>1. \A t \in Task : promise'[t] = "resolved" <=> promise[t] = "resolved"
    BY <1>3, HeldTasksArePending DEF OnExit, OnExitClosed, RejectTaskOf
  <2>. QED  BY <1>3, <2>1 DEF OnExit, OnExitClosed, NoFalseSuccess
<1>4. ASSUME NEW w \in Worker, NEW t \in work[w], BuildDone(w, t) \/ BuildError(w, t)
      PROVE  NoFalseSuccess'
  BY <1>4 DEF BuildDone, BuildError, NoFalseSuccess
<1>5. CASE Close
  <2>1. \A t \in Task : promise'[t] = "resolved" <=> promise[t] = "resolved"
    BY <1>5, HeldTasksArePending DEF Close, TypeOK
  <2>. QED  BY <1>5, <2>1 DEF Close, NoFalseSuccess
<1>6. ASSUME UNCHANGED <<promise, reads, artifact>> PROVE NoFalseSuccess'
  BY <1>6 DEF NoFalseSuccess
<1>. QED
  BY <1>1, <1>2, <1>3, <1>4, <1>5, <1>6
     DEF Next, Receive, Exit, Answer, OnMessageIgnored, Die, vars

-------------------------------------------------------------------------------
(* The theorems *)

\* The inductive invariant.
Inv ==
  /\ TypeOK
  /\ Lifecycle
  /\ OnePlace
  /\ Answers
  /\ WorkConserving
  /\ NoFalseSuccess

\* The invariant holds of a new pool.
LEMMA InitInv == Init => Inv
<1> SUFFICES ASSUME Init PROVE Inv
  OBVIOUS
<1>1. TypeOK
  <2>1. <<>> \in Seq(Task)
    BY EmptySeq
  <2>. QED  BY <2>1 DEF Init, TypeOK
<1>2. Lifecycle
  BY DEF Init, Lifecycle
<1>3. OnePlace
  <2>1. \A s \in Signature : Len(queue[s]) = 0 /\ 1..Len(queue[s]) = {}
    BY EmptySeq DEF Init
  <2>2. \A t \in Task : promise[t] = "idle" /\ ~Assigned(t)
    BY NoTaskAssumption DEF Init, Assigned
  <2>3. \A t \in Task : t \notin Queued(SignatureOf[t])
    BY <2>1, SignatureAssumption DEF Queued
  <2>4. \A w \in Worker : task[w] = NoTask
    BY DEF Init
  <2>. QED  BY <2>1, <2>2, <2>3, <2>4 DEF OnePlace
<1>4. Answers
  BY DEF Init, Answers, AnswersIn
<1>5. WorkConserving /\ NoFalseSuccess
  BY DEF Init, WorkConserving, NoFalseSuccess
<1>. QED
  BY <1>1, <1>2, <1>3, <1>4, <1>5 DEF Inv

\* Every step keeps the invariant.
LEMMA InvStep == Inv /\ [Next]_vars => Inv'
  BY TypeStep, LifecycleStep, OnePlaceStep, AnswersStep, WorkConservingStep,
     NoFalseSuccessStep DEF Inv

\* Together they hold in every reachable state of the pool.
THEOREM Invariance == Spec => []Inv
  BY InitInv, InvStep, PTL DEF Spec

\* The variables keep their types.
THEOREM TypeCorrect == Spec => []TypeOK
<1>1. Inv => TypeOK
  BY DEF Inv
<1>. QED  BY <1>1, Invariance, PTL

\* An unsettled buildFileMode call is in the queue of its signature or with one
\* worker of it, never in both or in two, whatever the number of either.
THEOREM OnePlaceHolds == Spec => []OnePlace
<1>1. Inv => OnePlace
  BY DEF Inv
<1>. QED  BY <1>1, Invariance, PTL

\* No handler leaves an idle worker beside a waiting task of its signature.
THEOREM WorkConservingHolds == Spec => []WorkConserving
<1>1. Inv => WorkConserving
  BY DEF Inv
<1>. QED  BY <1>1, Invariance, PTL

\* A child runs one build at a time, the one its worker object records.
THEOREM OneBuildPerChildHolds == Spec => []OneBuildPerChild
<1>1. Inv => OneBuildPerChild
  BY DEF Inv, Answers, AnswersIn, OneBuildPerChild
<1>. QED  BY <1>1, Invariance, PTL

\* A fulfilled promise means a finished build whose reads were handed over.
THEOREM NoFalseSuccessHolds == Spec => []NoFalseSuccess
<1>1. Inv => NoFalseSuccess
  BY DEF Inv
<1>. QED  BY <1>1, Invariance, PTL

\* After close() has resolved, every call has been settled.
THEOREM CloseSettlesHolds == Spec => []CloseSettles
<1>1. Inv => CloseSettles
  <2> SUFFICES ASSUME Inv, closed, NEW t \in Task, promise[t] = "pending",
                      \A s \in pools, i \in Slot : child[<<s, i>>] = "exited"
               PROVE  FALSE
    BY DEF CloseSettles
  <2>1. t \notin Queued(SignatureOf[t])
    <3>1. queue[SignatureOf[t]] = <<>>
      BY SignatureAssumption DEF Inv, Lifecycle
    <3>. QED  BY <3>1, EmptySeq DEF Queued
  <2>2. PICK w \in Worker : task[w] = t
    BY <2>1 DEF Inv, OnePlace, Assigned
  <2>3. w[1] \in pools /\ w = <<w[1], w[2]>> /\ w[2] \in Slot
    BY <2>2, NoTaskAssumption DEF Inv, Lifecycle, Worker
  <2>4. child[w] = "exited"
    BY <2>3
  <2>. QED  BY <2>2, <2>4, NoTaskAssumption DEF Inv, Lifecycle
<1>. QED  BY <1>1, Invariance, PTL

-------------------------------------------------------------------------------
(* Order *)

\* pump takes from the front of the queue.
LEMMA PumpKeepsOrder ==
  ASSUME TypeOK,
         NEW s \in Signature, NEW q \in Seq(Task), NEW T, NEW C,
         Len(queue[s]) <= Len(q),
         \A i \in 1..Len(queue[s]) : q[i] = queue[s][i],
         \A i, j \in 1..Len(q) : q[i] = q[j] => i = j,
         Effect(s, q, T, C),
         NEW r \in Signature, NEW i \in 1..Len(queue[r]), NEW j \in 1..Len(queue[r]),
         i < j, queue[r][i] \in Elements(queue'[r])
  PROVE  queue[r][j] \in Elements(queue'[r])
<1>1. CASE r # s
  <2>1. queue'[r] = queue[r]
    BY <1>1 DEF Effect
  <2>. QED  BY <2>1 DEF Elements
<1>2. CASE r = s
  <2>1. PICK n \in 0..Len(q) :
          /\ Len(queue'[s]) = Len(q) - n
          /\ \A k \in 1..Len(q) - n : queue'[s][k] = q[n + k]
    BY DEF Effect
  <2>2. Len(q) \in Nat /\ Len(queue[s]) \in Nat
    BY LenProperties DEF TypeOK
  <2>3. /\ i \in 1..Len(q) /\ j \in 1..Len(q) /\ i \in Int /\ j \in Int /\ n \in Int
        /\ queue[s][i] = q[i] /\ queue[s][j] = q[j]
    BY <1>2, <2>2
  <2>4. PICK k \in 1..Len(q) - n : q[i] = q[n + k]
    BY <1>2, <2>1, <2>3 DEF Elements
  <2>5. n + k \in 1..Len(q) /\ k \in Int /\ 1 <= k
    BY <2>2, <2>3
  <2>6. i = n + k
    BY <2>3, <2>4, <2>5
  <2>7. j - n \in 1..Len(q) - n /\ n + (j - n) = j
    BY <2>2, <2>3, <2>5, <2>6
  <2>8. queue'[s][j - n] = q[j]
    BY <2>1, <2>7
  <2>. QED  BY <1>2, <2>1, <2>3, <2>7, <2>8, SMTT(30) DEF Elements
<1>. QED  BY <1>1, <1>2

\* Within a signature, builds start in the order of the calls.
THEOREM NoOvertakingHolds == Spec => NoOvertaking
<1> DEFINE Ordered == \A s \in Signature : \A i, j \in 1..Len(queue[s]) :
                        (i < j /\ queue[s][i] \in Queued(s)') => queue[s][j] \in Queued(s)'
<1>1. Inv /\ [Next]_vars => [Ordered]_vars
  <2> SUFFICES ASSUME Inv, [Next]_vars,
                      NEW r \in Signature, NEW i \in 1..Len(queue[r]),
                      NEW j \in 1..Len(queue[r]),
                      i < j, queue[r][i] \in Elements(queue'[r])
               PROVE  queue[r][j] \in Elements(queue'[r])
    BY DEF Queued, Elements
  <2>0. TypeOK /\ PlacedIn(promise, queue, task)
    BY OnePlaceIsPlacedIn DEF Inv
  <2>1. \A s \in Signature : /\ \A k, l \in 1..Len(queue[s]) : queue[s][k] = queue[s][l] => k = l
                             /\ Len(queue[s]) \in Nat
    BY <2>0, LenProperties DEF PlacedIn, TypeOK
  <2>2. ASSUME NEW t \in Task, BuildFileMode(t)
        PROVE  queue[r][j] \in Elements(queue'[r])
    <3> DEFINE s == SignatureOf[t]
               q == Append(queue[s], t)
               Q == [queue EXCEPT ![s] = q]
    <3>1. s \in Signature /\ q \in Seq(Task) /\ queue[s] \in Seq(Task) /\ Q[s] = q
      BY <2>0, PumpArguments DEF TypeOK
    <3>2. Effect(s, q, task, Spawned(s))
      BY <2>0, <2>2, <3>1, PumpEffect DEF BuildFileMode, TypeOK
    <3>3. Len(q) = Len(queue[s]) + 1 /\ \A k \in 1..Len(queue[s]) : q[k] = queue[s][k]
      BY <3>1, AppendProperties
    <3>4. \A k, l \in 1..Len(q) : q[k] = q[l] => k = l
      <4>1. PlacedIn([promise EXCEPT ![t] = "pending"], Q, task)
        BY <2>2, EnqueueKeepsPlaces DEF BuildFileMode, Inv
      <4> HIDE DEF Q
      <4>2. \A k, l \in 1..Len(Q[s]) : Q[s][k] = Q[s][l] => k = l
        BY <3>1, <4>1, NoTaskTwice
      <4>. QED  BY <3>1, <4>2
    <3>5. Len(queue[s]) <= Len(q)
      BY <2>1, <3>1, <3>3
    <3>. QED  BY <2>0, <3>1, <3>2, <3>3, <3>4, <3>5, PumpKeepsOrder
  <2>3. ASSUME NEW w \in Worker, NEW T, NEW C, Effect(w[1], queue[w[1]], T, C)
        PROVE  queue[r][j] \in Elements(queue'[r])
    <3>1. /\ w[1] \in Signature /\ queue[w[1]] \in Seq(Task)
          /\ Len(queue[w[1]]) <= Len(queue[w[1]])
      BY <2>0, <2>1, PumpArguments
    <3>. QED  BY <2>0, <2>1, <2>3, <3>1, PumpKeepsOrder
  <2>4. ASSUME NEW w \in Worker, NEW m \in reply[w], OnMessage(w, m)
        PROVE  queue[r][j] \in Elements(queue'[r])
    <3>1. Effect(w[1], queue[w[1]], [task EXCEPT ![w] = NoTask], child)
      BY <2>0, <2>4, PumpArguments, PumpEffect DEF OnMessage
    <3>. QED  BY <2>3, <3>1
  <2>5. ASSUME NEW w \in Worker, OnExit(w)
        PROVE  queue[r][j] \in Elements(queue'[r])
    <3>1. Effect(w[1], queue[w[1]], [task EXCEPT ![w] = NoTask], [child EXCEPT ![w] = "up"])
      BY <2>0, <2>5, PumpArguments, PumpEffect DEF OnExit
    <3>. QED  BY <2>3, <3>1
  <2>6. CASE Close
    <3>1. Len(queue'[r]) = 0
      BY <2>6, EmptySeq DEF Close
    <3>. QED  BY <3>1 DEF Elements
  <2>7. ASSUME UNCHANGED queue
        PROVE  queue[r][j] \in Elements(queue'[r])
    BY <2>7 DEF Elements
  <2>. QED
    BY <2>2, <2>4, <2>5, <2>6, <2>7
       DEF Next, Receive, Exit, Answer, BuildFileModeClosed, OnMessageIgnored,
           OnExitClosed, BuildDone, BuildError, Die, vars
<1>. QED
  BY <1>1, Invariance, PTL DEF Spec, NoOvertaking

-------------------------------------------------------------------------------
(* The pool is a build service *)

\* The safety part of ImplementsService: every step of the pool is one of the
\* service (one promise settled, of a waiting task, truthfully) or none.  The
\* step of an idle worker's exit needs WorkConserving: nothing is queued then,
\* so pump sends nothing that could bring the CLI down.
THEOREM ImplementsServiceSafely ==
  Spec => Service!Init /\ [][Service!Next]_(Service!vars)
<1>1. Init => Service!Init
  BY DEF Init, Service!Init
<1>2. Inv /\ [Next]_vars => [Service!Next]_(Service!vars)
  <2> SUFFICES ASSUME Inv, [Next]_vars
               PROVE  Service!Next \/ UNCHANGED <<promise, artifact, closed, hostUp>>
    BY DEF Service!vars
  <2> USE DEF Inv
  <2>0. \A t \in Task : t \in Service!Waiting <=> promise[t] = "pending"
    BY DEF Service!Waiting
  <2>1. ASSUME NEW t \in Task, BuildFileMode(t) PROVE Service!Next
    <3>1. hostUp' \in BOOLEAN
      BY TypeStep DEF TypeOK
    <3>2. Service!Request(t)
      BY <2>1, <3>1 DEF BuildFileMode, Service!Request
    <3>. QED  BY <3>2 DEF Service!Next
  <2>2. ASSUME NEW t \in Task, BuildFileModeClosed(t) PROVE Service!Next
    <3>1. Service!Request(t)
      BY <2>2 DEF BuildFileModeClosed, Service!Request, TypeOK
    <3>. QED  BY <3>1 DEF Service!Next
  <2>3. ASSUME NEW w \in Worker, NEW m \in reply[w], OnMessage(w, m) PROVE Service!Next
    <3>1. task[w] = m.id /\ ~m.stale /\ m.id \in Task /\ m.id # NoTask
      BY <2>3, MessageFields, NoTaskAssumption DEF OnMessage, Expected, TypeOK
    <3>2. task[w] \in Service!Waiting
      BY <2>0, <3>1, HeldTasksArePending
    <3>3. m.type = "done" => task[w] \in artifact
      BY <3>1 DEF Answers, AnswersIn
    <3>4. hostUp' \in BOOLEAN
      BY TypeStep DEF TypeOK
    <3>5. Service!Settle(task[w])
      BY <2>3, <3>2, <3>3, <3>4 DEF OnMessage, Service!Settle
    <3>. QED  BY <3>1, <3>5 DEF Service!Next
  <2>4. ASSUME NEW w \in Worker, OnExit(w)
        PROVE  Service!Next \/ UNCHANGED <<promise, artifact, closed, hostUp>>
    <3>1. CASE task[w] = NoTask
      <4>1. promise' = promise
        BY <2>4, <3>1, NoTaskAssumption DEF OnExit, RejectTaskOf, TypeOK
      <4>2. /\ w[1] \in Signature /\ w = <<w[1], w[2]>> /\ w[2] \in Slot
            /\ queue[w[1]] = <<>> /\ Len(queue[w[1]]) = 0
        BY <3>1, EmptySeq DEF Worker, WorkConserving
      <4>3. Effect(w[1], queue[w[1]], [task EXCEPT ![w] = NoTask],
                   [child EXCEPT ![w] = "up"])
        BY <2>4, PumpArguments, PumpEffect DEF OnExit
      <4>4. PICK n \in 0..Len(queue[w[1]]) :
              \A v \in Worker : task'[v] # [task EXCEPT ![w] = NoTask][v] =>
                \E p \in 1..n : task'[v] = queue[w[1]][p]
        BY <4>3 DEF Effect
      <4>5. n = 0 /\ 1..n = {}
        BY <4>2
      <4>6. hostUp'
        BY <4>3, <4>4, <4>5 DEF Effect
      <4>7. hostUp' = hostUp
        BY <2>4, <4>6, TypeStep DEF OnExit, TypeOK
      <4>. QED  BY <2>4, <4>1, <4>7 DEF OnExit
    <3>2. CASE task[w] \in Task
      <4>1. task[w] \in Service!Waiting
        BY <2>0, <3>2, HeldTasksArePending
      <4>2. promise' = [promise EXCEPT ![task[w]] = "rejected"]
        BY <2>4, <3>2 DEF OnExit, RejectTaskOf, TypeOK
      <4>3. hostUp' \in BOOLEAN
        BY TypeStep DEF TypeOK
      <4>4. Service!Settle(task[w])
        BY <2>4, <4>1, <4>2, <4>3 DEF OnExit, Service!Settle
      <4>. QED  BY <3>2, <4>4 DEF Service!Next
    <3>. QED  BY <3>1, <3>2 DEF TypeOK
  <2>5. ASSUME NEW w \in Worker, OnExitClosed(w)
        PROVE  Service!Next \/ UNCHANGED <<promise, artifact, closed, hostUp>>
    <3>1. CASE task[w] = NoTask
      <4>1. promise' = promise
        BY <2>5, <3>1, NoTaskAssumption DEF OnExitClosed, RejectTaskOf, TypeOK
      <4>. QED  BY <2>5, <4>1 DEF OnExitClosed
    <3>2. CASE task[w] \in Task
      <4>1. task[w] \in Service!Waiting
        BY <2>0, <3>2, HeldTasksArePending
      <4>2. promise' = [promise EXCEPT ![task[w]] = "rejected"]
        BY <2>5, <3>2 DEF OnExitClosed, RejectTaskOf, TypeOK
      <4>3. Service!Settle(task[w])
        BY <2>5, <4>1, <4>2 DEF OnExitClosed, Service!Settle, TypeOK
      <4>. QED  BY <3>2, <4>3 DEF Service!Next
    <3>. QED  BY <3>1, <3>2 DEF TypeOK
  <2>6. ASSUME NEW w \in Worker, NEW t \in work[w], BuildDone(w, t)
        PROVE  Service!Next \/ UNCHANGED <<promise, artifact, closed, hostUp>>
    <3>1. t = task[w] /\ t \in Task
      BY DEF Answers, AnswersIn, TypeOK
    <3>2. CASE t \in artifact
      BY <2>6, <3>2 DEF BuildDone
    <3>3. CASE t \notin artifact
      <4>1. Service!Produce(t)
        BY <2>0, <2>6, <3>1, <3>3, HeldTasksArePending DEF BuildDone, Service!Produce
      <4>. QED  BY <3>1, <4>1 DEF Service!Next
    <3>. QED  BY <3>2, <3>3
  <2>7. CASE Close
    <3> DEFINE refused == {t \in Task : \E s \in pools : t \in Queued(s)}
    <3>1. refused \in SUBSET Service!Waiting
      BY <2>0, HeldTasksArePending DEF TypeOK
    <3>2. promise' = [t \in Task |-> IF t \in refused THEN "rejected" ELSE promise[t]]
      BY <2>7 DEF Close
    <3>3. Service!Shut(refused)
      BY <2>7, <3>2 DEF Close, Service!Shut
    <3>. QED  BY <3>1, <3>3 DEF Service!Next
  <2>. QED
    BY <2>1, <2>2, <2>3, <2>4, <2>5, <2>6, <2>7
       DEF Next, Receive, Exit, Answer, OnMessageIgnored, BuildError, Die, vars
<1>. QED
  BY <1>1, <1>2, Invariance, PTL DEF Spec
===============================================================================
