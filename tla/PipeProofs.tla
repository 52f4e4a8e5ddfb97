------------------------------- MODULE PipeProofs -------------------------------
(***************************************************************************)
(* Pipes that are shared by any number of readers and writers: each byte   *)
(* and each free place of a buffer has one token, the mutex is free        *)
(* whenever no call is half done, and the buffer is a first-in first-out   *)
(* queue, for every number and size of pipes, every set of processes and   *)
(* every number of semaphores, the pipes for which they do not suffice     *)
(* included.                                                               *)
(***************************************************************************)
EXTENDS PipeManager, KernelProofs

Of(s, m, P, n, C, D) ==
    [k |-> s, sems |-> m, pipes |-> P, next_sem_id |-> n, call |-> C, delivered |-> D]

-----------------------------------------------------------------------------
(***************************************************************************)
(* The inductive invariant.  A process that sem_wait let through has its   *)
(* token until it runs; the semaphore it is at follows from its call.      *)
(***************************************************************************)
Homes(P, C) ==
    [c \in Ctx |-> IF C[c].at = "readMutex" THEN P[C[c].slot].semReaders
                   ELSE IF C[c].at = "writeMutex" THEN P[C[c].slot].semWriters ELSE -1]

\* createPipe numbers the semaphores of a pipe in a row, below next_sem_id.
PipeInOrder(p, n) ==
    /\ p.semReaders >= FIRST_SEM /\ p.semReaders + 3 <= n
    /\ p.semWriters = p.semReaders + 1
    /\ p.mutex = p.semReaders + 2
    /\ p.writers = 1
    /\ p.writeIdx = (p.readIdx + p.count) % PIPE_BUFFER_SIZE

Table(P, n) ==
    /\ P \in [Slots -> Pipe]
    /\ n \in Nat /\ n >= FIRST_SEM
    /\ \A i \in Slots : P[i].isOpen => PipeInOrder(P[i], n)
    /\ \A i, j \in Slots : P[i].isOpen /\ P[j].isOpen /\ i # j =>
        \/ P[i].semReaders + 3 <= P[j].semReaders
        \/ P[j].semReaders + 3 <= P[i].semReaders

Unused(m, n) == \A id \in SemIds : id >= n => ~ m[id].active

Balanced(s, m, P, home) ==
    \A i \in Slots : Made(P[i]) =>
        /\ m[P[i].mutex].counter = 1 /\ m[P[i].mutex].waitQueue = << >>
        /\ P[i].count = Supply(s, m, home, P[i].semReaders)
        /\ PIPE_BUFFER_SIZE - P[i].count = Supply(s, m, home, P[i].semWriters)

\* Nobody is blocked with the mutex, none in a pipe that is not open.
CallsInOrder(s, P, C) ==
    /\ C \in [Ctx -> Call]
    /\ \A c \in Ctx :
        /\ C[c].at \in {"user", "readMutex", "readAgain", "writeMutex"}
        /\ C[c].at # "user" =>
            P[C[c].slot].isOpen /\ s.status[c] # "FREED" /\ s.pid[c] # IDLE_PID
        /\ C[c].at = "writeMutex" => C[c].value \in Bytes
        /\ s.status[c] = "FREED" => C[c] = InProgram

Sharing(s, m, P, n, C) ==
    /\ Orderly(s, m, Homes(P, C))
    /\ Table(P, n)
    /\ Unused(m, n)
    /\ Balanced(s, m, P, Homes(P, C))
    /\ CallsInOrder(s, P, C)

Deliveries == [Slots -> [byte : Bytes \cup {0}, flip : BOOLEAN]]

PipeInv == Sharing(k, sems, pipes, next_sem_id, call) /\ delivered \in Deliveries

\* What one call does to the bytes in the pipes: one step of the channel at most.
Fifo(P, D, Q, E) ==
    \A i \in Slots :
        \/ Contents(Q[i]) = Contents(P[i]) /\ E[i] = D[i]
        \/ Contents(Q[i]) = << >> /\ E[i] = D[i] /\ ~ P[i].isOpen
        \/ /\ Contents(P[i]) # << >>
           /\ E[i] = [byte |-> Head(Contents(P[i])), flip |-> ~ D[i].flip]
           /\ Contents(Q[i]) = Tail(Contents(P[i]))
        \/ /\ Len(Contents(P[i])) < PIPE_BUFFER_SIZE
           /\ \E byte \in Bytes : Contents(Q[i]) = Append(Contents(P[i]), byte)
           /\ E[i] = D[i]

-----------------------------------------------------------------------------
(***************************************************************************)
(* Facts about identifiers.                                                *)
(***************************************************************************)

LEMMA Ids ==
    /\ PIPE_BUFFER_SIZE \in Nat \ {0} /\ MAX_PIPES \in Nat \ {0}
    /\ FIRST_SEM \in Nat /\ NUM_SEMS \in Nat
    /\ \A id \in SemIds : id \in Nat /\ id < NUM_SEMS
    /\ \A id \in Int : id >= FIRST_SEM /\ id < NUM_SEMS => id \in SemIds
    /\ -1 \notin SemIds
<1>1. SemIds \subseteq 0 .. NUM_SEMS - 1 /\ FIRST_SEM .. NUM_SEMS - 1 \subseteq SemIds
      /\ FIRST_SEM \in Nat /\ NUM_SEMS \in Nat
  BY PipesAssumption
<1>2. \A id \in SemIds : id \in Nat /\ id < NUM_SEMS
  BY <1>1
<1>3. \A id \in Int : id >= FIRST_SEM /\ id < NUM_SEMS => id \in SemIds
  BY <1>1
<1>. QED
  BY <1>1, <1>2, <1>3, PipesAssumption

\* The fields of a pipe, in arithmetic.
LEMMA PipeFields ==
    ASSUME NEW P, NEW n, Table(P, n), NEW i \in Slots
    PROVE  /\ P[i] \in Pipe /\ n \in Nat
           /\ P[i].semReaders \in Int /\ P[i].semWriters \in Int /\ P[i].mutex \in Int
           /\ P[i].count \in Int /\ 0 <= P[i].count /\ P[i].count <= PIPE_BUFFER_SIZE
           /\ P[i].readIdx \in 0 .. PIPE_BUFFER_SIZE - 1
           /\ P[i].isOpen \in BOOLEAN
BY Ids DEF Table, Pipe, Index

\* If createPipe made the last of the three semaphores it made the others.
LEMMA MutexIsMade ==
    ASSUME NEW P, NEW n, Table(P, n), NEW i \in Slots, P[i].isOpen, P[i].mutex \in SemIds
    PROVE  Made(P[i])
<1>1. /\ P[i].semReaders \in Int /\ P[i].semReaders >= FIRST_SEM
      /\ P[i].semWriters = P[i].semReaders + 1 /\ P[i].mutex = P[i].semReaders + 2
      /\ P[i].mutex < NUM_SEMS
  BY PipeFields, Ids DEF Table, PipeInOrder
<1>2. P[i].semReaders \in SemIds /\ P[i].semWriters \in SemIds
  BY <1>1, Ids
<1>. QED
  BY <1>2 DEF Made

\* No two pipes share a semaphore.
LEMMA IdsApart ==
    ASSUME NEW P, NEW n, Table(P, n), NEW i \in Slots, NEW j \in Slots,
           P[i].isOpen, P[j].isOpen
    PROVE  /\ P[i].semReaders # P[j].semWriters
           /\ P[i].semReaders # P[j].mutex /\ P[i].semWriters # P[j].mutex
           /\ i # j => P[i].semReaders # P[j].semReaders /\ P[i].semWriters # P[j].semWriters
           /\ P[i].semReaders < n /\ P[i].semWriters < n /\ P[i].mutex < n
<1>1. /\ P[i].semReaders \in Int /\ P[j].semReaders \in Int /\ n \in Int
      /\ P[i].semWriters = P[i].semReaders + 1 /\ P[i].mutex = P[i].semReaders + 2
      /\ P[j].semWriters = P[j].semReaders + 1 /\ P[j].mutex = P[j].semReaders + 2
      /\ P[i].semReaders + 3 <= n
  <2>1. PipeInOrder(P[i], n) /\ PipeInOrder(P[j], n)
    BY DEF Table
  <2>2. P[i].semReaders \in Int /\ P[j].semReaders \in Int /\ n \in Int
    BY PipeFields
  <2>. QED BY <2>1, <2>2 DEF PipeInOrder
<1>2. i # j => \/ P[i].semReaders + 3 <= P[j].semReaders
               \/ P[j].semReaders + 3 <= P[i].semReaders
  BY DEF Table
<1>. QED
  BY <1>1, <1>2

\* Where everybody is.
LEMMA HomesProperty ==
    ASSUME NEW s, NEW P, NEW n, NEW C, Table(P, n), CallsInOrder(s, P, C)
    PROVE  /\ Homes(P, C) \in [Ctx -> Int]
           /\ \A c \in Ctx :
                /\ C[c].slot \in Slots
                /\ Homes(P, C)[c] < n
                /\ C[c].at \in {"user", "readAgain"} => Homes(P, C)[c] = -1
                /\ C[c].at = "readMutex" => Homes(P, C)[c] = P[C[c].slot].semReaders
                /\ C[c].at = "writeMutex" => Homes(P, C)[c] = P[C[c].slot].semWriters
<1>1. \A c \in Ctx : C[c].slot \in Slots
  BY DEF CallsInOrder, Call
<1>2. ASSUME NEW c \in Ctx
      PROVE  /\ Homes(P, C)[c] \in Int /\ Homes(P, C)[c] < n
             /\ C[c].at \in {"user", "readAgain"} => Homes(P, C)[c] = -1
             /\ C[c].at = "readMutex" => Homes(P, C)[c] = P[C[c].slot].semReaders
             /\ C[c].at = "writeMutex" => Homes(P, C)[c] = P[C[c].slot].semWriters
  <2>1. Homes(P, C)[c] =
            IF C[c].at = "readMutex" THEN P[C[c].slot].semReaders
            ELSE IF C[c].at = "writeMutex" THEN P[C[c].slot].semWriters ELSE -1
    BY DEF Homes
  <2>2. n \in Nat
    BY DEF Table
  <2>3. CASE C[c].at \in {"user", "readAgain"}
    BY <2>1, <2>2, <2>3
  <2>4. CASE C[c].at \notin {"user", "readAgain"}
    <3>1. P[C[c].slot].isOpen /\ C[c].at \in {"readMutex", "writeMutex"}
      BY <2>4 DEF CallsInOrder
    <3>. DEFINE i == C[c].slot
    <3>2. i \in Slots
      BY <1>1
    <3>. HIDE DEF i
    <3>3. /\ P[i].isOpen => P[i].semReaders < n /\ P[i].semWriters < n
          /\ P[i].semReaders \in Int /\ P[i].semWriters \in Int
      BY <3>2, IdsApart, PipeFields
    <3>. QED BY <2>1, <3>1, <3>3 DEF i
  <2>. QED BY <2>3, <2>4
<1>3. Homes(P, C) = [c \in Ctx |-> Homes(P, C)[c]]
  BY DEF Homes
<1>. QED
  BY <1>1, <1>2, <1>3

-----------------------------------------------------------------------------
(***************************************************************************)
(* The semaphore operations, as the pipes call them.                       *)
(***************************************************************************)

\* sem_wait and sem_post change scheduler and semaphores only.
LEMMA WaitOnPipes ==
    ASSUME NEW s, NEW m, NEW id
    PROVE  \E t, w : /\ SemWait(Sys(s, m), id) = Sys(t, w)
                     /\ \A P, n, C, D : SemWait(Of(s, m, P, n, C, D), id) = Of(t, w, P, n, C, D)
<1>1. CASE m[id].counter > 0
  <2>. DEFINE w == [m EXCEPT ![id].counter = @ - 1]
  <2>1. SemWait(Sys(s, m), id) = Sys(s, w)
    BY <1>1 DEF SemWait, Sys
  <2>2. ASSUME NEW P, NEW n, NEW C, NEW D
        PROVE  SemWait(Of(s, m, P, n, C, D), id) = Of(s, w, P, n, C, D)
    BY <1>1 DEF SemWait, Of
  <2>. QED BY <2>1, <2>2
<1>2. CASE ~ (m[id].counter > 0)
  <2>. DEFINE w == [m EXCEPT ![id] = Enqueue(@, s.currentPid)]
              t == BlockProcess(s, s.currentPid)
  <2>1. SemWait(Sys(s, m), id) = Sys(t, w)
    BY <1>2 DEF SemWait, Sys
  <2>2. ASSUME NEW P, NEW n, NEW C, NEW D
        PROVE  SemWait(Of(s, m, P, n, C, D), id) = Of(t, w, P, n, C, D)
    BY <1>2 DEF SemWait, Of
  <2>. QED BY <2>1, <2>2
<1>. QED
  BY <1>1, <1>2

LEMMA PostOnPipes ==
    ASSUME NEW s, NEW m, NEW id
    PROVE  \E t, w : /\ SemPost(Sys(s, m), id) = Sys(t, w)
                     /\ \A P, n, C, D : SemPost(Of(s, m, P, n, C, D), id) = Of(t, w, P, n, C, D)
<1>. DEFINE q == Purge(s, m[id].waitQueue)
<1>1. CASE q # << >>
  <2>. DEFINE w == [m EXCEPT ![id].waitQueue = Tail(q)]
              t == SetReadyProcess(s, Head(q))
  <2>1. SemPost(Sys(s, m), id) = Sys(t, w)
    BY <1>1 DEF SemPost, Sys
  <2>2. ASSUME NEW P, NEW n, NEW C, NEW D
        PROVE  SemPost(Of(s, m, P, n, C, D), id) = Of(t, w, P, n, C, D)
    BY <1>1 DEF SemPost, Of
  <2>. QED BY <2>1, <2>2
<1>2. CASE q = << >>
  <2>. DEFINE w == [m EXCEPT ![id].waitQueue = q, ![id].counter = @ + 1]
  <2>1. ASSUME NEW P, NEW n, NEW C, NEW D
        PROVE  SemPost(Of(s, m, P, n, C, D), id) = Of(s, w, P, n, C, D)
    <3>. DEFINE u == [m EXCEPT ![id].waitQueue = q]
    <3>1. SemPost(Of(s, m, P, n, C, D), id)
            = [[Of(s, m, P, n, C, D) EXCEPT !.sems[id].waitQueue = q] EXCEPT !.sems[id].counter = @ + 1]
      BY <1>2, ZenonT(60) DEF SemPost, Of
    <3>2. [Of(s, m, P, n, C, D) EXCEPT !.sems[id].waitQueue = q] = Of(s, u, P, n, C, D)
      BY DEF Of
    <3>. HIDE DEF u
    <3>3. [Of(s, u, P, n, C, D) EXCEPT !.sems[id].counter = @ + 1]
            = Of(s, [u EXCEPT ![id].counter = @ + 1], P, n, C, D)
      BY DEF Of
    <3>4. w = [u EXCEPT ![id].counter = @ + 1]
      BY DEF u
    <3>. QED BY <3>1, <3>2, <3>3, <3>4
  <2>2. SemPost(Sys(s, m), id) = Sys(s, w)
    BY <1>2 DEF SemPost, Sys
  <2>. HIDE DEF w
  <2>. QED BY <2>1, <2>2
<1>. QED
  BY <1>1, <1>2

\* Whoever calls takes the mutex of an open pipe without waiting, and giving it
\* back leaves the semaphores as they were, whatever it did in between.
LEMMA MutexPasses ==
    ASSUME NEW s, NEW m, NEW P, NEW n, NEW C, Sharing(s, m, P, n, C),
           NEW i \in Slots, P[i].isOpen, s.currentProcess # NULL
    PROVE  \E w : /\ \A B, D : SemWaitOn(Of(s, m, P, n, B, D), P[i].mutex)
                                = Of(s, w, P, n, B, D)
                  /\ \A Q, B, E : SemPostOn(Of(s, w, Q, n, B, E), P[i].mutex)
                                    = Of(s, m, Q, n, B, E)
<1>. DEFINE id == P[i].mutex
<1>1. CASE id \notin SemIds
  BY <1>1 DEF SemWaitOn, SemPostOn
<1>2. CASE id \in SemIds
  <2>. DEFINE w == [m EXCEPT ![id].counter = @ - 1]
              sem == [m[id] EXCEPT !.counter = @ - 1]
  <2>1. Made(P[i])
    BY <1>2, MutexIsMade DEF Sharing
  <2>2. m[id].counter = 1 /\ m[id].waitQueue = << >>
    BY <2>1 DEF Sharing, Balanced
  <2>3. m \in [SemIds -> Semaphore] /\ m[id] \in Semaphore
    BY <1>2 DEF Sharing, Orderly
  <2>4. Len(m[id].waitQueue) < MAX_QUEUE
    <3>1. Len(m[id].waitQueue) < Cardinality(Ctx)
      BY <1>2, QueueHasRoom DEF Sharing
    <3>2. Cardinality(Ctx) \in Nat /\ MAX_QUEUE \in Nat /\ MAX_QUEUE >= Cardinality(Ctx)
      BY SchedulerAssumption, FS_CardinalityType, PipesAssumption, SemaphoresAssumption
    <3>3. Len(m[id].waitQueue) = 0
      BY <2>2
    <3>. QED BY <3>1, <3>2, <3>3
  <2>5. ASSUME NEW B, NEW D
        PROVE  SemWaitOn(Of(s, m, P, n, B, D), id) = Of(s, w, P, n, B, D)
    <3>. HIDE DEF id
    <3>1. m[id].counter > 0
      BY <2>2
    <3>. QED BY <1>2, <2>4, <3>1 DEF SemWaitOn, SemWait, Of
  <2>6. ASSUME NEW Q, NEW B, NEW E
        PROVE  SemPostOn(Of(s, w, Q, n, B, E), id) = Of(s, m, Q, n, B, E)
    <3>. HIDE DEF id
    <3>1. w = [m EXCEPT ![id] = sem] /\ w[id] = sem
      BY <1>2, <2>3
    <3>2. sem.counter = 0 /\ sem.waitQueue = << >> /\ sem.active = m[id].active
          /\ sem \in Semaphore /\ sem = [m[id] EXCEPT !.counter = 0]
      <4>1. sem = [m[id] EXCEPT !.counter = 0]
        BY <2>2, <2>3
      <4>. HIDE DEF sem
      <4>. QED BY <2>2, <2>3, <4>1 DEF Semaphore
    <3>. HIDE DEF w, sem
    <3>3. Purge(s, w[id].waitQueue) = << >>
      <4>1. << >> \in Seq(Pids)
        OBVIOUS
      <4>2. Purge(s, << >>) = << >>
        BY <4>1, PurgeProperty
      <4>3. w[id].waitQueue = << >>
        BY <3>1, <3>2
      <4>. QED BY <4>2, <4>3
    <3>. DEFINE u == [w EXCEPT ![id].waitQueue = << >>]
    <3>4. SemPost(Of(s, w, Q, n, B, E), id)
            = [[Of(s, w, Q, n, B, E) EXCEPT !.sems[id].waitQueue = << >>]
                    EXCEPT !.sems[id].counter = @ + 1]
      BY <3>3, ZenonT(60) DEF SemPost, Of
    <3>5. [Of(s, w, Q, n, B, E) EXCEPT !.sems[id].waitQueue = << >>] = Of(s, u, Q, n, B, E)
      BY DEF Of
    <3>6. u = w
      <4>1. [sem EXCEPT !.waitQueue = << >>] = sem
        BY <3>2 DEF Semaphore
      <4>2. w \in [SemIds -> Semaphore]
        BY <2>3, <3>1, <3>2
      <4>. QED BY <1>2, <3>1, <4>1, <4>2
    <3>. HIDE DEF u
    <3>7. [Of(s, u, Q, n, B, E) EXCEPT !.sems[id].counter = @ + 1]
            = Of(s, [u EXCEPT ![id].counter = @ + 1], Q, n, B, E)
      BY DEF Of
    <3>8. [w EXCEPT ![id].counter = @ + 1] = m
      <4>1. [sem EXCEPT !.counter = @ + 1] = m[id]
        <5>1. [sem EXCEPT !.counter = @ + 1] = [sem EXCEPT !.counter = 1]
          BY <3>2
        <5>2. [sem EXCEPT !.counter = 1] = m[id]
          BY <2>2, <2>3, <3>2 DEF Semaphore
        <5>. QED BY <5>1, <5>2
      <4>2. [w EXCEPT ![id].counter = @ + 1] = [w EXCEPT ![id] = m[id]]
        BY <3>1, <4>1
      <4>. QED BY <1>2, <2>3, <3>1, <4>2
    <3>. QED BY <1>2, <3>4, <3>5, <3>6, <3>7, <3>8 DEF SemPostOn
  <2>. QED BY <2>5, <2>6
<1>. QED
  BY <1>1, <1>2

\* A sem_wait after which the calls are C, and c goes on only if it was not blocked;
\* a sem_post after which they are.
Waited(s, m, P, n, C, id, c) ==
    \E t, w :
        /\ \A B, D : SemWaitOn(Of(s, m, P, n, B, D), id) = Of(t, w, P, n, B, D)
        /\ Sharing(t, w, P, n, C)
        /\ t.currentProcess = c => t = s

Posted(s, m, P, n, C, id) ==
    \E t, w :
        /\ \A B, D : SemPostOn(Of(s, m, P, n, B, D), id) = Of(t, w, P, n, B, D)
        /\ Sharing(t, w, P, n, C)

\* The caller of readPipe or writePipe, who is at no semaphore yet, waits for its
\* token.
LEMMA TokenWait ==
    ASSUME NEW s, NEW m, NEW P, NEW n, NEW C, Sharing(s, m, P, n, C),
           NEW i \in Slots, P[i].isOpen, NEW c \in Ctx, c = s.currentProcess,
           s.pid[c] # IDLE_PID, C[c].at \in {"user", "readAgain"},
           NEW point, NEW value, NEW id,
           \/ point = "readMutex" /\ id = P[i].semReaders /\ value = 0
           \/ point = "writeMutex" /\ id = P[i].semWriters /\ value \in Bytes
    PROVE  Waited(s, m, P, n, [C EXCEPT ![c] = [at |-> point, slot |-> i, value |-> value]], id, c)
<1>. DEFINE B == [C EXCEPT ![c] = [at |-> point, slot |-> i, value |-> value]]
            home == Homes(P, C)
<1>1. /\ Orderly(s, m, home) /\ Table(P, n) /\ Unused(m, n) /\ Balanced(s, m, P, home)
      /\ CallsInOrder(s, P, C) /\ C \in [Ctx -> Call] /\ home[c] = -1 /\ home \in [Ctx -> Int]
  <2>1. /\ Orderly(s, m, home) /\ Table(P, n) /\ Unused(m, n) /\ Balanced(s, m, P, home)
        /\ CallsInOrder(s, P, C)
    BY DEF Sharing
  <2>. HIDE DEF home
  <2>2. home[c] = -1 /\ home \in [Ctx -> Int]
    BY <2>1, HomesProperty DEF home
  <2>. QED BY <2>1, <2>2 DEF CallsInOrder
<1>2. c # NULL /\ s.status[c] # "FREED"
  BY <1>1, SchedulerAssumption DEF Orderly, Inv, Cpu
<1>3. id \in Int
  BY <1>1, PipeFields
<1>4. \A d \in Ctx : B[d] = IF d = c THEN [at |-> point, slot |-> i, value |-> value] ELSE C[d]
  BY <1>1
<1>5. B \in [Ctx -> Call]
  <2>1. [at |-> point, slot |-> i, value |-> value] \in Call
    BY DEF Call, Points
  <2>. HIDE DEF B
  <2>2. B = [C EXCEPT ![c] = [at |-> point, slot |-> i, value |-> value]]
    BY DEF B
  <2>. QED BY <1>1, <2>1, <2>2
<1>. HIDE DEF B
<1>6. Goes(home, c, id, Homes(P, B))
  <2>1. \A d \in Ctx : Homes(P, B)[d] = IF d = c THEN id ELSE home[d]
    BY <1>4 DEF Homes
  <2>2. Homes(P, B) = [d \in Ctx |-> Homes(P, B)[d]]
    BY DEF Homes
  <2>. HIDE DEF home
  <2>. QED BY <1>1, <1>3, <2>1, <2>2 DEF Goes
<1>. HIDE DEF home
<1>7. ASSUME NEW t, NEW w,
             /\ Orderly(t, w, Homes(P, B))
             /\ \A j \in SemIds : Supply(t, w, Homes(P, B), j) = Supply(s, m, home, j)
             /\ \A j \in SemIds : w[j].active = m[j].active /\ (j # id => w[j] = m[j])
             /\ \A d \in Ctx : t.pid[d] = s.pid[d] /\ (t.status[d] = "FREED" <=> s.status[d] = "FREED")
      PROVE  Sharing(t, w, P, n, B)
  <2>1. Unused(w, n)
    BY <1>1, <1>7 DEF Unused
  <2>2. CallsInOrder(t, P, B)
    <3>1. ASSUME NEW d \in Ctx
          PROVE  /\ B[d].at \in {"user", "readMutex", "readAgain", "writeMutex"}
                 /\ B[d].at # "user" =>
                        P[B[d].slot].isOpen /\ t.status[d] # "FREED" /\ t.pid[d] # IDLE_PID
                 /\ B[d].at = "writeMutex" => B[d].value \in Bytes
                 /\ t.status[d] = "FREED" => B[d] = InProgram
      <4>1. CASE d = c
        BY <1>2, <1>4, <1>7, <4>1
      <4>2. CASE d # c
        BY <1>1, <1>4, <1>7, <4>2 DEF CallsInOrder
      <4>. QED BY <4>1, <4>2
    <3>. QED BY <1>5, <3>1 DEF CallsInOrder
  <2>3. Balanced(t, w, P, Homes(P, B))
    <3>1. ASSUME NEW j \in Slots, Made(P[j])
          PROVE  /\ w[P[j].mutex].counter = 1 /\ w[P[j].mutex].waitQueue = << >>
                 /\ P[j].count = Supply(t, w, Homes(P, B), P[j].semReaders)
                 /\ PIPE_BUFFER_SIZE - P[j].count = Supply(t, w, Homes(P, B), P[j].semWriters)
      <4>1. /\ P[j].isOpen /\ P[j].mutex \in SemIds
            /\ P[j].semReaders \in SemIds /\ P[j].semWriters \in SemIds
        BY <3>1 DEF Made
      <4>2. P[j].mutex # id
        BY <1>1, <4>1, IdsApart
      <4>. QED BY <1>1, <1>7, <3>1, <4>1, <4>2 DEF Balanced
    <3>. QED BY <3>1 DEF Balanced
  <2>. QED BY <1>1, <1>7, <2>1, <2>2, <2>3 DEF Sharing
<1>8. CASE id \in SemIds
  <2>1. Len(m[id].waitQueue) < MAX_QUEUE
    <3>1. Len(m[id].waitQueue) < Cardinality(Ctx)
      BY <1>1, <1>2, <1>8, QueueHasRoom
    <3>2. Cardinality(Ctx) \in Nat /\ MAX_QUEUE \in Nat /\ MAX_QUEUE >= Cardinality(Ctx)
      BY SchedulerAssumption, FS_CardinalityType, PipesAssumption, SemaphoresAssumption
    <3>3. Len(m[id].waitQueue) \in Nat
      BY <1>1, <1>8 DEF Orderly, Semaphore
    <3>. QED BY <3>1, <3>2, <3>3
  <2>2. PICK t, w : /\ SemWait(Sys(s, m), id) = Sys(t, w)
                    /\ \A R, h, A, D : SemWait(Of(s, m, R, h, A, D), id) = Of(t, w, R, h, A, D)
    BY WaitOnPipes
  <2>3. ASSUME NEW A, NEW D
        PROVE  SemWaitOn(Of(s, m, P, n, A, D), id) = Of(t, w, P, n, A, D)
    BY <1>8, <2>1, <2>2 DEF SemWaitOn, Of
  <2>4. home[c] \notin SemIds
    BY <1>1, Ids
  <2>5. /\ Orderly(t, w, Homes(P, B))
        /\ \A j \in SemIds : Supply(t, w, Homes(P, B), j) = Supply(s, m, home, j)
        /\ t.currentProcess = c => t = s
        /\ \A j \in SemIds : w[j].active = m[j].active /\ (j # id => w[j] = m[j])
        /\ \A d \in Ctx : t.pid[d] = s.pid[d] /\ (t.status[d] = "FREED" <=> s.status[d] = "FREED")
    <3>. DEFINE home2 == Homes(P, B)
    <3>1. Goes(home, c, id, home2)
      BY <1>6
    <3>. HIDE DEF home2
    <3>2. /\ Orderly(t, w, home2)
          /\ \A j \in SemIds : Supply(t, w, home2, j) = Supply(s, m, home, j)
          /\ t.currentProcess = c => t = s
          /\ \A j \in SemIds : w[j].active = m[j].active /\ (j # id => w[j] = m[j])
          /\ \A d \in Ctx : t.pid[d] = s.pid[d] /\ (t.status[d] = "FREED" <=> s.status[d] = "FREED")
      <4>1. Orderly(s, m, home) /\ SemWait(Sys(s, m), id) = Sys(t, w)
        BY <1>1, <2>2
      <4>2. /\ Orderly(t, w, home2)
            /\ \A j \in SemIds : Supply(t, w, home2, j) = Supply(s, m, home, j)
        BY <1>3, <1>8, <2>4, <3>1, <4>1, OrderlyWait
      <4>3. t.currentProcess = c => t = s
        BY <1>3, <1>8, <2>4, <3>1, <4>1, <4>2, OrderlyWait
      <4>4. \A j \in SemIds : w[j].active = m[j].active /\ (j # id => w[j] = m[j])
        BY <1>3, <1>8, <2>4, <3>1, <4>1, <4>2, OrderlyWait
      <4>5. \A d \in Ctx : t.pid[d] = s.pid[d] /\ (t.status[d] = "FREED" <=> s.status[d] = "FREED")
        BY <1>3, <1>8, <2>4, <3>1, <4>1, OrderlyWait
      <4>. QED BY <4>2, <4>3, <4>4, <4>5
    <3>. QED BY <3>2 DEF home2
  <2>6. Sharing(t, w, P, n, B)
    BY <1>7, <2>5
  <2>. QED BY <2>3, <2>5, <2>6 DEF B, Waited
<1>9. CASE id \notin SemIds
  <2>1. ASSUME NEW A, NEW D
        PROVE  SemWaitOn(Of(s, m, P, n, A, D), id) = Of(s, m, P, n, A, D)
    BY <1>9 DEF SemWaitOn
  <2>2. /\ Orderly(s, m, Homes(P, B))
        /\ \A j \in SemIds : Supply(s, m, Homes(P, B), j) = Supply(s, m, home, j)
    <3>. DEFINE home2 == Homes(P, B)
    <3>1. Goes(home, c, id, home2) /\ home[c] \notin SemIds
      BY <1>1, <1>6, Ids
    <3>. HIDE DEF home2
    <3>2. /\ Orderly(s, m, home2)
          /\ \A j \in SemIds : Supply(s, m, home2, j) = Supply(s, m, home, j)
      <4>1. Orderly(s, m, home)
        BY <1>1
      <4>2. \A j \in SemIds :
                Supply(s, m, home2, j) = IF j = home[c] THEN Supply(s, m, home, j) - 1
                                                        ELSE Supply(s, m, home, j)
        BY <1>3, <1>9, <3>1, <4>1, OrderlyLeave
      <4>3. Orderly(s, m, home2)
        BY <1>3, <1>9, <3>1, <4>1, OrderlyLeave
      <4>. QED BY <3>1, <4>2, <4>3
    <3>. QED BY <3>2 DEF home2
  <2>3. Sharing(s, m, P, n, B)
    BY <1>7, <2>2
  <2>. QED BY <2>1, <2>3 DEF B, Waited
<1>. QED
  BY <1>8, <1>9

-----------------------------------------------------------------------------
(***************************************************************************)
(* A process with its token at the pipe in slot i: it changes the pipe and *)
(* goes on elsewhere.                                                      *)
(***************************************************************************)

\* q is the pipe p with bytes put or taken.
SamePipe(p, q) ==
    /\ q \in Pipe /\ q.isOpen /\ q.writers = p.writers
    /\ q.semReaders = p.semReaders /\ q.semWriters = p.semWriters /\ q.mutex = p.mutex
    /\ q.writeIdx = (q.readIdx + q.count) % PIPE_BUFFER_SIZE

LEMMA LeavesCall ==
    ASSUME NEW s, NEW m, NEW P, NEW n, NEW C, Sharing(s, m, P, n, C),
           NEW i \in Slots, P[i].isOpen, NEW c \in Ctx, c = s.currentProcess,
           C[c].at \in {"readMutex", "writeMutex"},
           NEW q, SamePipe(P[i], q),
           NEW x \in Call, x.at = "user" \/ (x.at = "readAgain" /\ x.slot = i)
    PROVE  /\ Orderly(s, m, Homes([P EXCEPT ![i] = q], [C EXCEPT ![c] = x]))
           /\ Table([P EXCEPT ![i] = q], n)
           /\ CallsInOrder(s, [P EXCEPT ![i] = q], [C EXCEPT ![c] = x])
           /\ \A id \in SemIds :
                Supply(s, m, Homes([P EXCEPT ![i] = q], [C EXCEPT ![c] = x]), id)
                    = IF id = Homes(P, C)[c] THEN Supply(s, m, Homes(P, C), id) - 1
                                             ELSE Supply(s, m, Homes(P, C), id)
<1>. DEFINE Q == [P EXCEPT ![i] = q]
            B == [C EXCEPT ![c] = x]
            home == Homes(P, C)
            home2 == Homes(Q, B)
<1>1. /\ Orderly(s, m, home) /\ Table(P, n) /\ CallsInOrder(s, P, C)
      /\ P \in [Slots -> Pipe] /\ C \in [Ctx -> Call]
  BY DEF Sharing, Table, CallsInOrder
<1>2. \A j \in Slots : Q[j] = IF j = i THEN q ELSE P[j]
  BY <1>1
<1>3. Q \in [Slots -> Pipe]
  BY <1>1 DEF SamePipe
<1>4. \A d \in Ctx : B[d] = IF d = c THEN x ELSE C[d]
  BY <1>1
<1>5. B \in [Ctx -> Call]
  BY <1>1
<1>. HIDE DEF Q, B
<1>6. \A j \in Slots : /\ Q[j].isOpen = P[j].isOpen /\ Q[j].writers = P[j].writers
                        /\ Q[j].semReaders = P[j].semReaders
                        /\ Q[j].semWriters = P[j].semWriters /\ Q[j].mutex = P[j].mutex
  <2>1. P[i].isOpen = TRUE /\ q.isOpen = TRUE
    BY <1>1 DEF SamePipe, Pipe
  <2>. QED BY <1>2, <2>1 DEF SamePipe
<1>7. Table(Q, n)
  <2>1. \A j \in Slots : Q[j].isOpen => PipeInOrder(Q[j], n)
    <3>1. \A j \in Slots : P[j].isOpen => PipeInOrder(P[j], n)
      BY <1>1 DEF Table
    <3>2. PipeInOrder(q, n)
      BY <3>1 DEF PipeInOrder, SamePipe
    <3>. QED BY <1>2, <3>1, <3>2
  <2>2. \A j, h \in Slots : Q[j].isOpen /\ Q[h].isOpen /\ j # h =>
            \/ Q[j].semReaders + 3 <= Q[h].semReaders
            \/ Q[h].semReaders + 3 <= Q[j].semReaders
    BY <1>1, <1>6 DEF Table
  <2>. QED BY <1>1, <1>3, <2>1, <2>2 DEF Table
<1>8. s.status[c] # "FREED" /\ s.pid[c] # IDLE_PID
  BY <1>1 DEF CallsInOrder
<1>9. CallsInOrder(s, Q, B)
  <2>1. ASSUME NEW d \in Ctx
        PROVE  /\ B[d].at \in {"user", "readMutex", "readAgain", "writeMutex"}
               /\ B[d].at # "user" =>
                      Q[B[d].slot].isOpen /\ s.status[d] # "FREED" /\ s.pid[d] # IDLE_PID
               /\ B[d].at = "writeMutex" => B[d].value \in Bytes
               /\ s.status[d] = "FREED" => B[d] = InProgram
    <3>1. CASE d = c
      BY <1>4, <1>6, <1>8, <3>1
    <3>2. CASE d # c
      <4>1. C[d].slot \in Slots /\ B[d] = C[d]
        BY <1>1, <1>4, <3>2 DEF Call
      <4>. QED BY <1>1, <1>6, <4>1 DEF CallsInOrder
    <3>. QED BY <3>1, <3>2
  <2>. QED BY <1>5, <2>1 DEF CallsInOrder
<1>10. Goes(home, c, -1, home2)
  <2>1. \A d \in Ctx : C[d].slot \in Slots
    BY <1>1 DEF Call
  <2>2. \A d \in Ctx : home2[d] = IF d = c THEN -1 ELSE home[d]
    BY <1>4, <1>6, <2>1 DEF Homes
  <2>. HIDE DEF home2, home
  <2>3. home2 \in [Ctx -> Int]
    BY <1>7, <1>9, HomesProperty DEF home2
  <2>. QED BY <2>2, <2>3 DEF Goes
<1>. HIDE DEF home, home2
<1>11. /\ Orderly(s, m, home2)
       /\ \A id \in SemIds :
            Supply(s, m, home2, id) = IF id = home[c] THEN Supply(s, m, home, id) - 1
                                                     ELSE Supply(s, m, home, id)
  <2>1. -1 \in Int /\ -1 \notin SemIds
    BY Ids
  <2>2. Orderly(s, m, home2)
    BY <1>1, <1>10, <2>1, OrderlyLeave
  <2>3. \A id \in SemIds :
            Supply(s, m, home2, id) = IF id = home[c] THEN Supply(s, m, home, id) - 1
                                                     ELSE Supply(s, m, home, id)
    BY <1>1, <1>10, <2>1, OrderlyLeave
  <2>. QED BY <2>2, <2>3
<1>. QED
  BY <1>7, <1>9, <1>11 DEF home, home2, Q, B

\* It tells the other side: a free place for a byte taken, a byte for a place.
LEMMA TokenSpent ==
    ASSUME NEW s, NEW m, NEW P, NEW n, NEW C, Sharing(s, m, P, n, C),
           NEW i \in Slots, P[i].isOpen, NEW c \in Ctx, c = s.currentProcess,
           NEW q, SamePipe(P[i], q), C[c].slot = i, NEW to,
           \/ /\ C[c].at = "readMutex" /\ to = P[i].semWriters
              /\ Made(P[i]) => q.count = P[i].count - 1
           \/ /\ C[c].at = "writeMutex" /\ to = P[i].semReaders
              /\ Made(P[i]) => q.count = P[i].count + 1,
           NEW x \in Call, x.at = "user"
    PROVE  Posted(s, m, [P EXCEPT ![i] = q], n, [C EXCEPT ![c] = x], to)
<1>. DEFINE Q == [P EXCEPT ![i] = q]
            C2 == [C EXCEPT ![c] = x]
            home == Homes(P, C)
            home2 == Homes(Q, C2)
            from == home[c]
<1>1. /\ Orderly(s, m, home) /\ Table(P, n) /\ Unused(m, n) /\ Balanced(s, m, P, home)
      /\ CallsInOrder(s, P, C) /\ P \in [Slots -> Pipe] /\ m \in [SemIds -> Semaphore]
  BY DEF Sharing, Table, Orderly
<1>2. /\ C[c].at = "readMutex" => from = P[i].semReaders
      /\ C[c].at = "writeMutex" => from = P[i].semWriters
  <2>. HIDE DEF home
  <2>. QED BY <1>1, HomesProperty DEF home
<1>3. \A j \in Slots : Q[j] = IF j = i THEN q ELSE P[j]
  BY <1>1
<1>4. /\ Orderly(s, m, home2) /\ Table(Q, n) /\ CallsInOrder(s, Q, C2)
      /\ \A id \in SemIds :
            Supply(s, m, home2, id) = IF id = home[c] THEN Supply(s, m, home, id) - 1
                                                     ELSE Supply(s, m, home, id)
  <2>0. C[c].at \in {"readMutex", "writeMutex"} /\ (x.at = "user" \/ (x.at = "readAgain" /\ x.slot = i))
    OBVIOUS
  <2>1. Orderly(s, m, home2)
    BY <2>0, LeavesCall
  <2>2. Table(Q, n)
    BY <2>0, LeavesCall
  <2>3. CallsInOrder(s, Q, C2)
    BY <2>0, LeavesCall
  <2>4. \A id \in SemIds :
            Supply(s, m, home2, id) = IF id = home[c] THEN Supply(s, m, home, id) - 1
                                                     ELSE Supply(s, m, home, id)
    BY <2>0, LeavesCall
  <2>. QED BY <2>1, <2>2, <2>3, <2>4
<1>. HIDE DEF Q, C2, home, home2
<1>5. ASSUME NEW t, NEW w, Orderly(t, w, home2),
             \A id \in SemIds :
                Supply(t, w, home2, id) = IF id = to THEN Supply(s, m, home2, id) + 1
                                                     ELSE Supply(s, m, home2, id),
             \A id \in SemIds : w[id].active = m[id].active /\ (id # to => w[id] = m[id]),
             \A d \in Ctx : t.pid[d] = s.pid[d] /\ (t.status[d] = "FREED" <=> s.status[d] = "FREED")
      PROVE  Sharing(t, w, Q, n, C2)
  <2>1. Unused(w, n)
    BY <1>1, <1>5 DEF Unused
  <2>2. CallsInOrder(t, Q, C2)
    BY <1>4, <1>5 DEF CallsInOrder
  <2>3. ASSUME NEW j \in Slots, Made(Q[j])
        PROVE  /\ w[Q[j].mutex].counter = 1 /\ w[Q[j].mutex].waitQueue = << >>
               /\ Q[j].count = Supply(t, w, home2, Q[j].semReaders)
               /\ PIPE_BUFFER_SIZE - Q[j].count = Supply(t, w, home2, Q[j].semWriters)
    <3>1. /\ Made(P[j]) /\ P[j].isOpen /\ Q[j].semReaders = P[j].semReaders
          /\ Q[j].semWriters = P[j].semWriters /\ Q[j].mutex = P[j].mutex
      BY <1>3, <2>3 DEF Made, SamePipe
    <3>2. P[j].semReaders \in SemIds /\ P[j].semWriters \in SemIds /\ P[j].mutex \in SemIds
      BY <3>1 DEF Made
    <3>3. /\ m[P[j].mutex].counter = 1 /\ m[P[j].mutex].waitQueue = << >>
          /\ P[j].count = Supply(s, m, home, P[j].semReaders)
          /\ PIPE_BUFFER_SIZE - P[j].count = Supply(s, m, home, P[j].semWriters)
      BY <1>1, <3>1 DEF Balanced
    <3>4. P[j].count \in Int /\ PIPE_BUFFER_SIZE \in Int
      BY <1>1, PipeFields, Ids
    <3>5. /\ P[j].mutex # to /\ P[j].semReaders # P[j].semWriters
          /\ j # i => /\ P[j].semReaders # to /\ P[j].semWriters # to
                      /\ P[j].semReaders # from /\ P[j].semWriters # from
      BY <1>1, <1>2, <3>1, IdsApart
    <3>6. w[Q[j].mutex].counter = 1 /\ w[Q[j].mutex].waitQueue = << >>
      BY <1>5, <3>1, <3>2, <3>3, <3>5
    <3>7. CASE j # i
      <4>1. Q[j] = P[j]
        BY <1>3, <3>7
      <4>2. /\ Supply(t, w, home2, P[j].semReaders) = Supply(s, m, home, P[j].semReaders)
            /\ Supply(t, w, home2, P[j].semWriters) = Supply(s, m, home, P[j].semWriters)
        BY <1>4, <1>5, <3>2, <3>5, <3>7
      <4>. QED BY <3>3, <3>6, <4>1, <4>2
    <3>8. CASE j = i /\ C[c].at = "readMutex"
      <4>1. to = P[j].semWriters /\ from = P[j].semReaders /\ Q[j].count = P[j].count - 1
        BY <1>2, <1>3, <3>1, <3>8
      <4>2. /\ Supply(t, w, home2, P[j].semReaders) = Supply(s, m, home, P[j].semReaders) - 1
            /\ Supply(t, w, home2, P[j].semWriters) = Supply(s, m, home, P[j].semWriters) + 1
        BY <1>4, <1>5, <3>2, <3>5, <4>1
      <4>. QED BY <3>1, <3>3, <3>4, <3>6, <4>1, <4>2
    <3>9. CASE j = i /\ C[c].at = "writeMutex"
      <4>1. to = P[j].semReaders /\ from = P[j].semWriters /\ Q[j].count = P[j].count + 1
        BY <1>2, <1>3, <3>1, <3>9
      <4>2. /\ Supply(t, w, home2, P[j].semReaders) = Supply(s, m, home, P[j].semReaders) + 1
            /\ Supply(t, w, home2, P[j].semWriters) = Supply(s, m, home, P[j].semWriters) - 1
        BY <1>4, <1>5, <3>2, <3>5, <4>1
      <4>. QED BY <3>1, <3>3, <3>4, <3>6, <4>1, <4>2
    <3>. QED BY <3>7, <3>8, <3>9
  <2>4. Balanced(t, w, Q, home2)
    BY <2>3 DEF Balanced
  <2>. QED BY <1>4, <1>5, <2>1, <2>2, <2>4 DEF Sharing, home2
<1>6. CASE to \in SemIds
  <2>1. PICK t, w : /\ SemPost(Sys(s, m), to) = Sys(t, w)
                    /\ \A R, h, A, D : SemPost(Of(s, m, R, h, A, D), to) = Of(t, w, R, h, A, D)
    BY PostOnPipes
  <2>2. Orderly(t, w, home2)
    BY <1>4, <1>6, <2>1, OrderlyPost
  <2>3. \A id \in SemIds :
            Supply(t, w, home2, id) = IF id = to THEN Supply(s, m, home2, id) + 1
                                                 ELSE Supply(s, m, home2, id)
    BY <1>4, <1>6, <2>1, OrderlyPost
  <2>4. \A id \in SemIds : w[id].active = m[id].active /\ (id # to => w[id] = m[id])
    BY <1>4, <1>6, <2>1, OrderlyPost
  <2>5. SameProcesses(s, t)
    BY <1>4, <1>6, <2>1, OrderlyPost
  <2>6. \A d \in Ctx : t.status[d] = "FREED" <=> s.status[d] = "FREED"
    BY <1>4, <1>6, <2>1, OrderlyPost
  <2>7. \A d \in Ctx : t.pid[d] = s.pid[d] /\ (t.status[d] = "FREED" <=> s.status[d] = "FREED")
    BY <2>5, <2>6 DEF SameProcesses
  <2>8. Sharing(t, w, Q, n, C2)
    BY <1>5, <2>2, <2>3, <2>4, <2>7
  <2>9. ASSUME NEW A, NEW D
        PROVE  SemPostOn(Of(s, m, Q, n, A, D), to) = Of(t, w, Q, n, A, D)
    BY <1>6, <2>1 DEF SemPostOn
  <2>. QED BY <2>8, <2>9 DEF Q, C2, Posted
<1>7. CASE to \notin SemIds
  <2>1. Sharing(s, m, Q, n, C2)
    BY <1>4, <1>5, <1>7
  <2>2. ASSUME NEW A, NEW D
        PROVE  SemPostOn(Of(s, m, Q, n, A, D), to) = Of(s, m, Q, n, A, D)
    BY <1>7 DEF SemPostOn
  <2>. QED BY <2>1, <2>2 DEF Q, C2, Posted
<1>. QED
  BY <1>6, <1>7

\* It has a token, so the semaphore it is at has one to give.
LEMMA TokenInHand ==
    ASSUME NEW s, NEW m, NEW P, NEW n, NEW C, Sharing(s, m, P, n, C),
           NEW i \in Slots, Made(P[i]), NEW c \in Ctx, c = s.currentProcess, C[c].slot = i
    PROVE  /\ C[c].at = "readMutex" => P[i].count > 0
           /\ C[c].at = "writeMutex" => P[i].count < PIPE_BUFFER_SIZE
<1>. DEFINE home == Homes(P, C)
<1>1. /\ Orderly(s, m, home) /\ Table(P, n) /\ Balanced(s, m, P, home) /\ CallsInOrder(s, P, C)
      /\ m \in [SemIds -> Semaphore]
  BY DEF Sharing, Orderly
<1>2. /\ C[c].at = "readMutex" => home[c] = P[i].semReaders
      /\ C[c].at = "writeMutex" => home[c] = P[i].semWriters
  <2>. HIDE DEF home
  <2>. QED BY <1>1, HomesProperty DEF home
<1>. HIDE DEF home
<1>3. s.status[c] = "RUNNING"
  BY <1>1, SchedulerAssumption DEF Orderly, Inv, Common, Cpu, Undead
<1>4. ASSUME NEW id \in SemIds, home[c] = id
      PROVE  Supply(s, m, home, id) > 0
  <2>1. c \in Awakened(s, home, id)
    BY <1>3, <1>4 DEF Awakened
  <2>2. /\ IsFiniteSet(Awakened(s, home, id)) /\ Cardinality(Awakened(s, home, id)) \in Nat
    BY AwakenedFinite
  <2>3. Cardinality(Awakened(s, home, id)) # 0
    BY <2>1, <2>2, FS_EmptySet
  <2>4. m[id].counter \in Nat
    BY <1>1 DEF Semaphore
  <2>. QED BY <2>2, <2>3, <2>4 DEF Supply
<1>5. /\ P[i].semReaders \in SemIds /\ P[i].semWriters \in SemIds
      /\ P[i].count = Supply(s, m, home, P[i].semReaders)
      /\ PIPE_BUFFER_SIZE - P[i].count = Supply(s, m, home, P[i].semWriters)
  BY <1>1 DEF Balanced, Made
<1>6. P[i].count \in Int /\ PIPE_BUFFER_SIZE \in Int
  BY <1>1, PipeFields, Ids
<1>7. C[c].at = "readMutex" => P[i].count > 0
  BY <1>2, <1>4, <1>5
<1>8. C[c].at = "writeMutex" => PIPE_BUFFER_SIZE - P[i].count > 0
  BY <1>2, <1>4, <1>5
<1>. QED
  BY <1>6, <1>7, <1>8

\* What is true after a call, or after its part up to the next sem_wait that
\* blocks, of a state with pipes P that have delivered D.
Good(o, P, D) ==
    \E t, w, Q, n, C, E :
        /\ o = Of(t, w, Q, n, C, E)
        /\ Sharing(t, w, Q, n, C) /\ E \in Deliveries /\ Fifo(P, D, Q, E)

\* B is C, except for where c goes on.
Elsewhere(B, C, c) == \A x : [B EXCEPT ![c] = x] = [C EXCEPT ![c] = x]

LEMMA SameBytes ==
    ASSUME NEW P, NEW D
    PROVE  Fifo(P, D, P, D)
BY DEF Fifo

\* One pipe changes.
LEMMA OnePipe ==
    ASSUME NEW P, NEW D, NEW i \in Slots, P \in [Slots -> Pipe], D \in Deliveries, NEW q, NEW e,
           \/ Contents(q) = Contents(P[i]) /\ e = D[i]
           \/ Contents(q) = << >> /\ e = D[i] /\ ~ P[i].isOpen
           \/ /\ Contents(P[i]) # << >>
              /\ e = [byte |-> Head(Contents(P[i])), flip |-> ~ D[i].flip]
              /\ Contents(q) = Tail(Contents(P[i]))
           \/ /\ Len(Contents(P[i])) < PIPE_BUFFER_SIZE
              /\ \E byte \in Bytes : Contents(q) = Append(Contents(P[i]), byte)
              /\ e = D[i]
    PROVE  Fifo(P, D, [P EXCEPT ![i] = q], [D EXCEPT ![i] = e])
<1>. DEFINE Q == [P EXCEPT ![i] = q]
            E == [D EXCEPT ![i] = e]
<1>1. /\ \A j \in Slots : Q[j] = IF j = i THEN q ELSE P[j]
      /\ \A j \in Slots : E[j] = IF j = i THEN e ELSE D[j]
  BY DEF Deliveries
<1>. HIDE DEF Q, E
<1>2. ASSUME NEW j \in Slots
      PROVE  \/ Contents(Q[j]) = Contents(P[j]) /\ E[j] = D[j]
             \/ Contents(Q[j]) = << >> /\ E[j] = D[j] /\ ~ P[j].isOpen
             \/ /\ Contents(P[j]) # << >>
                /\ E[j] = [byte |-> Head(Contents(P[j])), flip |-> ~ D[j].flip]
                /\ Contents(Q[j]) = Tail(Contents(P[j]))
             \/ /\ Len(Contents(P[j])) < PIPE_BUFFER_SIZE
                /\ \E byte \in Bytes : Contents(Q[j]) = Append(Contents(P[j]), byte)
                /\ E[j] = D[j]
  <2>1. CASE j = i
    <3>1. Q[j] = q /\ E[j] = e
      BY <1>1, <2>1
    <3>. QED BY <2>1, <3>1
  <2>2. CASE j # i
    BY <1>1, <2>2
  <2>. QED BY <2>1, <2>2
<1>. QED
  BY <1>2 DEF Fifo, Q, E

-----------------------------------------------------------------------------
(***************************************************************************)
(* readPipe and writePipe, from the sem_wait for the token on.             *)
(***************************************************************************)

\* The contents of a pipe, as a ring of its buffer.
LEMMA ContentsIsRing ==
    \A p : Contents(p) = Ring(p.buffer, p.readIdx, p.count, PIPE_BUFFER_SIZE)
BY DEF Contents, Ring

\* Where the one who takes from a pipe or puts into it leaves it.
LEMMA TakenFromPipe ==
    ASSUME NEW p \in Pipe, p.isOpen, p.count > 0,
           p.writeIdx = (p.readIdx + p.count) % PIPE_BUFFER_SIZE,
           NEW q, q = [p EXCEPT !.readIdx = Advance(@), !.count = @ - 1]
    PROVE  /\ SamePipe(p, q) /\ q.count = p.count - 1
           /\ Contents(p) # << >> /\ Head(Contents(p)) = p.buffer[p.readIdx]
           /\ Contents(q) = Tail(Contents(p))
           /\ p.buffer[p.readIdx] \in Bytes \cup {0}
<1>1. /\ PIPE_BUFFER_SIZE \in Nat \ {0} /\ p.buffer \in [0 .. PIPE_BUFFER_SIZE - 1 -> Bytes \cup {0}]
      /\ p.readIdx \in 0 .. PIPE_BUFFER_SIZE - 1 /\ p.count \in 1 .. PIPE_BUFFER_SIZE
  BY Ids DEF Pipe, Index
<1>2. /\ q.readIdx = (p.readIdx + 1) % PIPE_BUFFER_SIZE /\ q.count = p.count - 1
      /\ q.buffer = p.buffer /\ q.writeIdx = p.writeIdx /\ q.isOpen = p.isOpen
      /\ q.readers = p.readers /\ q.writers = p.writers /\ q.semReaders = p.semReaders
      /\ q.semWriters = p.semWriters /\ q.mutex = p.mutex
  BY DEF Pipe, Advance
<1>3. q.readIdx \in Index /\ q.count \in 0 .. PIPE_BUFFER_SIZE
  BY <1>1, <1>2 DEF Index
<1>4. q \in Pipe
  <2>1. q = [p EXCEPT !.readIdx = q.readIdx, !.count = q.count]
    BY <1>2 DEF Pipe, Advance
  <2>. QED BY <1>3, <2>1 DEF Pipe
<1>5. (q.readIdx + q.count) % PIPE_BUFFER_SIZE = q.writeIdx
  BY <1>1, <1>2, RingEnd
<1>6. SamePipe(p, q)
  BY <1>2, <1>4, <1>5 DEF SamePipe
<1>7. /\ Contents(p) # << >> /\ Head(Contents(p)) = p.buffer[p.readIdx]
      /\ Contents(q) = Tail(Contents(p))
  <2>1. /\ Contents(p) = Ring(p.buffer, p.readIdx, p.count, PIPE_BUFFER_SIZE)
        /\ Contents(q) = Ring(p.buffer, (p.readIdx + 1) % PIPE_BUFFER_SIZE, p.count - 1, PIPE_BUFFER_SIZE)
    BY <1>2, ContentsIsRing
  <2>. DEFINE r == p.readIdx
              n == p.count
              b == p.buffer
              S == Bytes \cup {0}
  <2>2. Cells(b, PIPE_BUFFER_SIZE, S) /\ r \in 0 .. PIPE_BUFFER_SIZE - 1
        /\ n \in 1 .. PIPE_BUFFER_SIZE /\ PIPE_BUFFER_SIZE \in Nat \ {0}
    BY <1>1 DEF Cells
  <2>. HIDE DEF r, n, b, S
  <2>3. /\ Ring(b, r, n, PIPE_BUFFER_SIZE) # << >>
        /\ Head(Ring(b, r, n, PIPE_BUFFER_SIZE)) = b[r]
        /\ Tail(Ring(b, r, n, PIPE_BUFFER_SIZE))
                = Ring(b, (r + 1) % PIPE_BUFFER_SIZE, n - 1, PIPE_BUFFER_SIZE)
    BY <2>2, RingTake
  <2>. QED BY <2>1, <2>3 DEF r, n, b
<1>. QED
  BY <1>1, <1>2, <1>6, <1>7 DEF Index

LEMMA PutIntoPipe ==
    ASSUME NEW p \in Pipe, p.isOpen, p.count < PIPE_BUFFER_SIZE, NEW byte \in Bytes,
           p.writeIdx = (p.readIdx + p.count) % PIPE_BUFFER_SIZE,
           NEW q, q = [p EXCEPT !.buffer[p.writeIdx] = byte, !.writeIdx = Advance(@),
                                !.count = @ + 1]
    PROVE  /\ SamePipe(p, q) /\ q.count = p.count + 1
           /\ Len(Contents(p)) < PIPE_BUFFER_SIZE
           /\ Contents(q) = Append(Contents(p), byte)
<1>1. /\ PIPE_BUFFER_SIZE \in Nat \ {0} /\ p.buffer \in [0 .. PIPE_BUFFER_SIZE - 1 -> Bytes \cup {0}]
      /\ p.readIdx \in 0 .. PIPE_BUFFER_SIZE - 1 /\ p.count \in 0 .. PIPE_BUFFER_SIZE - 1
      /\ p.writeIdx \in 0 .. PIPE_BUFFER_SIZE - 1
  BY Ids DEF Pipe, Index
<1>. DEFINE b == [p.buffer EXCEPT ![p.writeIdx] = byte]
<1>2. /\ q.writeIdx = (p.writeIdx + 1) % PIPE_BUFFER_SIZE /\ q.count = p.count + 1
      /\ q.buffer = b /\ q.readIdx = p.readIdx /\ q.isOpen = p.isOpen
      /\ q.readers = p.readers /\ q.writers = p.writers /\ q.semReaders = p.semReaders
      /\ q.semWriters = p.semWriters /\ q.mutex = p.mutex
  BY DEF Pipe, Advance
<1>3. q.writeIdx \in Index /\ q.count \in 0 .. PIPE_BUFFER_SIZE /\ b \in [Index -> Bytes \cup {0}]
  BY <1>1, <1>2 DEF Index
<1>4. q \in Pipe
  <2>1. q = [p EXCEPT !.buffer = b, !.writeIdx = q.writeIdx, !.count = q.count]
    BY <1>2 DEF Pipe, Advance
  <2>. HIDE DEF b
  <2>. QED BY <1>3, <2>1 DEF Pipe
<1>5. q.writeIdx = (q.readIdx + q.count) % PIPE_BUFFER_SIZE
  <2>1. \A n \in 0 .. PIPE_BUFFER_SIZE - 1 :
            (((p.readIdx + n) % PIPE_BUFFER_SIZE) + 1) % PIPE_BUFFER_SIZE
                = (p.readIdx + (n + 1)) % PIPE_BUFFER_SIZE
    BY <1>1, RingEnd
  <2>. QED BY <1>1, <1>2, <2>1
<1>6. SamePipe(p, q)
  BY <1>2, <1>4, <1>5 DEF SamePipe
<1>7. /\ Contents(p) = Ring(p.buffer, p.readIdx, p.count, PIPE_BUFFER_SIZE)
      /\ Contents(q) = Ring(b, p.readIdx, p.count + 1, PIPE_BUFFER_SIZE)
  BY <1>2, ContentsIsRing
<1>8. Contents(q) = Append(Contents(p), byte)
  <2>. DEFINE r == p.readIdx
              n == p.count
              a == p.buffer
              e == p.writeIdx
              S == Bytes \cup {0}
  <2>1. /\ Cells(a, PIPE_BUFFER_SIZE, S) /\ r \in 0 .. PIPE_BUFFER_SIZE - 1
        /\ n \in 0 .. PIPE_BUFFER_SIZE - 1 /\ PIPE_BUFFER_SIZE \in Nat \ {0} /\ byte \in S
        /\ e = (r + n) % PIPE_BUFFER_SIZE
    BY <1>1 DEF Cells
  <2>. HIDE DEF r, n, a, e, S
  <2>2. Cells(b, PIPE_BUFFER_SIZE, S) /\ PutAt(a, e, byte, b, PIPE_BUFFER_SIZE)
    <3>1. \A j \in 0 .. PIPE_BUFFER_SIZE - 1 : b[j] = IF j = e THEN byte ELSE a[j]
      BY <1>1 DEF a, e
    <3>. QED BY <1>3, <3>1 DEF Cells, PutAt, S, Index
  <2>. HIDE DEF b
  <2>3. Ring(b, r, n + 1, PIPE_BUFFER_SIZE) = Append(Ring(a, r, n, PIPE_BUFFER_SIZE), byte)
    BY <2>1, <2>2, RingPut
  <2>. QED BY <1>7, <2>3 DEF r, n, a, e
<1>9. Len(Contents(p)) < PIPE_BUFFER_SIZE
  <2>1. Len(Contents(p)) = p.count
    <3>. DEFINE r == p.readIdx
                n == p.count
                a == p.buffer
                S == Bytes \cup {0}
    <3>1. /\ Cells(a, PIPE_BUFFER_SIZE, S) /\ r \in 0 .. PIPE_BUFFER_SIZE - 1
          /\ n \in 0 .. PIPE_BUFFER_SIZE /\ PIPE_BUFFER_SIZE \in Nat \ {0}
      BY <1>1 DEF Cells
    <3>. HIDE DEF r, n, a, S
    <3>2. Len(Ring(a, r, n, PIPE_BUFFER_SIZE)) = n
      BY <3>1, RingType
    <3>. QED BY <1>7, <3>2 DEF r, n, a
  <2>. QED BY <1>1, <2>1
<1>. QED
  BY <1>2, <1>6, <1>8, <1>9

\* A reader that has its token takes a byte, or finds nobody to write one.
LEMMA ReadMutexGood ==
    ASSUME NEW s, NEW m, NEW P, NEW n, NEW C, NEW D, Sharing(s, m, P, n, C), D \in Deliveries,
           NEW i \in Slots, P[i].isOpen, NEW c \in Ctx, c = s.currentProcess,
           C[c].at = "readMutex", C[c].slot = i, NEW B, Elsewhere(B, C, c)
    PROVE  Good(ReadMutex(Of(s, m, P, n, B, D), c, i), P, D)
<1>. DEFINE p == P[i]
<1>1. /\ Table(P, n) /\ PipeInOrder(p, n) /\ p \in Pipe /\ P \in [Slots -> Pipe]
      /\ p.count \in Int /\ 0 <= p.count /\ p.isOpen = TRUE
  <2>1. Table(P, n)
    BY DEF Sharing
  <2>. QED BY <2>1, PipeFields DEF Table, Pipe
<1>2. c # NULL
  BY SchedulerAssumption
<1>3. PICK w : /\ \A A, F : SemWaitOn(Of(s, m, P, n, A, F), p.mutex) = Of(s, w, P, n, A, F)
               /\ \A Q, A, E : SemPostOn(Of(s, w, Q, n, A, E), p.mutex) = Of(s, m, Q, n, A, E)
  BY <1>2, MutexPasses
<1>4. ReadMutex(Of(s, m, P, n, B, D), c, i) = ReadBody(Of(s, w, P, n, B, D), c, i)
  BY <1>3 DEF ReadMutex, Of, Self
<1>5. CASE p.count > 0
  <2>. DEFINE q == [p EXCEPT !.readIdx = Advance(@), !.count = @ - 1]
              e == [byte |-> p.buffer[p.readIdx], flip |-> ~ D[i].flip]
              Q == [P EXCEPT ![i] = q]
              E == [D EXCEPT ![i] = e]
              x == [at |-> "user", slot |-> 0, value |-> p.buffer[p.readIdx]]
  <2>1. /\ SamePipe(p, q) /\ q.count = p.count - 1
        /\ Contents(p) # << >> /\ Head(Contents(p)) = p.buffer[p.readIdx]
        /\ Contents(q) = Tail(Contents(p))
        /\ p.buffer[p.readIdx] \in Bytes \cup {0}
    BY <1>1, <1>5, TakenFromPipe DEF PipeInOrder
  <2>2. x \in Call
    BY <2>1, Ids DEF Call, Points, Slots
  <2>3. Fifo(P, D, Q, E)
    BY <1>1, <2>1, OnePipe, ZenonT(60)
  <2>4. E \in Deliveries
    BY <2>1 DEF Deliveries
  <2>5. ReadBody(Of(s, w, P, n, B, D), c, i)
            = Return(LeaveRead(Of(s, w, Q, n, B, E), p), c, p.buffer[p.readIdx])
    <3>. DEFINE q1 == [p EXCEPT !.readIdx = Advance(@)]
                Q1 == [P EXCEPT ![i].readIdx = Advance(@)]
                Q2 == [Q1 EXCEPT ![i].count = @ - 1]
                E2 == [D EXCEPT ![i] = [byte |-> p.buffer[p.readIdx], flip |-> ~ @.flip]]
    <3>1. ReadBody(Of(s, w, P, n, B, D), c, i)
            = Return(LeaveRead([[[Of(s, w, P, n, B, D)
                    EXCEPT !.pipes[i].readIdx = Advance(@)]
                    EXCEPT !.pipes[i].count = @ - 1]
                    EXCEPT !.delivered[i] = [byte |-> p.buffer[p.readIdx], flip |-> ~ @.flip]], p),
                     c, p.buffer[p.readIdx])
      BY <1>5 DEF ReadBody, Of
    <3>3. [Of(s, w, P, n, B, D) EXCEPT !.pipes[i].readIdx = Advance(@)] = Of(s, w, Q1, n, B, D)
      BY DEF Of
    <3>4. Q1 = [P EXCEPT ![i] = q1] /\ Q1 \in [Slots -> Pipe] /\ Q1[i] = q1
      <4>1. q1 \in Pipe
        <5>1. p.readIdx \in Int /\ PIPE_BUFFER_SIZE \in Nat \ {0}
          BY <1>1, Ids DEF Pipe, Index
        <5>2. Advance(p.readIdx) \in Index
          BY <5>1 DEF Advance, Index
        <5>. QED BY <1>1, <5>2 DEF Pipe
      <4>. HIDE DEF q1
      <4>2. Q1 = [P EXCEPT ![i] = q1]
        BY DEF q1
      <4>. HIDE DEF Q1
      <4>. QED BY <1>1, <4>1, <4>2
    <3>5. [q1 EXCEPT !.count = @ - 1] = q
      BY <1>1 DEF Pipe
    <3>. HIDE DEF Q1, q1
    <3>6. [Of(s, w, Q1, n, B, D) EXCEPT !.pipes[i].count = @ - 1] = Of(s, w, Q2, n, B, D)
      BY DEF Of
    <3>7. Q2 = Q
      <4>1. Q2 = [Q1 EXCEPT ![i] = q]
        BY <3>4, <3>5
      <4>. HIDE DEF Q2, q
      <4>. QED BY <1>1, <3>4, <4>1
    <3>. HIDE DEF Q2, Q
    <3>8. [Of(s, w, Q, n, B, D) EXCEPT
                !.delivered[i] = [byte |-> p.buffer[p.readIdx], flip |-> ~ @.flip]]
            = Of(s, w, Q, n, B, E2)
      BY DEF Of
    <3>9. E2 = E
      OBVIOUS
    <3>. HIDE DEF E2, E
    <3>10. [[[Of(s, w, P, n, B, D)
                    EXCEPT !.pipes[i].readIdx = Advance(@)]
                    EXCEPT !.pipes[i].count = @ - 1]
                    EXCEPT !.delivered[i] = [byte |-> p.buffer[p.readIdx], flip |-> ~ @.flip]]
            = [Of(s, w, Q, n, B, D) EXCEPT
                    !.delivered[i] = [byte |-> p.buffer[p.readIdx], flip |-> ~ @.flip]]
      BY <3>3, <3>6, <3>7
    <3>. QED BY <3>1, <3>8, <3>9, <3>10
  <2>6. C[c].at = "readMutex" /\ P[i].isOpen /\ (Made(P[i]) => q.count = P[i].count - 1)
        /\ SamePipe(P[i], q)
    BY <2>1
  <2>. HIDE DEF q
  <2>10. Posted(s, m, Q, n, [C EXCEPT ![c] = x], p.semWriters)
    BY <2>2, <2>6, TokenSpent, ZenonT(60)
  <2>7. PICK t, u : /\ \A A, F : SemPostOn(Of(s, m, Q, n, A, F), p.semWriters) = Of(t, u, Q, n, A, F)
                    /\ Sharing(t, u, Q, n, [C EXCEPT ![c] = x])
    BY <2>10 DEF Posted
  <2>. HIDE DEF Q, E, x
  <2>8. LeaveRead(Of(s, w, Q, n, B, E), p) = Of(t, u, Q, n, B, E)
    BY <1>3, <2>7 DEF LeaveRead
  <2>9. Return(Of(t, u, Q, n, B, E), c, p.buffer[p.readIdx]) = Of(t, u, Q, n, [C EXCEPT ![c] = x], E)
    <3>1. Return(Of(t, u, Q, n, B, E), c, p.buffer[p.readIdx]) = Of(t, u, Q, n, [B EXCEPT ![c] = x], E)
      BY DEF Return, GoOnAt, Of, x
    <3>. QED BY <3>1 DEF Elsewhere
  <2>. QED BY <1>4, <2>3, <2>4, <2>5, <2>7, <2>8, <2>9 DEF Good
<1>6. CASE ~ (p.count > 0)
  <2>. DEFINE x == [at |-> "readAgain", slot |-> i, value |-> 0]
  <2>1. ~ Made(p)
    BY <1>6, TokenInHand
  <2>2. x \in Call /\ x.at = "readAgain" /\ x.slot = i
    BY DEF Call, Points
  <2>3. ReadBody(Of(s, w, P, n, B, D), c, i) = Of(s, m, P, n, [C EXCEPT ![c] = x], D)
    <3>1. p.writers = 1
      BY <1>1 DEF PipeInOrder
    <3>2. ReadBody(Of(s, w, P, n, B, D), c, i)
            = GoOnAt(SemPostOn(Of(s, w, P, n, B, D), p.mutex), c, "readAgain", i, 0)
      BY <1>6, <3>1 DEF ReadBody, Of
    <3>3. GoOnAt(Of(s, m, P, n, B, D), c, "readAgain", i, 0) = Of(s, m, P, n, [B EXCEPT ![c] = x], D)
      BY DEF GoOnAt, Of
    <3>. QED BY <1>3, <3>2, <3>3 DEF Elsewhere
  <2>4. [P EXCEPT ![i] = p] = P
    BY <1>1
  <2>5. SamePipe(P[i], p)
    BY <1>1 DEF SamePipe, PipeInOrder
  <2>. DEFINE C2 == [C EXCEPT ![c] = x]
              home == Homes(P, C)
              home2 == Homes(P, C2)
  <2>6. /\ Orderly(s, m, home2) /\ CallsInOrder(s, P, C2)
        /\ \A id \in SemIds :
            Supply(s, m, home2, id) = IF id = home[c] THEN Supply(s, m, home, id) - 1
                                                     ELSE Supply(s, m, home, id)
    <3>0. C[c].at \in {"readMutex", "writeMutex"}
      OBVIOUS
    <3>. HIDE DEF x
    <3>1. Orderly(s, m, Homes([P EXCEPT ![i] = p], [C EXCEPT ![c] = x]))
      BY <2>2, <2>5, <3>0, LeavesCall
    <3>2. CallsInOrder(s, [P EXCEPT ![i] = p], [C EXCEPT ![c] = x])
      BY <2>2, <2>5, <3>0, LeavesCall
    <3>3. \A id \in SemIds :
            Supply(s, m, Homes([P EXCEPT ![i] = p], [C EXCEPT ![c] = x]), id)
                = IF id = Homes(P, C)[c] THEN Supply(s, m, Homes(P, C), id) - 1
                                         ELSE Supply(s, m, Homes(P, C), id)
      BY <2>2, <2>5, <3>0, LeavesCall
    <3>. QED BY <2>4, <3>1, <3>2, <3>3
  <2>7. home[c] = p.semReaders
    <3>1. Table(P, n) /\ CallsInOrder(s, P, C)
      BY DEF Sharing
    <3>. HIDE DEF home
    <3>. QED BY <3>1, HomesProperty DEF home
  <2>. HIDE DEF x, home, home2, C2
  <2>8. Balanced(s, m, P, home2)
    <3>1. ASSUME NEW j \in Slots, Made(P[j])
          PROVE  /\ m[P[j].mutex].counter = 1 /\ m[P[j].mutex].waitQueue = << >>
                 /\ P[j].count = Supply(s, m, home2, P[j].semReaders)
                 /\ PIPE_BUFFER_SIZE - P[j].count = Supply(s, m, home2, P[j].semWriters)
      <4>1. j # i /\ P[j].isOpen /\ P[j].semReaders \in SemIds /\ P[j].semWriters \in SemIds
        BY <2>1, <3>1 DEF Made
      <4>2. P[j].semReaders # p.semReaders /\ P[j].semWriters # p.semReaders
        BY <1>1, <4>1, IdsApart
      <4>3. Balanced(s, m, P, home)
        BY DEF Sharing, home
      <4>. QED BY <2>6, <2>7, <3>1, <4>1, <4>2, <4>3 DEF Balanced
    <3>. QED BY <3>1 DEF Balanced
  <2>9. Sharing(s, m, P, n, C2)
    BY <2>6, <2>8 DEF Sharing, home2
  <2>. QED BY <1>4, <2>3, <2>9, SameBytes DEF Good, C2
<1>. QED
  BY <1>5, <1>6

\* A writer that has its token puts its byte, unless its pipe is half made and full.
LEMMA WriteMutexGood ==
    ASSUME NEW s, NEW m, NEW P, NEW n, NEW C, NEW D, Sharing(s, m, P, n, C), D \in Deliveries,
           NEW i \in Slots, P[i].isOpen, NEW c \in Ctx, c = s.currentProcess,
           C[c].at = "writeMutex", C[c].slot = i, NEW B, Elsewhere(B, C, c), NEW byte \in Bytes
    PROVE  Good(WriteMutex(Of(s, m, P, n, B, D), c, i, byte), P, D)
<1>. DEFINE p == P[i]
            x == [at |-> "user", slot |-> 0, value |-> 0]
<1>1. /\ Table(P, n) /\ PipeInOrder(p, n) /\ p \in Pipe /\ P \in [Slots -> Pipe]
      /\ p.isOpen = TRUE
  <2>1. Table(P, n)
    BY DEF Sharing
  <2>. QED BY <2>1, PipeFields DEF Table, Pipe
<1>2. c # NULL
  BY SchedulerAssumption
<1>3. PICK w : /\ \A A, F : SemWaitOn(Of(s, m, P, n, A, F), p.mutex) = Of(s, w, P, n, A, F)
               /\ \A Q, A, E : SemPostOn(Of(s, w, Q, n, A, E), p.mutex) = Of(s, m, Q, n, A, E)
  BY <1>2, MutexPasses
<1>4. WriteMutex(Of(s, m, P, n, B, D), c, i, byte) = WriteBody(Of(s, w, P, n, B, D), c, i, byte)
  BY <1>3 DEF WriteMutex, Of, Self
<1>5. x \in Call
  BY Ids DEF Call, Points, Slots
<1>6. ASSUME NEW q, SamePipe(p, q), Made(p) => q.count = p.count + 1,
             Fifo(P, D, [P EXCEPT ![i] = q], D),
             WriteBody(Of(s, w, P, n, B, D), c, i, byte)
                = Return(LeaveWrite(Of(s, w, [P EXCEPT ![i] = q], n, B, D), p), c, 0)
      PROVE  Good(WriteBody(Of(s, w, P, n, B, D), c, i, byte), P, D)
  <2>. DEFINE Q == [P EXCEPT ![i] = q]
  <2>1. /\ C[c].at = "writeMutex" /\ P[i].isOpen /\ (Made(P[i]) => q.count = P[i].count + 1)
        /\ SamePipe(P[i], q)
    BY <1>6
  <2>2. Posted(s, m, Q, n, [C EXCEPT ![c] = x], p.semReaders)
    BY <1>5, <2>1, TokenSpent
  <2>3. PICK t, u : /\ \A A, F : SemPostOn(Of(s, m, Q, n, A, F), p.semReaders) = Of(t, u, Q, n, A, F)
                    /\ Sharing(t, u, Q, n, [C EXCEPT ![c] = x])
    BY <2>2 DEF Posted
  <2>. HIDE DEF Q, x
  <2>4. LeaveWrite(Of(s, w, Q, n, B, D), p) = Of(t, u, Q, n, B, D)
    BY <1>3, <2>3 DEF LeaveWrite
  <2>5. Return(Of(t, u, Q, n, B, D), c, 0) = Of(t, u, Q, n, [C EXCEPT ![c] = x], D)
    <3>1. Return(Of(t, u, Q, n, B, D), c, 0) = Of(t, u, Q, n, [B EXCEPT ![c] = x], D)
      BY DEF Return, GoOnAt, Of, x
    <3>. QED BY <3>1 DEF Elsewhere
  <2>6. /\ Fifo(P, D, Q, D)
        /\ WriteBody(Of(s, w, P, n, B, D), c, i, byte) = Return(LeaveWrite(Of(s, w, Q, n, B, D), p), c, 0)
    BY <1>6 DEF Q
  <2>. QED BY <2>3, <2>4, <2>5, <2>6 DEF Good
<1>7. CASE p.count < PIPE_BUFFER_SIZE
  <2>. DEFINE q == [p EXCEPT !.buffer[p.writeIdx] = byte, !.writeIdx = Advance(@), !.count = @ + 1]
              Q == [P EXCEPT ![i] = q]
  <2>1. /\ SamePipe(p, q) /\ q.count = p.count + 1
        /\ Len(Contents(p)) < PIPE_BUFFER_SIZE
        /\ Contents(q) = Append(Contents(p), byte)
    BY <1>1, <1>7, PutIntoPipe DEF PipeInOrder
  <2>2. Fifo(P, D, Q, D)
    <3>. HIDE DEF q
    <3>1. Fifo(P, D, [P EXCEPT ![i] = q], [D EXCEPT ![i] = D[i]])
      BY <1>1, <2>1, OnePipe
    <3>2. [D EXCEPT ![i] = D[i]] = D
      BY DEF Deliveries
    <3>. QED BY <3>1, <3>2
  <2>3. WriteBody(Of(s, w, P, n, B, D), c, i, byte)
            = Return(LeaveWrite(Of(s, w, Q, n, B, D), p), c, 0)
    <3>. DEFINE o == Of(s, w, P, n, B, D)
                end == Advance(p.writeIdx)
                more == p.count + 1
                q1 == [p EXCEPT !.buffer[p.writeIdx] = byte]
                q2 == [q1 EXCEPT !.writeIdx = end]
                Q1 == [P EXCEPT ![i].buffer[p.writeIdx] = byte]
                Q2 == [Q1 EXCEPT ![i].writeIdx = end]
                Q3 == [Q2 EXCEPT ![i].count = more]
    <3>1. WriteBody(o, c, i, byte)
            = Return(LeaveWrite([[[o EXCEPT !.pipes[i].buffer[p.writeIdx] = byte]
                                     EXCEPT !.pipes[i].writeIdx = end]
                                     EXCEPT !.pipes[i].count = more], p), c, 0)
      <4>1. o.pipes[i] = p
        BY DEF Of
      <4>. HIDE DEF o, p
      <4>2. WriteBody(o, c, i, byte)
                = Return(LeaveWrite([o EXCEPT !.pipes[i].buffer[p.writeIdx] = byte,
                                              !.pipes[i].writeIdx = end,
                                              !.pipes[i].count    = more], p), c, 0)
        BY <1>7, <4>1 DEF WriteBody
      <4>. HIDE DEF end, more
      <4>3. [o EXCEPT !.pipes[i].buffer[p.writeIdx] = byte,
                      !.pipes[i].writeIdx = end,
                      !.pipes[i].count    = more]
                = [[[o EXCEPT !.pipes[i].buffer[p.writeIdx] = byte]
                       EXCEPT !.pipes[i].writeIdx = end]
                       EXCEPT !.pipes[i].count = more]
        OBVIOUS
      <4>. QED BY <4>2, <4>3
    <3>2. Q1 = [P EXCEPT ![i] = q1] /\ Q1[i] = q1 /\ DOMAIN Q1 = Slots
      <4>1. Q1 = [P EXCEPT ![i] = q1]
        BY <1>1
      <4>. HIDE DEF Q1, q1
      <4>. QED BY <1>1, <4>1
    <3>3. [q2 EXCEPT !.count = more] = q
      BY <1>1 DEF Pipe
    <3>4. [o EXCEPT !.pipes[i].buffer[p.writeIdx] = byte]
            = Of(s, w, Q1, n, B, D)
      BY DEF Of
    <3>. HIDE DEF Q1, q1
    <3>5. Q2 = [Q1 EXCEPT ![i] = q2] /\ Q2[i] = q2 /\ DOMAIN Q2 = Slots
      <4>1. Q2 = [Q1 EXCEPT ![i] = q2]
        BY <3>2
      <4>. HIDE DEF Q2, q2
      <4>. QED BY <3>2, <4>1
    <3>6. [Of(s, w, Q1, n, B, D) EXCEPT !.pipes[i].writeIdx = end] = Of(s, w, Q2, n, B, D)
      BY DEF Of
    <3>. HIDE DEF Q2, q2
    <3>7. [Of(s, w, Q2, n, B, D) EXCEPT !.pipes[i].count = more] = Of(s, w, Q3, n, B, D)
      BY DEF Of
    <3>8. Q3 = Q
      <4>1. Q3 = [Q2 EXCEPT ![i] = q]
        BY <3>3, <3>5
      <4>. HIDE DEF Q3, q
      <4>. QED BY <1>1, <3>2, <3>5, <4>1
    <3>. HIDE DEF Q3, Q, q, o
    <3>9. [[[o
                    EXCEPT !.pipes[i].buffer[p.writeIdx] = byte]
                    EXCEPT !.pipes[i].writeIdx = end]
                    EXCEPT !.pipes[i].count = more]
            = Of(s, w, Q, n, B, D)
      BY <3>4, <3>6, <3>7, <3>8
    <3>. QED BY <3>1, <3>9 DEF o
  <2>. HIDE DEF q
  <2>. QED BY <1>4, <1>6, <2>1, <2>2, <2>3
<1>8. CASE ~ (p.count < PIPE_BUFFER_SIZE)
  <2>1. ~ Made(p)
    BY <1>8, TokenInHand
  <2>2. [P EXCEPT ![i] = p] = P
    BY <1>1
  <2>3. SamePipe(p, p)
    BY <1>1 DEF SamePipe, PipeInOrder
  <2>4. WriteBody(Of(s, w, P, n, B, D), c, i, byte) = Return(LeaveWrite(Of(s, w, P, n, B, D), p), c, 0)
    BY <1>8 DEF WriteBody, Of
  <2>5. Fifo(P, D, P, D)
    BY SameBytes
  <2>6. Good(WriteBody(Of(s, w, P, n, B, D), c, i, byte), P, D)
    BY <1>6, <2>1, <2>2, <2>3, <2>4, <2>5
  <2>. QED BY <1>4, <2>6
<1>. QED
  BY <1>7, <1>8

\* The second call[c] overwrites the first.
LEMMA ElsewhereAgain ==
    ASSUME NEW s, NEW P, NEW C, CallsInOrder(s, P, C), NEW c \in Ctx, NEW x
    PROVE  Elsewhere(C, [C EXCEPT ![c] = x], c) /\ Elsewhere(C, C, c)
BY DEF Elsewhere, CallsInOrder

\* readPipe, from the top of its loop.
LEMMA ReadLoopGood ==
    ASSUME NEW s, NEW m, NEW P, NEW n, NEW C, NEW D, Sharing(s, m, P, n, C), D \in Deliveries,
           NEW i \in Slots, P[i].isOpen, NEW c \in Ctx, c = s.currentProcess,
           s.pid[c] # IDLE_PID, C[c].at \in {"user", "readAgain"}
    PROVE  Good(ReadLoop(Of(s, m, P, n, C, D), c, i), P, D)
<1>. DEFINE p == P[i]
            x == [at |-> "readMutex", slot |-> i, value |-> 0]
            C2 == [C EXCEPT ![c] = x]
<1>1. Waited(s, m, P, n, C2, p.semReaders, c)
  BY TokenWait
<1>2. PICK t, w : /\ \A B, F : SemWaitOn(Of(s, m, P, n, B, F), p.semReaders) = Of(t, w, P, n, B, F)
                  /\ Sharing(t, w, P, n, C2)
                  /\ t.currentProcess = c => t = s
  BY <1>1 DEF Waited
<1>3. Elsewhere(C, C2, c) /\ C2[c] = x
  BY ElsewhereAgain DEF Sharing, CallsInOrder
<1>4. CASE t.currentProcess = c
  <2>1. ReadLoop(Of(s, m, P, n, C, D), c, i) = ReadMutex(Of(t, w, P, n, C, D), c, i)
    BY <1>2, <1>4 DEF ReadLoop, Of, Self
  <2>2. C2[c].at = "readMutex" /\ C2[c].slot = i
    BY <1>3
  <2>. HIDE DEF C2
  <2>3. Good(ReadMutex(Of(t, w, P, n, C, D), c, i), P, D)
    BY <1>2, <1>3, <1>4, <2>2, ReadMutexGood
  <2>. QED BY <2>1, <2>3
<1>5. CASE t.currentProcess # c
  <2>1. ReadLoop(Of(s, m, P, n, C, D), c, i) = GoOnAt(Of(t, w, P, n, C, D), c, "readMutex", i, 0)
    BY <1>2, <1>5 DEF ReadLoop, Of, Self
  <2>2. GoOnAt(Of(t, w, P, n, C, D), c, "readMutex", i, 0) = Of(t, w, P, n, C2, D)
    BY DEF GoOnAt, Of
  <2>. HIDE DEF C2
  <2>. QED BY <1>2, <2>1, <2>2, SameBytes DEF Good
<1>. QED
  BY <1>4, <1>5

\* A call that returns.
LEMMA ReturnSharing ==
    ASSUME NEW s, NEW m, NEW P, NEW n, NEW C, Sharing(s, m, P, n, C),
           NEW c \in Ctx, c = s.currentProcess, C[c].at = "user",
           NEW value \in Bytes \cup Pipes \cup {0, -1}
    PROVE  \E B : /\ \A D : Return(Of(s, m, P, n, C, D), c, value) = Of(s, m, P, n, B, D)
                  /\ Sharing(s, m, P, n, B)
<1>. DEFINE x == [at |-> "user", slot |-> 0, value |-> value]
            C2 == [C EXCEPT ![c] = x]
<1>1. x \in Call
  BY Ids DEF Call, Points, Slots
<1>2. C \in [Ctx -> Call] /\ CallsInOrder(s, P, C) /\ Orderly(s, m, Homes(P, C))
  BY DEF Sharing, CallsInOrder
<1>3. C2 \in [Ctx -> Call] /\ \A d \in Ctx : C2[d] = IF d = c THEN x ELSE C[d]
  BY <1>1, <1>2
<1>4. s.status[c] # "FREED"
  BY <1>2, SchedulerAssumption DEF Orderly, Inv, Cpu
<1>5. ASSUME NEW D
      PROVE  Return(Of(s, m, P, n, C, D), c, value) = Of(s, m, P, n, C2, D)
  BY DEF Return, GoOnAt, Of
<1>. HIDE DEF C2
<1>6. Homes(P, C2) = Homes(P, C)
  <2>1. \A d \in Ctx : d # c => C2[d] = C[d]
    BY <1>3
  <2>2. C2[c].at = "user" /\ C[c].at = "user"
    BY <1>3
  <2>. QED BY <2>1, <2>2 DEF Homes
<1>7. CallsInOrder(s, P, C2)
  BY <1>2, <1>3, <1>4 DEF CallsInOrder
<1>8. Sharing(s, m, P, n, C2)
  BY <1>6, <1>7 DEF Sharing
<1>. QED
  BY <1>5, <1>8

LEMMA ReturnGood ==
    ASSUME NEW s, NEW m, NEW P, NEW n, NEW C, NEW D, Sharing(s, m, P, n, C), D \in Deliveries,
           NEW c \in Ctx, c = s.currentProcess, C[c].at = "user",
           NEW value \in Bytes \cup Pipes \cup {0, -1}
    PROVE  Good(Return(Of(s, m, P, n, C, D), c, value), P, D)
BY ReturnSharing, SameBytes DEF Good

\* The system call that reads.
LEMMA ReadPipeGood ==
    ASSUME NEW s, NEW m, NEW P, NEW n, NEW C, NEW D, Sharing(s, m, P, n, C), D \in Deliveries,
           NEW c \in Ctx, c = s.currentProcess, s.pid[c] # IDLE_PID, C[c].at = "user", NEW fd
    PROVE  Good(ReadPipe(Of(s, m, P, n, C, D), c, fd), P, D)
<1>1. CASE IsOpen(Of(s, m, P, n, C, D), fd)
  <2>. DEFINE i == fd - 3
  <2>1. i \in Slots /\ P[i].isOpen
    BY <1>1 DEF IsOpen, Of
  <2>2. ReadPipe(Of(s, m, P, n, C, D), c, fd) = ReadLoop(Of(s, m, P, n, C, D), c, i)
    BY <1>1 DEF ReadPipe
  <2>. HIDE DEF i
  <2>3. Good(ReadLoop(Of(s, m, P, n, C, D), c, i), P, D)
    BY <2>1, ReadLoopGood
  <2>. QED BY <2>2, <2>3
<1>2. CASE ~ IsOpen(Of(s, m, P, n, C, D), fd)
  <2>1. ReadPipe(Of(s, m, P, n, C, D), c, fd) = Return(Of(s, m, P, n, C, D), c, -1)
    BY <1>2 DEF ReadPipe, EOF
  <2>2. -1 \in Bytes \cup Pipes \cup {0, -1}
    OBVIOUS
  <2>. QED BY <2>1, <2>2, ReturnGood
<1>. QED
  BY <1>1, <1>2

\* The system call that writes.
LEMMA WritePipeGood ==
    ASSUME NEW s, NEW m, NEW P, NEW n, NEW C, NEW D, Sharing(s, m, P, n, C), D \in Deliveries,
           NEW c \in Ctx, c = s.currentProcess, s.pid[c] # IDLE_PID, C[c].at = "user",
           NEW fd, NEW byte \in Bytes
    PROVE  Good(WritePipe(Of(s, m, P, n, C, D), c, fd, byte), P, D)
<1>1. CASE IsOpen(Of(s, m, P, n, C, D), fd)
  <2>. DEFINE i == fd - 3
              x == [at |-> "writeMutex", slot |-> i, value |-> byte]
              C2 == [C EXCEPT ![c] = x]
  <2>1. i \in Slots /\ P[i].isOpen
    BY <1>1 DEF IsOpen, Of
  <2>. HIDE DEF i
  <2>2. Waited(s, m, P, n, C2, P[i].semWriters, c)
    BY <2>1, TokenWait
  <2>3. PICK t, w :
            /\ \A B, F : SemWaitOn(Of(s, m, P, n, B, F), P[i].semWriters) = Of(t, w, P, n, B, F)
            /\ Sharing(t, w, P, n, C2)
            /\ t.currentProcess = c => t = s
    BY <2>2 DEF Waited
  <2>4. Elsewhere(C, C2, c) /\ C2[c] = x
    BY ElsewhereAgain DEF Sharing, CallsInOrder
  <2>5. CASE t.currentProcess = c
    <3>1. WritePipe(Of(s, m, P, n, C, D), c, fd, byte) = WriteMutex(Of(t, w, P, n, C, D), c, i, byte)
      BY <1>1, <2>3, <2>5 DEF WritePipe, Of, Self, i
    <3>2. C2[c].at = "writeMutex" /\ C2[c].slot = i
      BY <2>4
    <3>. HIDE DEF C2
    <3>3. Good(WriteMutex(Of(t, w, P, n, C, D), c, i, byte), P, D)
      BY <2>1, <2>3, <2>4, <2>5, <3>2, WriteMutexGood
    <3>. QED BY <3>1, <3>3
  <2>6. CASE t.currentProcess # c
    <3>1. WritePipe(Of(s, m, P, n, C, D), c, fd, byte)
            = GoOnAt(Of(t, w, P, n, C, D), c, "writeMutex", i, byte)
      BY <1>1, <2>3, <2>6 DEF WritePipe, Of, Self, i
    <3>2. GoOnAt(Of(t, w, P, n, C, D), c, "writeMutex", i, byte) = Of(t, w, P, n, C2, D)
      BY DEF GoOnAt, Of
    <3>. HIDE DEF C2
    <3>. QED BY <2>3, <3>1, <3>2, SameBytes DEF Good
  <2>. QED BY <2>5, <2>6
<1>2. CASE ~ IsOpen(Of(s, m, P, n, C, D), fd)
  <2>1. WritePipe(Of(s, m, P, n, C, D), c, fd, byte) = Return(Of(s, m, P, n, C, D), c, 0)
    BY <1>2 DEF WritePipe
  <2>2. 0 \in Bytes \cup Pipes \cup {0, -1}
    OBVIOUS
  <2>. QED BY <2>1, <2>2, ReturnGood
<1>. QED
  BY <1>1, <1>2

-----------------------------------------------------------------------------
(***************************************************************************)
(* createPipe, which may run out of identifiers after each of the three.   *)
(***************************************************************************)
NewPipe(n) ==
    [ClosedPipe EXCEPT !.isOpen = TRUE, !.readers = 1, !.writers = 1,
                       !.semReaders = n, !.semWriters = n + 1, !.mutex = n + 2]

LEMMA NewPipeFields ==
    ASSUME NEW n \in Nat
    PROVE  /\ NewPipe(n) \in Pipe /\ NewPipe(n).isOpen = TRUE
           /\ NewPipe(n).semReaders = n /\ NewPipe(n).semWriters = n + 1
           /\ NewPipe(n).mutex = n + 2 /\ NewPipe(n).writers = 1 /\ NewPipe(n).count = 0
           /\ NewPipe(n).readIdx = 0 /\ NewPipe(n).writeIdx = 0
           /\ Contents(NewPipe(n)) = << >>
<1>1. /\ NewPipe(n).isOpen = TRUE
      /\ NewPipe(n).semReaders = n /\ NewPipe(n).semWriters = n + 1
      /\ NewPipe(n).mutex = n + 2 /\ NewPipe(n).writers = 1 /\ NewPipe(n).count = 0
      /\ NewPipe(n).readIdx = 0 /\ NewPipe(n).writeIdx = 0
  BY DEF NewPipe, ClosedPipe
<1>2. NewPipe(n) \in Pipe
  <2>1. 0 \in Index /\ 0 \in 0 .. PIPE_BUFFER_SIZE
    BY Ids DEF Index
  <2>2. ClosedPipe \in Pipe
    BY <2>1 DEF ClosedPipe, Pipe
  <2>3. n \in Int /\ n + 1 \in Int /\ n + 2 \in Int
    OBVIOUS
  <2>. DEFINE a == n + 1
              b == n + 2
  <2>. HIDE DEF a, b
  <2>4. NewPipe(n) = [[[[[[ClosedPipe EXCEPT !.isOpen = TRUE] EXCEPT !.readers = 1]
                            EXCEPT !.writers = 1] EXCEPT !.semReaders = n]
                            EXCEPT !.semWriters = a] EXCEPT !.mutex = b]
    BY DEF NewPipe, a, b
  <2>5. a \in Int /\ b \in Int
    BY <2>3 DEF a, b
  <2>. QED BY <2>2, <2>3, <2>4, <2>5 DEF Pipe
<1>3. Contents(NewPipe(n)) = << >>
  <2>1. 1 .. NewPipe(n).count = {}
    BY <1>1
  <2>. QED BY <2>1 DEF Contents
<1>. QED
  BY <1>1, <1>2, <1>3

\* The slot is taken and the identifiers are used up, whatever came of them.
LEMMA PipeAdded ==
    ASSUME NEW s, NEW m, NEW P, NEW n, NEW C, NEW D, Sharing(s, m, P, n, C), D \in Deliveries,
           NEW slot \in Slots, ~ P[slot].isOpen, NEW w, Orderly(s, w, Homes(P, C)),
           Unused(w, n + 3),
           \A j \in SemIds : j < n =>
                w[j] = m[j] /\ Supply(s, w, Homes(P, C), j) = Supply(s, m, Homes(P, C), j),
           {n, n + 1, n + 2} \subseteq SemIds =>
                /\ w[n + 2].counter = 1 /\ w[n + 2].waitQueue = << >>
                /\ Supply(s, w, Homes(P, C), n) = 0
                /\ Supply(s, w, Homes(P, C), n + 1) = PIPE_BUFFER_SIZE
    PROVE  /\ Sharing(s, w, [P EXCEPT ![slot] = NewPipe(n)], n + 3, C)
           /\ Fifo(P, D, [P EXCEPT ![slot] = NewPipe(n)], D)
<1>. DEFINE home == Homes(P, C)
            q == NewPipe(n)
            Q == [P EXCEPT ![slot] = q]
<1>1. /\ Table(P, n) /\ Balanced(s, m, P, home) /\ CallsInOrder(s, P, C)
      /\ P \in [Slots -> Pipe] /\ n \in Nat /\ n >= FIRST_SEM /\ FIRST_SEM \in Nat
  BY Ids DEF Sharing, Table
<1>2. /\ q \in Pipe /\ q.isOpen = TRUE /\ q.semReaders = n /\ q.semWriters = n + 1
      /\ q.mutex = n + 2 /\ q.writers = 1 /\ q.count = 0 /\ q.readIdx = 0 /\ q.writeIdx = 0
      /\ Contents(q) = << >>
  BY <1>1, NewPipeFields
<1>. HIDE DEF q
<1>3. \A j \in Slots : Q[j] = IF j = slot THEN q ELSE P[j]
  BY <1>1
<1>4. Q \in [Slots -> Pipe]
  BY <1>1, <1>2
<1>5. Fifo(P, D, Q, D)
  <2>1. Fifo(P, D, [P EXCEPT ![slot] = q], [D EXCEPT ![slot] = D[slot]])
    BY <1>1, <1>2, OnePipe
  <2>2. [D EXCEPT ![slot] = D[slot]] = D
    BY DEF Deliveries
  <2>. QED BY <2>1, <2>2
<1>. HIDE DEF Q
<1>6. \A j \in Slots : P[j].isOpen => /\ P[j].semReaders \in Int /\ P[j].semReaders + 3 <= n
                                     /\ P[j].semReaders >= FIRST_SEM
                                     /\ PipeInOrder(P[j], n) /\ j # slot
  BY <1>1, PipeFields DEF Table, PipeInOrder
<1>7. Table(Q, n + 3)
  <2>1. PipeInOrder(q, n + 3)
    <3>1. (0 + 0) % PIPE_BUFFER_SIZE = 0
      BY Ids
    <3>. QED BY <1>1, <1>2, <3>1 DEF PipeInOrder
  <2>2. \A j \in Slots : Q[j].isOpen => PipeInOrder(Q[j], n + 3)
    <3>1. ASSUME NEW j \in Slots, P[j].isOpen
          PROVE  PipeInOrder(P[j], n + 3)
      BY <1>1, <1>6, <3>1 DEF PipeInOrder
    <3>. QED BY <1>3, <2>1, <3>1
  <2>3. \A j, h \in Slots : Q[j].isOpen /\ Q[h].isOpen /\ j # h =>
            \/ Q[j].semReaders + 3 <= Q[h].semReaders
            \/ Q[h].semReaders + 3 <= Q[j].semReaders
    <3>1. ASSUME NEW j \in Slots, NEW h \in Slots, Q[j].isOpen, Q[h].isOpen, j # h
          PROVE  \/ Q[j].semReaders + 3 <= Q[h].semReaders
                 \/ Q[h].semReaders + 3 <= Q[j].semReaders
      <4>1. CASE j # slot /\ h # slot
        BY <1>1, <1>3, <3>1, <4>1 DEF Table
      <4>2. CASE j = slot
        BY <1>2, <1>3, <1>6, <3>1, <4>2
      <4>3. CASE h = slot
        BY <1>2, <1>3, <1>6, <3>1, <4>3
      <4>. QED BY <4>1, <4>2, <4>3
    <3>. QED BY <3>1
  <2>. QED BY <1>1, <1>4, <2>2, <2>3 DEF Table
<1>8. \A d \in Ctx : C[d].slot \in Slots /\ (C[d].at # "user" => P[C[d].slot].isOpen)
  BY <1>1 DEF CallsInOrder, Call
<1>9. Homes(Q, C) = home
  <2>1. \A d \in Ctx : C[d].at # "user" => Q[C[d].slot] = P[C[d].slot]
    BY <1>3, <1>6, <1>8
  <2>2. \A d \in Ctx : (IF C[d].at = "readMutex" THEN Q[C[d].slot].semReaders
                        ELSE IF C[d].at = "writeMutex" THEN Q[C[d].slot].semWriters ELSE -1)
                     = (IF C[d].at = "readMutex" THEN P[C[d].slot].semReaders
                        ELSE IF C[d].at = "writeMutex" THEN P[C[d].slot].semWriters ELSE -1)
    BY <2>1
  <2>. QED BY <2>2 DEF Homes
<1>10. CallsInOrder(s, Q, C)
  <2>1. ASSUME NEW d \in Ctx
        PROVE  /\ C[d].at \in {"user", "readMutex", "readAgain", "writeMutex"}
               /\ C[d].at # "user" =>
                      Q[C[d].slot].isOpen /\ s.status[d] # "FREED" /\ s.pid[d] # IDLE_PID
               /\ C[d].at = "writeMutex" => C[d].value \in Bytes
               /\ s.status[d] = "FREED" => C[d] = InProgram
    <3>1. C[d].at # "user" => Q[C[d].slot] = P[C[d].slot]
      BY <1>3, <1>6, <1>8
    <3>. QED BY <1>1, <3>1 DEF CallsInOrder
  <2>. QED BY <1>1, <2>1 DEF CallsInOrder
<1>. HIDE DEF home
<1>11. Balanced(s, w, Q, home)
  <2>1. ASSUME NEW j \in Slots, Made(Q[j])
        PROVE  /\ w[Q[j].mutex].counter = 1 /\ w[Q[j].mutex].waitQueue = << >>
               /\ Q[j].count = Supply(s, w, home, Q[j].semReaders)
               /\ PIPE_BUFFER_SIZE - Q[j].count = Supply(s, w, home, Q[j].semWriters)
    <3>1. CASE j = slot
      <4>1. Q[j] = q
        BY <1>3, <3>1
      <4>2. {n, n + 1, n + 2} \subseteq SemIds
        BY <1>2, <2>1, <4>1 DEF Made
      <4>. QED BY <1>2, <4>1, <4>2, Ids DEF home
    <3>2. CASE j # slot
      <4>1. Q[j] = P[j] /\ P[j].isOpen /\ Made(P[j])
        BY <1>3, <2>1, <3>2 DEF Made
      <4>2. /\ P[j].semReaders \in SemIds /\ P[j].semWriters \in SemIds /\ P[j].mutex \in SemIds
            /\ P[j].semReaders < n /\ P[j].semWriters < n /\ P[j].mutex < n
        BY <1>1, <4>1, IdsApart DEF Made
      <4>3. /\ w[P[j].mutex] = m[P[j].mutex]
            /\ Supply(s, w, home, P[j].semReaders) = Supply(s, m, home, P[j].semReaders)
            /\ Supply(s, w, home, P[j].semWriters) = Supply(s, m, home, P[j].semWriters)
        BY <4>2 DEF home
      <4>. QED BY <1>1, <4>1, <4>3 DEF Balanced
    <3>. QED BY <3>1, <3>2
  <2>. QED BY <2>1 DEF Balanced
<1>. QED
  BY <1>5, <1>7, <1>9, <1>10, <1>11 DEF Sharing, home, Q, q

LEMMA CreatePipeGood ==
    ASSUME NEW s, NEW m, NEW P, NEW n, NEW C, NEW D, Sharing(s, m, P, n, C), D \in Deliveries,
           NEW c \in Ctx, c = s.currentProcess, C[c].at = "user"
    PROVE  Good(CreatePipe(Of(s, m, P, n, C, D), c), P, D)
<1>. DEFINE o == Of(s, m, P, n, C, D)
            free == {i \in Slots : ~ P[i].isOpen}
            slot == Min(free)
            home == Homes(P, C)
            Q == [P EXCEPT ![slot] = NewPipe(n)]
            O(w) == Of(s, w, Q, n + 3, C, D)
            m2 == [m EXCEPT ![n] = Fresh(0)]
            m3 == [m2 EXCEPT ![n + 1] = Fresh(PIPE_BUFFER_SIZE)]
            m4 == [m3 EXCEPT ![n + 2] = Fresh(1)]
<1>1. /\ Table(P, n) /\ Orderly(s, m, home) /\ Unused(m, n) /\ CallsInOrder(s, P, C)
      /\ n \in Nat /\ n >= FIRST_SEM /\ m \in [SemIds -> Semaphore]
      /\ P \in [Slots -> Pipe] /\ PIPE_BUFFER_SIZE \in Nat
  BY Ids DEF Sharing, Table, Orderly
<1>2. CASE free = {}
  <2>1. CreatePipe(o, c) = Return(o, c, -1)
    BY <1>2 DEF CreatePipe, Of
  <2>2. -1 \in Bytes \cup Pipes \cup {0, -1}
    OBVIOUS
  <2>. QED BY <2>1, <2>2, ReturnGood
<1>3. CASE free # {}
  <2>1. slot \in Slots /\ ~ P[slot].isOpen
    <3>1. free \in SUBSET Nat
      BY DEF Slots
    <3>2. slot \in free
      BY <1>3, <3>1, MinProperty
    <3>. QED BY <3>2
  <2>2. slot + 3 \in Pipes
    <3>1. slot \in Nat /\ slot <= MAX_PIPES - 1 /\ MAX_PIPES \in Nat
      BY <2>1, Ids DEF Slots
    <3>. HIDE DEF slot
    <3>. QED BY <3>1, PipesAssumption
  <2>3. [o EXCEPT !.next_sem_id = n + 3, !.pipes[slot] = NewPipe(n)] = O(m)
    <3>. HIDE DEF slot
    <3>1. [o EXCEPT !.next_sem_id = n + 3] = Of(s, m, P, n + 3, C, D)
      BY DEF Of
    <3>2. [Of(s, m, P, n + 3, C, D) EXCEPT !.pipes[slot] = NewPipe(n)] = O(m)
      BY DEF Of
    <3>3. [o EXCEPT !.next_sem_id = n + 3, !.pipes[slot] = NewPipe(n)]
            = [[o EXCEPT !.next_sem_id = n + 3] EXCEPT !.pipes[slot] = NewPipe(n)]
      <4>. HIDE DEF o
      <4>. QED OBVIOUS
    <3>. QED BY <3>1, <3>2, <3>3
  <2>4. CreatePipe(o, c) =
            IF ~ CanMake(O(m), n) THEN Return(O(m), c, -1)
            ELSE IF ~ CanMake(SemCreate(O(m), n, 0), n + 1)
            THEN Return(SemCreate(O(m), n, 0), c, -1)
            ELSE IF ~ CanMake(SemCreate(SemCreate(O(m), n, 0), n + 1, PIPE_BUFFER_SIZE), n + 2)
            THEN Return(SemCreate(SemCreate(O(m), n, 0), n + 1, PIPE_BUFFER_SIZE), c, -1)
            ELSE Return(SemCreate(SemCreate(SemCreate(O(m), n, 0), n + 1, PIPE_BUFFER_SIZE),
                                  n + 2, 1), c, slot + 3)
    <3>1. o.next_sem_id = n /\ o.pipes = P
      BY DEF Of
    <3>. HIDE DEF o, O
    <3>. QED BY <1>3, <2>3, <3>1 DEF CreatePipe, NewPipe
  <2>. HIDE DEF slot
  <2>5. \A w, id : CanMake(O(w), id) <=> id \in SemIds /\ ~ w[id].active
    BY DEF CanMake, Of
  <2>6. \A w, id, value : ~ w[id].active =>
            SemCreate(O(w), id, value) = O([w EXCEPT ![id] = Fresh(value)])
    BY DEF SemCreate, Of, Fresh
  <2>7. /\ n \in SemIds => ~ m[n].active
        /\ n + 1 \in SemIds => ~ m2[n + 1].active /\ n \in SemIds
        /\ n + 2 \in SemIds => ~ m3[n + 2].active /\ n + 1 \in SemIds
    <3>1. \A id \in SemIds : id >= n => ~ m[id].active
      BY <1>1 DEF Unused
    <3>2. /\ n + 2 \in SemIds => n + 1 \in SemIds
          /\ n + 1 \in SemIds => n \in SemIds
      BY <1>1, Ids
    <3>3. n + 1 \in SemIds => m2[n + 1] = m[n + 1]
      BY <1>1
    <3>4. n + 2 \in SemIds => m3[n + 2] = m[n + 2]
      BY <1>1
    <3>. HIDE DEF m2, m3
    <3>. QED BY <1>1, <3>1, <3>2, <3>3, <3>4
  <2>8. \A d \in Ctx : home[d] # n /\ home[d] # n + 1 /\ home[d] # n + 2
    <3>. HIDE DEF home
    <3>1. home \in [Ctx -> Int] /\ \A d \in Ctx : home[d] < n
      BY <1>1, HomesProperty DEF home
    <3>. QED BY <1>1, <3>1
  <2>. HIDE DEF home
  <2>9. n \in SemIds =>
            /\ Orderly(s, m2, home)
            /\ \A j \in SemIds : Supply(s, m2, home, j) = IF j = n THEN 0 ELSE Supply(s, m, home, j)
    <3>1. Nobody(home, n) /\ 0 \in Nat
      BY <2>8 DEF Nobody
    <3>2. n \in SemIds => Orderly(s, m2, home)
      BY <1>1, <3>1, OrderlySemCreate
    <3>3. n \in SemIds => \A j \in SemIds :
            Supply(s, m2, home, j) = IF j = n THEN 0 ELSE Supply(s, m, home, j)
      <4>1. ASSUME n \in SemIds, NEW value \in Nat
            PROVE  \A j \in SemIds : Supply(s, [m EXCEPT ![n] = Fresh(value)], home, j)
                                        = IF j = n THEN value ELSE Supply(s, m, home, j)
        <5>1. Orderly(s, m, home) /\ Nobody(home, n)
          BY <1>1, <3>1
        <5>. QED BY <4>1, <5>1, OrderlySemCreate
      <4>. QED BY <4>1
    <3>. QED BY <3>2, <3>3
  <2>10. n \in SemIds => \A j \in SemIds : m2[j] = IF j = n THEN Fresh(0) ELSE m[j]
    BY <1>1
  <2>. HIDE DEF m2
  <2>11. n + 1 \in SemIds =>
            /\ Orderly(s, m3, home)
            /\ \A j \in SemIds : Supply(s, m3, home, j)
                    = IF j = n + 1 THEN PIPE_BUFFER_SIZE ELSE Supply(s, m2, home, j)
    <3>1. Nobody(home, n + 1)
      BY <2>8 DEF Nobody
    <3>2. n + 1 \in SemIds => Orderly(s, m3, home)
      BY <1>1, <2>7, <2>9, <3>1, OrderlySemCreate
    <3>3. n + 1 \in SemIds => \A j \in SemIds :
            Supply(s, m3, home, j) = IF j = n + 1 THEN PIPE_BUFFER_SIZE ELSE Supply(s, m2, home, j)
      BY <1>1, <2>7, <2>9, <3>1, OrderlySemCreate
    <3>. QED BY <3>2, <3>3
  <2>12. n + 1 \in SemIds =>
            \A j \in SemIds : m3[j] = IF j = n + 1 THEN Fresh(PIPE_BUFFER_SIZE) ELSE m2[j]
    BY <1>1, <2>7, <2>9 DEF Orderly
  <2>. HIDE DEF m3
  <2>13. n + 2 \in SemIds =>
            /\ Orderly(s, m4, home)
            /\ \A j \in SemIds : Supply(s, m4, home, j)
                    = IF j = n + 2 THEN 1 ELSE Supply(s, m3, home, j)
    <3>1. Nobody(home, n + 2) /\ 1 \in Nat
      BY <2>8 DEF Nobody
    <3>2. n + 2 \in SemIds => Orderly(s, m4, home)
      BY <1>1, <2>7, <2>11, <3>1, OrderlySemCreate
    <3>3. n + 2 \in SemIds => \A j \in SemIds :
            Supply(s, m4, home, j) = IF j = n + 2 THEN 1 ELSE Supply(s, m3, home, j)
      BY <1>1, <2>7, <2>11, <3>1, OrderlySemCreate
    <3>. QED BY <3>2, <3>3
  <2>14. n + 2 \in SemIds =>
            \A j \in SemIds : m4[j] = IF j = n + 2 THEN Fresh(1) ELSE m3[j]
    BY <1>1, <2>7, <2>11 DEF Orderly
  <2>. HIDE DEF m4
  <2>15. ASSUME NEW w, Orderly(s, w, home), NEW value \in Bytes \cup Pipes \cup {0, -1},
                \A j \in SemIds : j >= n + 3 => w[j] = m[j],
                \A j \in SemIds : j < n =>
                    w[j] = m[j] /\ Supply(s, w, home, j) = Supply(s, m, home, j),
                {n, n + 1, n + 2} \subseteq SemIds =>
                    /\ w[n + 2].counter = 1 /\ w[n + 2].waitQueue = << >>
                    /\ Supply(s, w, home, n) = 0
                    /\ Supply(s, w, home, n + 1) = PIPE_BUFFER_SIZE
         PROVE  Good(Return(O(w), c, value), P, D)
    <3>1. Unused(w, n + 3)
      BY <1>1, <2>15, Ids DEF Unused
    <3>2. Sharing(s, w, Q, n + 3, C) /\ Fifo(P, D, Q, D)
      BY <2>1, <2>15, <3>1, PipeAdded DEF home
    <3>. HIDE DEF Q
    <3>3. PICK B : /\ \A F : Return(Of(s, w, Q, n + 3, C, F), c, value) = Of(s, w, Q, n + 3, B, F)
                   /\ Sharing(s, w, Q, n + 3, B)
      BY <3>2, ReturnSharing
    <3>. QED BY <3>2, <3>3 DEF Good
  <2>16. -1 \in Bytes \cup Pipes \cup {0, -1} /\ slot + 3 \in Bytes \cup Pipes \cup {0, -1}
    BY <2>2
  <2>17. CASE n \notin SemIds
    <3>1. CreatePipe(o, c) = Return(O(m), c, -1)
      <4>. HIDE DEF o, O
      <4>. QED BY <2>4, <2>5, <2>17
    <3>2. Good(Return(O(m), c, -1), P, D)
      <4>. HIDE DEF O
      <4>. QED BY <1>1, <2>15, <2>16, <2>17
    <3>. QED BY <3>1, <3>2
  <2>18. CASE n \in SemIds /\ n + 1 \notin SemIds
    <3>1. CreatePipe(o, c) = Return(O(m2), c, -1)
      <4>. HIDE DEF o, O
      <4>1. SemCreate(O(m), n, 0) = O(m2)
        BY <2>6, <2>7, <2>18 DEF m2
      <4>. QED BY <2>4, <2>5, <2>7, <2>18, <4>1
    <3>2. Good(Return(O(m2), c, -1), P, D)
      <4>. HIDE DEF O
      <4>. QED BY <1>1, <2>9, <2>10, <2>15, <2>16, <2>18, Ids
    <3>. QED BY <3>1, <3>2
  <2>19. CASE n + 1 \in SemIds /\ n + 2 \notin SemIds
    <3>1. CreatePipe(o, c) = Return(O(m3), c, -1)
      <4>. HIDE DEF o, O
      <4>1. SemCreate(O(m), n, 0) = O(m2)
        BY <2>6, <2>7, <2>19 DEF m2
      <4>2. SemCreate(O(m2), n + 1, PIPE_BUFFER_SIZE) = O(m3)
        BY <2>6, <2>7, <2>19 DEF m3
      <4>. QED BY <2>4, <2>5, <2>7, <2>19, <4>1, <4>2
    <3>2. Good(Return(O(m3), c, -1), P, D)
      <4>. HIDE DEF O
      <4>. QED BY <1>1, <2>7, <2>9, <2>10, <2>11, <2>12, <2>15, <2>16, <2>19, Ids
    <3>. QED BY <3>1, <3>2
  <2>20. CASE n + 2 \in SemIds
    <3>1. CreatePipe(o, c) = Return(O(m4), c, slot + 3)
      <4>. HIDE DEF o, O
      <4>1. SemCreate(O(m), n, 0) = O(m2)
        BY <2>6, <2>7, <2>20 DEF m2
      <4>2. SemCreate(O(m2), n + 1, PIPE_BUFFER_SIZE) = O(m3)
        BY <2>6, <2>7, <2>20 DEF m3
      <4>3. SemCreate(O(m3), n + 2, 1) = O(m4)
        BY <2>6, <2>7, <2>20 DEF m4
      <4>. QED BY <2>4, <2>5, <2>7, <2>20, <4>1, <4>2, <4>3
    <3>2. Good(Return(O(m4), c, slot + 3), P, D)
      <4>1. m4[n + 2].counter = 1 /\ m4[n + 2].waitQueue = << >>
        BY <2>14, <2>20 DEF Fresh
      <4>2. /\ Supply(s, m4, home, n) = 0
            /\ Supply(s, m4, home, n + 1) = PIPE_BUFFER_SIZE
        BY <1>1, <2>7, <2>9, <2>11, <2>13, <2>20
      <4>3. \A j \in SemIds : j >= n + 3 => m4[j] = m[j]
        BY <1>1, <2>7, <2>10, <2>12, <2>14, <2>20, Ids
      <4>4. \A j \in SemIds : j < n =>
                m4[j] = m[j] /\ Supply(s, m4, home, j) = Supply(s, m, home, j)
        BY <1>1, <2>7, <2>9, <2>10, <2>11, <2>12, <2>13, <2>14, <2>20, Ids
      <4>. HIDE DEF O
      <4>. QED BY <2>13, <2>15, <2>16, <2>20, <4>1, <4>2, <4>3, <4>4
    <3>. QED BY <3>1, <3>2
  <2>. QED BY <2>17, <2>18, <2>19, <2>20
<1>. QED
  BY <1>2, <1>3

-----------------------------------------------------------------------------
(***************************************************************************)
(* The scheduler's own steps.                                              *)
(***************************************************************************)

\* Everybody keeps his place, and every semaphore what it has to give.
LEMMA SchedulerSharing ==
    ASSUME NEW s, NEW m, NEW P, NEW n, NEW C, Sharing(s, m, P, n, C), NEW t,
           Orderly(t, m, Homes(P, C)),
           \A id \in SemIds : Supply(t, m, Homes(P, C), id) = Supply(s, m, Homes(P, C), id),
           CallsInOrder(t, P, C)
    PROVE  Sharing(t, m, P, n, C)
<1>. DEFINE home == Homes(P, C)
<1>1. /\ Table(P, n) /\ Unused(m, n) /\ Balanced(s, m, P, home)
  BY DEF Sharing
<1>2. Balanced(t, m, P, home)
  <2>1. \A i \in Slots : Made(P[i]) => P[i].semReaders \in SemIds /\ P[i].semWriters \in SemIds
    BY DEF Made
  <2>. QED BY <1>1, <2>1 DEF Balanced
<1>. QED
  BY <1>1, <1>2 DEF Sharing

LEMMA TickSharing ==
    ASSUME NEW s, NEW m, NEW P, NEW n, NEW C, Sharing(s, m, P, n, C), NEW t, t = Schedule(s)
    PROVE  Sharing(t, m, P, n, C)
<1>. DEFINE home == Homes(P, C)
<1>1. Orderly(s, m, home) /\ CallsInOrder(s, P, C)
  BY DEF Sharing
<1>2. Inv(t) /\ Steady(s, t)
  BY <1>1, ScheduleInv, ScheduleSteady DEF Orderly
<1>3. Orderly(t, m, home)
  BY <1>1, <1>2, OrderlySteady
<1>4. \A id \in SemIds : Supply(t, m, home, id) = Supply(s, m, home, id)
  BY <1>1, <1>2, OrderlySteady
<1>5. CallsInOrder(t, P, C)
  BY <1>1, <1>2 DEF CallsInOrder, Steady
<1>. QED
  BY <1>3, <1>4, <1>5, SchedulerSharing

LEMMA CreateSharing ==
    ASSUME NEW s, NEW m, NEW P, NEW n, NEW C, Sharing(s, m, P, n, C),
           NEW c \in Ctx, s.status[c] = "FREED",
           NEW pid \in Pids, IsMinFreePid(s, pid), NEW program \in AnyProgram,
           NEW t, t = CreateProcess(s, c, pid, program)
    PROVE  Sharing(t, m, P, n, C)
<1>. DEFINE home == Homes(P, C)
<1>1. Orderly(s, m, home) /\ CallsInOrder(s, P, C) /\ C[c] = InProgram
  BY DEF Sharing, CallsInOrder
<1>2. home[c] \notin SemIds
  BY <1>1, Ids DEF Homes, InProgram
<1>3. /\ t.status[c] = "READY"
      /\ \A d \in Ctx : d # c => t.status[d] = s.status[d] /\ t.pid[d] = s.pid[d]
  <2>1. Inv(s)
    BY <1>1 DEF Orderly
  <2>. QED BY <2>1, ProcessCreated
<1>. HIDE DEF home
<1>4. Orderly(t, m, home)
  BY <1>1, <1>2, OrderlyCreate
<1>5. \A id \in SemIds : Supply(t, m, home, id) = Supply(s, m, home, id)
  BY <1>1, <1>2, OrderlyCreate
<1>6. CallsInOrder(t, P, C)
  <2>1. C[c].at = "user"
    BY <1>1 DEF InProgram
  <2>. QED BY <1>1, <1>3, <2>1 DEF CallsInOrder
<1>. QED
  BY <1>4, <1>5, <1>6, SchedulerSharing DEF home

LEMMA InitUndead ==
    ASSUME Init
    PROVE  Undead(k)
<1>1. Inv(k) /\ k.currentProcess = NULL
  BY InitInv
<1>2. \A c \in Ctx : k.status[c] = "TERMINATED" => c = NULL
  BY <1>1 DEF Inv, Cpu
<1>. QED
  BY <1>2, SchedulerAssumption DEF Undead

-----------------------------------------------------------------------------
(***************************************************************************)
(* The specification.                                                      *)
(***************************************************************************)
LEMMA PipeInitInv ==
    ASSUME PipeInit
    PROVE  PipeInv
<1>. DEFINE home == Homes(pipes, call)
<1>1. /\ pipes = [i \in Slots |-> ClosedPipe] /\ next_sem_id = FIRST_SEM
      /\ call = [c \in Ctx |-> InProgram] /\ sems = [id \in SemIds |-> Inactive]
      /\ delivered = [i \in Slots |-> [byte |-> 0, flip |-> FALSE]] /\ Init
  BY DEF PipeInit, SemInit
<1>2. /\ \A i \in Slots : pipes[i] = ClosedPipe /\ pipes[i].isOpen = FALSE
      /\ \A c \in Ctx : call[c] = InProgram /\ call[c].at = "user"
      /\ \A id \in SemIds : sems[id] = Inactive
  BY <1>1 DEF ClosedPipe, InProgram
<1>3. pipes \in [Slots -> Pipe]
  <2>1. 0 \in Index /\ 0 \in 0 .. PIPE_BUFFER_SIZE
    BY Ids DEF Index
  <2>2. ClosedPipe \in Pipe
    BY <2>1 DEF ClosedPipe, Pipe
  <2>. HIDE DEF ClosedPipe
  <2>. QED BY <1>1, <2>2
<1>4. Table(pipes, next_sem_id)
  BY <1>1, <1>2, <1>3, Ids DEF Table
<1>5. CallsInOrder(k, pipes, call)
  <2>1. InProgram \in Call
    BY Ids DEF InProgram, Call, Points, Slots
  <2>2. call \in [Ctx -> Call]
    BY <1>1, <2>1
  <2>. QED BY <1>2, <2>2 DEF CallsInOrder
<1>6. Unused(sems, next_sem_id)
  BY <1>2 DEF Unused, Inactive
<1>7. Balanced(k, sems, pipes, home)
  BY <1>2 DEF Balanced, Made
<1>8. Orderly(k, sems, home)
  <2>1. Inv(k) /\ Undead(k)
    BY <1>1, InitInv, InitUndead
  <2>2. Inactive \in Semaphore /\ Inactive.counter = 0 /\ Inactive.waitQueue = << >>
    BY DEF Inactive, Semaphore
  <2>3. sems \in [SemIds -> Semaphore]
    BY <1>1, <2>2
  <2>4. home \in [Ctx -> Int]
    <3>. HIDE DEF home
    <3>. QED BY <1>4, <1>5, HomesProperty DEF home
  <2>5. QueuesInOrder(k, sems, home)
    <3>1. IsInjective(<< >>) /\ ToSet(<< >>) = {}
      BY DEF IsInjective, ToSet
    <3>. HIDE DEF home
    <3>. QED BY <1>2, <2>2, <3>1 DEF QueuesInOrder
  <2>. QED BY <2>1, <2>3, <2>4, <2>5 DEF Orderly
<1>9. delivered \in Deliveries
  BY <1>1 DEF Deliveries
<1>. QED
  BY <1>4, <1>5, <1>6, <1>7, <1>8, <1>9 DEF PipeInv, Sharing

\* An action ends in a state in order, when its handler does.
LEMMA FollowsGood ==
    ASSUME NEW o, Good(o, pipes, delivered), Follows(o)
    PROVE  PipeInv' /\ Fifo(pipes, delivered, pipes', delivered')
<1>1. PICK t, w, Q, n, C, E : /\ o = Of(t, w, Q, n, C, E)
                              /\ Sharing(t, w, Q, n, C) /\ E \in Deliveries
                              /\ Fifo(pipes, delivered, Q, E)
  BY DEF Good
<1>2. /\ k' = t /\ sems' = w /\ pipes' = Q /\ next_sem_id' = n /\ delivered' = E
      /\ call' = [c \in Ctx |-> IF t.status[c] = "FREED" THEN InProgram ELSE C[c]]
  BY <1>1 DEF Follows, Of
<1>3. call' = C
  <2>1. C \in [Ctx -> Call] /\ \A c \in Ctx : t.status[c] = "FREED" => C[c] = InProgram
    BY <1>1 DEF Sharing, CallsInOrder
  <2>2. \A c \in Ctx : (IF t.status[c] = "FREED" THEN InProgram ELSE C[c]) = C[c]
    BY <2>1
  <2>. QED BY <1>2, <2>1, <2>2
<1>. QED
  BY <1>1, <1>2, <1>3 DEF PipeInv

LEMMA ResumeGood ==
    ASSUME PipeInv, ~ InterruptsOn, NEW o \in Resume(Here, k.currentProcess)
    PROVE  Good(o, pipes, delivered)
<1>. DEFINE c == k.currentProcess
            i == call[c].slot
            b == call[c].value
            here == Of(k, sems, pipes, next_sem_id, call, delivered)
<1>1. /\ Sharing(k, sems, pipes, next_sem_id, call) /\ delivered \in Deliveries
      /\ CallsInOrder(k, pipes, call)
  BY DEF PipeInv, Sharing
<1>2. c \in Ctx /\ call[c].at # "user"
  BY DEF InterruptsOn
<1>3. /\ call[c].at \in {"readMutex", "readAgain", "writeMutex"}
      /\ pipes[i].isOpen /\ k.pid[c] # IDLE_PID
      /\ call[c].at = "writeMutex" => b \in Bytes
  BY <1>1, <1>2 DEF CallsInOrder
<1>4. i \in Slots
  BY <1>1, <1>2 DEF CallsInOrder, Call
<1>5. Elsewhere(call, call, c)
  BY <1>1, <1>2, ElsewhereAgain
<1>6. Here = here /\ here.call = call
  BY DEF Here, Of
<1>7. o \in Resume(here, c)
  BY <1>6
<1>. HIDE DEF here
<1>8. CASE call[c].at = "readMutex"
  <2>1. o = ReadMutex(here, c, i)
    BY <1>6, <1>7, <1>8 DEF Resume
  <2>. HIDE DEF c, i
  <2>2. Good(ReadMutex(here, c, i), pipes, delivered)
    BY <1>1, <1>2, <1>3, <1>4, <1>5, <1>8, ReadMutexGood DEF here, c, i
  <2>. QED BY <2>1, <2>2
<1>9. CASE call[c].at = "readAgain"
  <2>1. o = ReadLoop(here, c, i)
    BY <1>6, <1>7, <1>9 DEF Resume
  <2>. HIDE DEF c, i
  <2>2. Good(ReadLoop(here, c, i), pipes, delivered)
    BY <1>1, <1>2, <1>3, <1>4, <1>9, ReadLoopGood DEF here, c, i
  <2>. QED BY <2>1, <2>2
<1>10. CASE call[c].at = "writeMutex"
  <2>1. o = WriteMutex(here, c, i, b)
    BY <1>6, <1>7, <1>10 DEF Resume
  <2>. HIDE DEF c, i, b
  <2>2. Good(WriteMutex(here, c, i, b), pipes, delivered)
    BY <1>1, <1>2, <1>3, <1>4, <1>5, <1>10, WriteMutexGood DEF here, c, i, b
  <2>. QED BY <2>1, <2>2
<1>. QED
  BY <1>3, <1>8, <1>9, <1>10

\* The kernel's own step: nothing but the scheduler changes.
LEMMA KernelGood ==
    ASSUME PipeInv, NEW t, Sharing(t, sems, pipes, next_sem_id, call)
    PROVE  Good([Here EXCEPT !.k = t], pipes, delivered)
<1>1. [Here EXCEPT !.k = t] = Of(t, sems, pipes, next_sem_id, call, delivered)
  BY DEF Here, Of
<1>2. Fifo(pipes, delivered, pipes, delivered)
  BY SameBytes
<1>. QED
  BY <1>1, <1>2 DEF Good, PipeInv

\* Every action keeps the invariant, and is to each pipe a step of the channel.
LEMMA SharingStep ==
    ASSUME PipeInv, [SharingNext]_pipeVars
    PROVE  PipeInv' /\ Fifo(pipes, delivered, pipes', delivered')
<1>. DEFINE c == k.currentProcess
            here == Of(k, sems, pipes, next_sem_id, call, delivered)
<1>1. /\ Sharing(k, sems, pipes, next_sem_id, call) /\ delivered \in Deliveries
      /\ Inv(k)
  BY DEF PipeInv, Sharing, Orderly
<1>2. Here = here
  BY DEF Here, Of
<1>. HIDE DEF here
<1>3. ASSUME ProgramRuns
      PROVE  c \in Ctx /\ call[c].at = "user" /\ k.pid[c] # IDLE_PID
  BY <1>1, <1>3 DEF ProgramRuns, UserRuns, InterruptsOn, Inv, Common, Kernel
<1>4. CASE ResumeCall
  BY <1>4, ResumeGood, FollowsGood DEF ResumeCall
<1>5. CASE PipeTick
  <2>1. Follows([Here EXCEPT !.k = Schedule(k)])
    BY <1>5 DEF PipeTick, Here
  <2>2. Sharing(Schedule(k), sems, pipes, next_sem_id, call)
    BY <1>1, TickSharing
  <2>. QED BY <2>1, <2>2, KernelGood, FollowsGood
<1>6. CASE SyscallPipeCreate
  <2>1. Follows(CreatePipe(here, c)) /\ c \in Ctx /\ call[c].at = "user"
    BY <1>2, <1>3, <1>6 DEF SyscallPipeCreate
  <2>. HIDE DEF c
  <2>2. Good(CreatePipe(here, c), pipes, delivered)
    BY <1>1, <2>1, CreatePipeGood DEF here, c
  <2>. QED BY <2>1, <2>2, FollowsGood
<1>7. ASSUME NEW fd \in Pipes, SyscallPipeRead(fd)
      PROVE  PipeInv' /\ Fifo(pipes, delivered, pipes', delivered')
  <2>1. Follows(ReadPipe(here, c, fd)) /\ c \in Ctx /\ call[c].at = "user" /\ k.pid[c] # IDLE_PID
    BY <1>2, <1>3, <1>7 DEF SyscallPipeRead
  <2>. HIDE DEF c
  <2>2. Good(ReadPipe(here, c, fd), pipes, delivered)
    BY <1>1, <2>1, ReadPipeGood DEF here, c
  <2>. QED BY <2>1, <2>2, FollowsGood
<1>8. ASSUME NEW fd \in Pipes, NEW byte \in Bytes, SyscallPipeWrite(fd, byte)
      PROVE  PipeInv' /\ Fifo(pipes, delivered, pipes', delivered')
  <2>1. Follows(WritePipe(here, c, fd, byte)) /\ c \in Ctx /\ call[c].at = "user"
        /\ k.pid[c] # IDLE_PID
    BY <1>2, <1>3, <1>8 DEF SyscallPipeWrite
  <2>. HIDE DEF c
  <2>2. Good(WritePipe(here, c, fd, byte), pipes, delivered)
    BY <1>1, <2>1, WritePipeGood DEF here, c
  <2>. QED BY <2>1, <2>2, FollowsGood
<1>9. ASSUME NEW program \in Programs, PipeCreateProcess(program)
      PROVE  PipeInv' /\ Fifo(pipes, delivered, pipes', delivered')
  <2>1. PICK d \in Ctx : \E pid \in Pids :
            /\ k.status[d] = "FREED" /\ IsMinFreePid(k, pid)
            /\ Follows([Here EXCEPT !.k = CreateProcess(k, d, pid, program)])
    BY <1>9 DEF PipeCreateProcess, Here
  <2>2. PICK pid \in Pids :
            /\ k.status[d] = "FREED" /\ IsMinFreePid(k, pid)
            /\ Follows([Here EXCEPT !.k = CreateProcess(k, d, pid, program)])
    BY <2>1
  <2>3. Sharing(CreateProcess(k, d, pid, program), sems, pipes, next_sem_id, call)
    BY <1>1, <2>2, CreateSharing, ProgramsAssumption
  <2>. QED BY <2>2, <2>3, KernelGood, FollowsGood
<1>10. CASE UNCHANGED pipeVars
  <2>1. PipeInv'
    BY <1>10 DEF PipeInv, pipeVars
  <2>2. Fifo(pipes, delivered, pipes, delivered)
    BY SameBytes
  <2>. QED BY <1>10, <2>1, <2>2 DEF pipeVars
<1>. QED
  BY <1>4, <1>5, <1>6, <1>7, <1>8, <1>9, <1>10 DEF SharingNext

THEOREM SharingInvariantHolds == SharingSpec => []PipeInv
<1>1. PipeInit => PipeInv
  BY PipeInitInv
<1>2. PipeInv /\ [SharingNext]_pipeVars => PipeInv'
  BY SharingStep
<1>. QED
  BY <1>1, <1>2, PTL DEF SharingSpec

\* Who was let through at a semaphore of a pipe goes on in a call on that pipe.
LEMMA GrantedIsAwakened ==
    ASSUME PipeInv, NEW i \in Slots, Made(pipes[i])
    PROVE  /\ Granted(i, "readMutex")
                = Awakened(k, Homes(pipes, call), pipes[i].semReaders)
           /\ Granted(i, "writeMutex")
                = Awakened(k, Homes(pipes, call), pipes[i].semWriters)
<1>. DEFINE home == Homes(pipes, call)
            r == pipes[i].semReaders
            w == pipes[i].semWriters
<1>1. Table(pipes, next_sem_id) /\ CallsInOrder(k, pipes, call)
  BY DEF PipeInv, Sharing
<1>2. pipes[i].isOpen /\ r # -1 /\ w # -1
  BY Ids DEF Made
<1>3. ASSUME NEW c \in Ctx
      PROVE  /\ home[c] = r <=> call[c].at = "readMutex" /\ call[c].slot = i
             /\ home[c] = w <=> call[c].at = "writeMutex" /\ call[c].slot = i
  <2>. DEFINE j == call[c].slot
  <2>1. /\ j \in Slots
        /\ call[c].at \in {"user", "readAgain"} => home[c] = -1
        /\ call[c].at = "readMutex" => home[c] = pipes[j].semReaders
        /\ call[c].at = "writeMutex" => home[c] = pipes[j].semWriters
    BY <1>1, HomesProperty
  <2>2. /\ call[c].at \in {"user", "readMutex", "readAgain", "writeMutex"}
        /\ call[c].at # "user" => pipes[j].isOpen
    BY <1>1 DEF CallsInOrder
  <2>. HIDE DEF j, home
  <2>3. pipes[j].isOpen =>
            /\ r # pipes[j].semWriters /\ pipes[j].semReaders # w
            /\ i # j => r # pipes[j].semReaders /\ w # pipes[j].semWriters
    BY <1>1, <1>2, <2>1, IdsApart
  <2>. QED BY <1>2, <2>1, <2>2, <2>3 DEF j
<1>. HIDE DEF home
<1>4. Granted(i, "readMutex") = Awakened(k, home, r)
  BY <1>3 DEF Granted, Awakened
<1>5. Granted(i, "writeMutex") = Awakened(k, home, w)
  BY <1>3 DEF Granted, Awakened
<1>. QED
  BY <1>4, <1>5 DEF home

\* A reader does not sleep on data nor come back with none, for any pipes and
\* any number of processes that share them.
THEOREM DataTokensCorrect == SharingSpec => []TokensMatchData
<1>1. PipeInv => TokensMatchData
  <2>. SUFFICES ASSUME PipeInv, NEW i \in Slots, Made(pipes[i])
                PROVE  pipes[i].count = sems[pipes[i].semReaders].counter
                                            + Cardinality(Granted(i, "readMutex"))
    BY DEF TokensMatchData
  <2>1. pipes[i].count = Supply(k, sems, Homes(pipes, call), pipes[i].semReaders)
    BY DEF PipeInv, Sharing, Balanced
  <2>. QED BY <2>1, GrantedIsAwakened DEF Supply
<1>. QED
  BY <1>1, SharingInvariantHolds, PTL

\* A writer does not sleep on a buffer with room nor lose its byte to a full one.
THEOREM RoomTokensCorrect == SharingSpec => []TokensMatchRoom
<1>1. PipeInv => TokensMatchRoom
  <2>. SUFFICES ASSUME PipeInv, NEW i \in Slots, Made(pipes[i])
                PROVE  PIPE_BUFFER_SIZE - pipes[i].count
                            = sems[pipes[i].semWriters].counter
                                + Cardinality(Granted(i, "writeMutex"))
    BY DEF TokensMatchRoom
  <2>1. PIPE_BUFFER_SIZE - pipes[i].count
            = Supply(k, sems, Homes(pipes, call), pipes[i].semWriters)
    BY DEF PipeInv, Sharing, Balanced
  <2>. QED BY <2>1, GrantedIsAwakened DEF Supply
<1>. QED
  BY <1>1, SharingInvariantHolds, PTL

\* No process blocks with the mutex of a pipe in its hands, so none ever blocks
\* on that mutex.
THEOREM MutexCorrect == SharingSpec => []MutexIsFree
<1>1. PipeInv => MutexIsFree
  <2>. SUFFICES ASSUME PipeInv, NEW i \in Slots, pipes[i].isOpen, pipes[i].mutex \in SemIds
                PROVE  /\ sems[pipes[i].mutex].counter = 1
                       /\ sems[pipes[i].mutex].waitQueue = << >>
    BY DEF MutexIsFree
  <2>1. Table(pipes, next_sem_id)
    BY DEF PipeInv, Sharing
  <2>2. Made(pipes[i])
    BY <2>1, MutexIsMade
  <2>. QED BY <2>2 DEF PipeInv, Sharing, Balanced
<1>. QED
  BY <1>1, SharingInvariantHolds, PTL

\* A pipe is an instance of ByteChannel: reads return the bytes in the order
\* they were written, each once, and no more than PIPE_BUFFER_SIZE wait.
THEOREM PipesImplementChannels == SharingSpec => PipesAreFifo
<1>1. PipeInit => \A i \in Slots : Channel(i)!Init
  <2>. SUFFICES ASSUME PipeInit, NEW i \in Slots
                PROVE  Contents(pipes[i]) = << >> /\ delivered[i].flip = FALSE
    BY DEF Channel!Init
  <2>1. pipes[i].count = 0 /\ delivered[i] = [byte |-> 0, flip |-> FALSE]
    BY DEF PipeInit, ClosedPipe
  <2>2. Contents(pipes[i]) = << >>
    BY <2>1 DEF Contents
  <2>. QED BY <2>1, <2>2
<1>2. PipeInv /\ [SharingNext]_pipeVars => [\A i \in Slots : Channel(i)!Step]_pipeVars
  <2>. SUFFICES ASSUME PipeInv, [SharingNext]_pipeVars, NEW i \in Slots
                PROVE  Channel(i)!Step
    OBVIOUS
  <2>1. Fifo(pipes, delivered, pipes', delivered')
    BY SharingStep
  <2>2. \/ Contents(pipes'[i]) = Contents(pipes[i]) /\ delivered'[i] = delivered[i]
        \/ Contents(pipes'[i]) = << >> /\ delivered'[i] = delivered[i] /\ ~ pipes[i].isOpen
        \/ /\ Contents(pipes[i]) # << >>
           /\ delivered'[i] = [byte |-> Head(Contents(pipes[i])), flip |-> ~ delivered[i].flip]
           /\ Contents(pipes'[i]) = Tail(Contents(pipes[i]))
        \/ /\ Len(Contents(pipes[i])) < PIPE_BUFFER_SIZE
           /\ \E byte \in Bytes : Contents(pipes'[i]) = Append(Contents(pipes[i]), byte)
           /\ delivered'[i] = delivered[i]
    BY <2>1 DEF Fifo
  <2>3. Contents(pipes'[i]) = Contents(pipes[i])'
    BY DEF Contents
  <2>. QED
    BY <2>2, <2>3 DEF Channel!Step, Channel!Next, Channel!Clear, Channel!Read, Channel!Write
<1>. QED
  BY <1>1, <1>2, SharingInvariantHolds, PTL DEF SharingSpec, PipesAreFifo

=============================================================================
