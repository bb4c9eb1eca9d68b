---------------------------- MODULE RestackProofs ----------------------------
(***************************************************************************)
(* Proof that no revision is forgotten on its way through a stack of pull  *)
(* requests, for any epic and any comments, however tasks fail, overlap or *)
(* are created twice.                                                      *)
(***************************************************************************)
EXTENDS Restack, SequenceTheorems, TLAPS

-----------------------------------------------------------------------------
(***************************************************************************)
(* The invariant                                                           *)
(***************************************************************************)

Keys == Seq(Nodes \cup Edits) \ {<< >>}

Tasks ==
    [node : Nodes, merge : SUBSET Nodes,
     phase : {"queued", "running", "ended", "spawning", "handled"},
     base : SUBSET Edits, has : SUBSET Edits, succeeded : BOOLEAN,
     todo : SUBSET Nodes, created : BOOLEAN, retries : Nat]

Typed ==
    /\ row \in [Nodes -> {"blocked", "releasing", "released", "succeeded"}]
    /\ head \in [Nodes -> SUBSET Edits]
    /\ opened \subseteq Nodes
    /\ DOMAIN task \subseteq Keys
    /\ \A t \in DOMAIN task : task[t] \in Tasks

\* What the reconciler has created for the end of a task came after that end.
KeysTrue ==
    \A t \in DOMAIN task :
        /\ \A n \in Nodes : t = FirstKey(n) =>
              task[t].node = n /\ task[t].phase # "spawning"
        /\ \A d \in Nodes, u \in Keys : t = RestackKey(d, u) =>
              u \in DOMAIN task /\ task[u].phase \notin {"queued", "running"}
        /\ At(t, "spawning") => task[t].succeeded

\* The first run of a sub-issue comes after those of its predecessors, and starts
\* from their branches.
FirstRun(n) ==
    /\ row[n] # "blocked" => \A p \in DependsOn[n] : row[p] = "succeeded"
    /\ row[n] = "blocked" => n \notin opened /\ FirstKey(n) \notin DOMAIN task
    /\ n \in opened => row[n] \in {"released", "succeeded"} \/ CutBefore(n)
    /\ FirstKey(n) \in DOMAIN task =>
         /\ row[n] = "succeeded" => At(FirstKey(n), "handled")
         /\ At(FirstKey(n), "queued") => task[FirstKey(n)].merge = DependsOn[n]

\* The branch of the sub-issue has been cut.
Cut(d) == d \in opened \/ CutBefore(d)

\* The end of a task on the branch of p will have d merged again.
Due(p, d) ==
    \E t \in DOMAIN task :
        /\ task[t].node = p /\ t # FirstKey(p) /\ RestackKey(d, t) \notin DOMAIN task
        /\ \/ At(t, "ended") /\ task[t].succeeded
           \/ At(t, "spawning") /\ d \in task[t].todo

\* A task on the branch of d will merge the branch of p, or has the revision.
OnItsWay(p, d, e) ==
    \E u \in DOMAIN task :
        /\ task[u].node = d
        /\ \/ At(u, "queued") /\ p \in task[u].merge
           \/ At(u, "running") /\ e \in task[u].has

\* What a branch lacks of its predecessor's is on its way.
Carried(d, p) ==
    \A e \in head[p] \ head[d] :
        Cut(d) => d \in missed \/ Due(p, d) \/ OnItsWay(p, d, e)

StackInv ==
    /\ Typed /\ KeysTrue
    /\ \A n \in Nodes : FirstRun(n)
    /\ \A d \in Nodes : \A p \in DependsOn[d] : Carried(d, p)

-----------------------------------------------------------------------------
(***************************************************************************)
(* The keys of tasks                                                       *)
(***************************************************************************)

\* A restack has a key of its own for each dependent and each task that ended.
LEMMA KeysDiffer ==
  ASSUME NEW d \in Nodes, NEW t \in Keys
  PROVE  /\ RestackKey(d, t) \in Keys
         /\ \A x \in Nodes \cup Edits : RestackKey(d, t) # <<x>>
         /\ \A c \in Nodes, u \in Keys :
               RestackKey(d, t) = RestackKey(c, u) => c = d /\ u = t
<1>. DEFINE S == Nodes \cup Edits
<1>1. /\ <<d>> \in Seq(S) /\ t \in Seq(S) /\ Len(<<d>>) = 1
      /\ Len(t) \in Nat /\ Len(t) # 0
  BY EmptySeq DEF Keys
<1>2. ASSUME NEW c \in Nodes, NEW u \in Keys
      PROVE  /\ RestackKey(c, u) \in Seq(S) /\ Len(RestackKey(c, u)) = 1 + Len(u)
             /\ RestackKey(c, u)[1] = c
             /\ \A i \in 1 .. Len(u) : RestackKey(c, u)[i + 1] = u[i]
  <2>1. <<c>> \in Seq(S) /\ u \in Seq(S) /\ Len(<<c>>) = 1 /\ Len(u) \in Nat /\ <<c>>[1] = c
    BY DEF Keys
  <2>2. /\ <<c>> \o u \in Seq(S) /\ Len(<<c>> \o u) = 1 + Len(u)
        /\ \A i \in 1 .. 1 + Len(u) : (<<c>> \o u)[i] = IF i <= 1 THEN <<c>>[i] ELSE u[i - 1]
    BY <2>1, ConcatProperties
  <2>3. \A i \in 1 .. Len(u) : (<<c>> \o u)[i + 1] = u[i]
    <3>. SUFFICES ASSUME NEW i \in 1 .. Len(u) PROVE (<<c>> \o u)[i + 1] = u[i]
      OBVIOUS
    <3>1. i + 1 \in 1 .. 1 + Len(u) /\ ~(i + 1 <= 1) /\ (i + 1) - 1 = i
      BY <2>1
    <3>. QED  BY <2>2, <3>1
  <2>. QED  BY <2>1, <2>2, <2>3 DEF RestackKey
<1>3. RestackKey(d, t) \in Keys
  BY <1>1, <1>2, EmptySeq DEF Keys
<1>4. \A x \in S : RestackKey(d, t) # <<x>>
  BY <1>1, <1>2
<1>5. ASSUME NEW c \in Nodes, NEW u \in Keys, RestackKey(d, t) = RestackKey(c, u)
      PROVE  c = d /\ u = t
  <2>1. c = d /\ Len(u) = Len(t) /\ Len(u) \in Nat /\ u \in Seq(S) /\ t \in Seq(S)
    <3>1. c = d
      <4>1. RestackKey(c, u)[1] = c
        BY <1>2
      <4>2. RestackKey(d, t)[1] = d
        BY <1>2
      <4>. QED  BY <1>5, <4>1, <4>2
    <3>2. u \in Seq(S) /\ t \in Seq(S) /\ Len(u) \in Nat /\ Len(t) \in Nat
      BY DEF Keys
    <3>3. Len(RestackKey(c, u)) = 1 + Len(u)
      BY <1>2
    <3>4. Len(RestackKey(d, t)) = 1 + Len(t)
      BY <1>2
    <3>5. Len(u) = Len(t)
      BY <1>5, <3>2, <3>3, <3>4
    <3>. QED  BY <3>1, <3>2, <3>5
  <2>2. ASSUME NEW i \in 1 .. Len(u) PROVE u[i] = t[i]
    <3>1. RestackKey(c, u)[i + 1] = u[i]
      BY <1>2
    <3>2. RestackKey(d, t)[i + 1] = t[i]
      BY <1>2, <2>1
    <3>. QED  BY <1>5, <3>1, <3>2
  <2>. QED  BY <2>1, <2>2, SeqEqual
<1>. QED  BY <1>3, <1>4, <1>5

\* The tasks of comments and of first runs have none.
LEMMA OtherKeys ==
  ASSUME NEW x \in Nodes \cup Edits
  PROVE  <<x>> \in Keys /\ \A y : <<x>> = <<y>> => x = y
BY DEF Keys

-----------------------------------------------------------------------------
(***************************************************************************)
(* What a step does to the tasks                                           *)
(***************************************************************************)

\* One task goes on as r, or
GoesOn(t, r) ==
    /\ DOMAIN task' = DOMAIN task /\ task'[t] = r
    /\ \A u \in DOMAIN task \ {t} : task'[u] = task[u]

\* a task r is created.
Arrives(k, r) ==
    /\ DOMAIN task' = DOMAIN task \cup {k} /\ k \notin DOMAIN task /\ task'[k] = r
    /\ \A u \in DOMAIN task : task'[u] = task[u]

LEMMA QueuedIs ==
  ASSUME NEW n \in Nodes, NEW B \in SUBSET Nodes
  PROVE  /\ Queued(n, B) \in Tasks
         /\ Queued(n, B).node = n /\ Queued(n, B).phase = "queued" /\ Queued(n, B).merge = B
BY DEF Queued, Tasks

LEMMA HandledIs ==
  ASSUME Typed, NEW t \in DOMAIN task, task' = Handled(t)
  PROVE  \E r \in Tasks : GoesOn(t, r) /\ r.node = task[t].node /\ r.phase = "handled"
<1>. DEFINE r == [Queued(task[t].node, {}) EXCEPT !.phase = "handled"]
<1>1. task' = [task EXCEPT ![t] = r]
  BY DEF Handled
<1>2. r \in Tasks /\ r.node = task[t].node /\ r.phase = "handled"
  BY DEF Typed, Queued, Tasks
<1>. HIDE DEF r
<1>. QED  BY <1>1, <1>2 DEF GoesOn

LEMMA EndedIs ==
  ASSUME Typed, NEW t \in DOMAIN task, NEW b \in BOOLEAN, task' = Ended(t, b)
  PROVE  \E r \in Tasks : /\ GoesOn(t, r) /\ r.node = task[t].node
                          /\ r.phase = "ended" /\ r.succeeded = b
<1>. DEFINE r == [Queued(task[t].node, {}) EXCEPT !.phase = "ended", !.succeeded = b]
<1>1. task' = [task EXCEPT ![t] = r]
  BY DEF Ended
<1>2. r \in Tasks /\ r.node = task[t].node /\ r.phase = "ended" /\ r.succeeded = b
  BY DEF Typed, Queued, Tasks
<1>. HIDE DEF r
<1>. QED  BY <1>1, <1>2 DEF GoesOn

\* A task that goes on keeps its node, runs only from the queue, and starts to spawn
\* only as a success that is no first run.
LEMMA GoesOnTrue ==
  ASSUME Typed, KeysTrue, NEW t \in DOMAIN task, NEW r \in Tasks, GoesOn(t, r),
         r.node = task[t].node,
         r.phase \in {"queued", "running"} => task[t].phase \in {"queued", "running"},
         r.phase = "spawning" => r.succeeded /\ t # FirstKey(task[t].node)
  PROVE  KeysTrue'
<1>1. SUFFICES ASSUME NEW u \in DOMAIN task
      PROVE  /\ \A n \in Nodes : u = FirstKey(n) =>
                   task'[u].node = n /\ task'[u].phase # "spawning"
             /\ \A d \in Nodes, v \in Keys : u = RestackKey(d, v) =>
                   v \in DOMAIN task /\ task'[v].phase \notin {"queued", "running"}
             /\ task'[u].phase = "spawning" => task'[u].succeeded
  BY DEF KeysTrue, GoesOn, At
<1>2. /\ \A n \in Nodes : u = FirstKey(n) =>
            task[u].node = n /\ task[u].phase # "spawning"
      /\ \A d \in Nodes, v \in Keys : u = RestackKey(d, v) =>
            v \in DOMAIN task /\ task[v].phase \notin {"queued", "running"}
      /\ task[u].phase = "spawning" => task[u].succeeded
  BY DEF KeysTrue, At
<1>3. /\ u # t => task'[u] = task[u]
      /\ task'[t] = r
  BY DEF GoesOn
<1>4. \A n \in Nodes : u = FirstKey(n) => task'[u].node = n /\ task'[u].phase # "spawning"
  BY <1>2, <1>3
<1>5. \A d \in Nodes, v \in Keys : u = RestackKey(d, v) =>
        v \in DOMAIN task /\ task'[v].phase \notin {"queued", "running"}
  BY <1>2 DEF GoesOn
<1>. QED  BY <1>2, <1>3, <1>4, <1>5

LEMMA ArrivesTrue ==
  ASSUME Typed, KeysTrue, NEW k \in Keys, NEW r \in Tasks, Arrives(k, r),
         r.phase = "queued",
         \A n \in Nodes : k = FirstKey(n) => r.node = n,
         \A d \in Nodes, u \in Keys : k = RestackKey(d, u) =>
            u \in DOMAIN task /\ task[u].phase \notin {"queued", "running"}
  PROVE  KeysTrue'
<1>1. SUFFICES ASSUME NEW u \in DOMAIN task \cup {k}
      PROVE  /\ \A n \in Nodes : u = FirstKey(n) =>
                   task'[u].node = n /\ task'[u].phase # "spawning"
             /\ \A d \in Nodes, v \in Keys : u = RestackKey(d, v) =>
                   v \in DOMAIN task /\ task'[v].phase \notin {"queued", "running"}
             /\ task'[u].phase = "spawning" => task'[u].succeeded
  BY DEF KeysTrue, Arrives, At
<1>2. CASE u = k
  BY <1>2 DEF Arrives
<1>3. CASE u \in DOMAIN task
  <2>1. task'[u] = task[u]
    BY <1>3 DEF Arrives
  <2>2. \A d \in Nodes, v \in Keys : u = RestackKey(d, v) =>
          v \in DOMAIN task /\ task[v].phase \notin {"queued", "running"}
    BY <1>3 DEF KeysTrue
  <2>3. \A d \in Nodes, v \in Keys : u = RestackKey(d, v) =>
          v \in DOMAIN task /\ task'[v].phase \notin {"queued", "running"}
    BY <2>2 DEF Arrives
  <2>. QED  BY <1>3, <2>1, <2>3 DEF KeysTrue, At
<1>. QED  BY <1>2, <1>3

\* Where a branch stays and the ways to it stay, the branch is carried as it was.
LEMMA StaysCarried ==
  ASSUME NEW d, NEW p, Carried(d, p), missed \subseteq missed',
         d \notin missed' =>
           /\ \A e : e \in head'[p] /\ e \notin head'[d] => e \in head[p] /\ e \notin head[d]
           /\ Cut(d)' => Cut(d)
           /\ Due(p, d) => Due(p, d)' \/ \A e : OnItsWay(p, d, e)'
           /\ \A e : OnItsWay(p, d, e) => OnItsWay(p, d, e)' \/ e \in head'[d]
  PROVE  Carried(d, p)'
<1>1. SUFFICES ASSUME NEW e \in head'[p], e \notin head'[d], Cut(d)', d \notin missed'
               PROVE  Due(p, d)' \/ OnItsWay(p, d, e)'
  BY DEF Carried
<1>2. e \in head[p] \ head[d] /\ Cut(d)
  BY <1>1
<1>3. d \notin missed
  BY <1>1
<1>4. Due(p, d) \/ OnItsWay(p, d, e)
  BY <1>2, <1>3 DEF Carried
<1>. QED  BY <1>1, <1>4

LEMMA GoesOnFirst ==
  ASSUME NEW n \in Nodes, FirstRun(n), NEW t \in DOMAIN task, NEW r, GoesOn(t, r),
         r.phase # "queued", task[t].phase # "handled", row' = row,
         \/ opened' = opened
         \/ t = FirstKey(task[t].node) /\ opened' = opened \cup {task[t].node}
  PROVE  FirstRun(n)'
<1>1. CASE t = FirstKey(n)
  <2>1. FirstKey(n) \in DOMAIN task' /\ task'[FirstKey(n)].phase # "queued"
    BY <1>1 DEF GoesOn
  <2>2. row[n] # "blocked" /\ row[n] # "succeeded"
    BY <1>1 DEF FirstRun, At
  <2>. QED  BY <2>1, <2>2 DEF FirstRun, CutBefore, At
<1>2. CASE t # FirstKey(n)
  <2>1. /\ FirstKey(n) \in DOMAIN task' <=> FirstKey(n) \in DOMAIN task
        /\ FirstKey(n) \in DOMAIN task => task'[FirstKey(n)] = task[FirstKey(n)]
    BY <1>2 DEF GoesOn
  <2>2. n \in opened' <=> n \in opened
    BY <1>2
  <2>. QED  BY <2>1, <2>2 DEF FirstRun, CutBefore, At
<1>. QED  BY <1>1, <1>2

LEMMA ArrivesFirst ==
  ASSUME NEW n \in Nodes, FirstRun(n), NEW k, NEW r, Arrives(k, r), k # FirstKey(n),
         row' = row, opened' = opened
  PROVE  FirstRun(n)'
<1>1. /\ FirstKey(n) \in DOMAIN task' <=> FirstKey(n) \in DOMAIN task
      /\ FirstKey(n) \in DOMAIN task => task'[FirstKey(n)] = task[FirstKey(n)]
  BY DEF Arrives
<1>. QED  BY <1>1 DEF FirstRun, CutBefore, At

\* What a comment asks for waits for its turn.
LEMMA CommentKeeps ==
  ASSUME Stacked, StackInv, NEW e \in Edits, NEW n \in Nodes, Comment(e, n)
  PROVE  StackInv'
<1>. DEFINE k == EditKey(e)
            r == Queued(n, {})
<1>1. /\ Arrives(k, r) /\ UNCHANGED <<row, head, opened, missed>>
      /\ r \in Tasks /\ r.phase = "queued" /\ r.node = n /\ r.merge = {}
  <2>1. /\ k \notin DOMAIN task /\ task' = Plus(task, k, r)
        /\ UNCHANGED <<row, head, opened, missed>>
    BY DEF Comment
  <2>. HIDE DEF r, k
  <2>2. Arrives(k, r)
    BY <2>1 DEF Arrives, Plus
  <2>. QED  BY <2>1, <2>2, QueuedIs DEF r
<1>2. /\ k \in Keys
      /\ \A m \in Nodes : k # FirstKey(m)
      /\ \A d \in Nodes, u \in Keys : k # RestackKey(d, u)
  BY OtherKeys, KeysDiffer DEF EditKey, FirstKey, Stacked
<1>. HIDE DEF k, r
<1>3. Typed'
  BY <1>1, <1>2 DEF StackInv, Typed, Arrives
<1>4. KeysTrue'
  BY <1>1, <1>2, ArrivesTrue DEF StackInv
<1>5. \A m \in Nodes : FirstRun(m)'
  BY <1>1, <1>2, ArrivesFirst DEF StackInv
<1>6. ASSUME NEW d \in Nodes, NEW p \in DependsOn[d] PROVE Carried(d, p)'
  <2>1. Cut(d)' => Cut(d)
    BY <1>1, <1>2 DEF Cut, CutBefore, Arrives, At
  <2>2. Due(p, d) => Due(p, d)'
    BY <1>1, <1>2 DEF Due, Arrives, At, StackInv, Typed
  <2>3. \A x : OnItsWay(p, d, x) => OnItsWay(p, d, x)'
    BY <1>1 DEF OnItsWay, Arrives, At
  <2>. QED  BY <1>1, <2>1, <2>2, <2>3, StaysCarried DEF StackInv
<1>. QED  BY <1>3, <1>4, <1>5, <1>6 DEF StackInv, Stacked

\* A first run is released after those of its predecessors.
LEMMA ClaimKeeps ==
  ASSUME Stacked, StackInv, NEW n \in Nodes, Claim(n)
  PROVE  StackInv'
<1>1. /\ row[n] = "blocked" /\ \A p \in DependsOn[n] : row[p] = "succeeded"
      /\ row' = [row EXCEPT ![n] = "releasing"]
      /\ UNCHANGED <<head, opened, task, missed>>
  BY DEF Claim
<1>2. Typed' /\ KeysTrue'
  BY <1>1 DEF StackInv, Typed, KeysTrue, At
<1>3. ASSUME NEW m \in Nodes PROVE FirstRun(m)'
  <2>1. \A p \in Nodes : row'[p] = IF p = n THEN "releasing" ELSE row[p]
    BY <1>1 DEF StackInv, Typed
  <2>2. FirstRun(m) /\ DependsOn[m] \subseteq Nodes
    BY DEF StackInv, Stacked
  <2>. QED  BY <1>1, <2>1, <2>2 DEF FirstRun, CutBefore, At
<1>4. ASSUME NEW d \in Nodes, NEW p \in DependsOn[d] PROVE Carried(d, p)'
  BY <1>1 DEF StackInv, Carried, Cut, CutBefore, Due, OnItsWay, At
<1>. QED  BY <1>2, <1>3, <1>4 DEF StackInv, Stacked

LEMMA CreateKeeps ==
  ASSUME Stacked, StackInv, NEW n \in Nodes, Create(n)
  PROVE  StackInv'
<1>. DEFINE k == FirstKey(n)
            r == Queued(n, DependsOn[n])
<1>1. /\ Arrives(k, r) /\ UNCHANGED <<row, head, opened, missed>> /\ row[n] = "releasing"
      /\ r \in Tasks /\ r.phase = "queued" /\ r.node = n /\ r.merge = DependsOn[n]
  <2>1. /\ k \notin DOMAIN task /\ task' = Plus(task, k, r) /\ row[n] = "releasing"
        /\ UNCHANGED <<row, head, opened, missed>>
    BY DEF Create
  <2>2. DependsOn[n] \in SUBSET Nodes
    BY DEF Stacked
  <2>. HIDE DEF r, k
  <2>3. Arrives(k, r)
    BY <2>1 DEF Arrives, Plus
  <2>. QED  BY <2>1, <2>2, <2>3, QueuedIs DEF r
<1>2. /\ k \in Keys
      /\ \A m \in Nodes : k = FirstKey(m) => m = n
      /\ \A d \in Nodes, u \in Keys : k # RestackKey(d, u)
  BY OtherKeys, KeysDiffer DEF FirstKey
<1>3. k = FirstKey(n)
  OBVIOUS
<1>. HIDE DEF k, r
<1>4. Typed'
  BY <1>1, <1>2 DEF StackInv, Typed, Arrives
<1>5. KeysTrue'
  BY <1>1, <1>2, ArrivesTrue DEF StackInv
<1>6. ASSUME NEW m \in Nodes PROVE FirstRun(m)'
  <2>1. CASE m # n
    BY <1>1, <1>2, <2>1, ArrivesFirst DEF StackInv
  <2>2. CASE m = n
    <3>1. FirstRun(n)
      BY DEF StackInv
    <3>2. n \notin opened
      BY <1>1, <1>3, <3>1 DEF FirstRun, CutBefore, Arrives
    <3>. QED  BY <1>1, <1>3, <2>2, <3>1, <3>2 DEF FirstRun, CutBefore, At, Arrives
  <2>. QED  BY <2>1, <2>2
<1>7. ASSUME NEW d \in Nodes, NEW p \in DependsOn[d] PROVE Carried(d, p)'
  <2>1. Cut(d)' => Cut(d)
    BY <1>1 DEF Cut, CutBefore, Arrives, At
  <2>2. Due(p, d) => Due(p, d)'
    BY <1>1, <1>2 DEF Due, Arrives, At, StackInv, Typed
  <2>3. \A x : OnItsWay(p, d, x) => OnItsWay(p, d, x)'
    BY <1>1 DEF OnItsWay, Arrives, At
  <2>. QED  BY <1>1, <2>1, <2>2, <2>3, StaysCarried DEF StackInv
<1>. QED  BY <1>4, <1>5, <1>6, <1>7 DEF StackInv, Stacked

LEMMA RecordKeeps ==
  ASSUME Stacked, StackInv, NEW n \in Nodes, Record(n)
  PROVE  StackInv'
<1>1. /\ row[n] = "releasing" /\ row' = [row EXCEPT ![n] = "released"]
      /\ UNCHANGED <<head, opened, task, missed>>
  BY DEF Record
<1>2. Typed' /\ KeysTrue'
  BY <1>1 DEF StackInv, Typed, KeysTrue, At
<1>3. ASSUME NEW m \in Nodes PROVE FirstRun(m)'
  <2>1. \A p \in Nodes : row'[p] = IF p = n THEN "released" ELSE row[p]
    BY <1>1 DEF StackInv, Typed
  <2>2. FirstRun(m) /\ DependsOn[m] \subseteq Nodes
    BY DEF StackInv, Stacked
  <2>. QED  BY <1>1, <2>1, <2>2 DEF FirstRun, CutBefore, At
<1>4. ASSUME NEW d \in Nodes, NEW p \in DependsOn[d] PROVE Carried(d, p)'
  BY <1>1 DEF StackInv, Carried, Cut, CutBefore, Due, OnItsWay, At
<1>. QED  BY <1>2, <1>3, <1>4 DEF StackInv, Stacked

\* The end of a first run is handled: its row succeeds.
LEMMA FirstEndsKeeps ==
  ASSUME Stacked, StackInv, NEW n \in Nodes, FirstEnds(n)
  PROVE  StackInv'
<1>. DEFINE t == FirstKey(n)
<1>1. /\ t \in DOMAIN task /\ task[t].phase = "ended" /\ row[n] = "released"
      /\ row' = [row EXCEPT ![n] = "succeeded"] /\ task' = Handled(t)
      /\ UNCHANGED <<head, opened, missed>>
  BY DEF FirstEnds, At
<1>2. PICK r \in Tasks : GoesOn(t, r) /\ r.node = task[t].node /\ r.phase = "handled"
  BY <1>1, HandledIs DEF StackInv
<1>3. \A m \in Nodes : t = FirstKey(m) => m = n
  BY OtherKeys DEF FirstKey
<1>4. task[t].node = n
  BY <1>1 DEF StackInv, KeysTrue
<1>5. t = FirstKey(n)
  OBVIOUS
<1>. HIDE DEF t
<1>6. Typed'
  BY <1>1, <1>2 DEF StackInv, Typed, GoesOn
<1>7. KeysTrue'
  BY <1>1, <1>2, GoesOnTrue DEF StackInv
<1>8. ASSUME NEW m \in Nodes PROVE FirstRun(m)'
  <2>1. \A p \in Nodes : row'[p] = IF p = n THEN "succeeded" ELSE row[p]
    BY <1>1 DEF StackInv, Typed
  <2>2. FirstRun(m) /\ DependsOn[m] \subseteq Nodes
    BY DEF StackInv, Stacked
  <2>3. /\ FirstKey(m) \in DOMAIN task' <=> FirstKey(m) \in DOMAIN task
        /\ FirstKey(m) \in DOMAIN task => task'[FirstKey(m)].phase =
             IF m = n THEN "handled" ELSE task[FirstKey(m)].phase
        /\ m # n /\ FirstKey(m) \in DOMAIN task => task'[FirstKey(m)] = task[FirstKey(m)]
    BY <1>2, <1>3, <1>5 DEF GoesOn
  <2>. QED  BY <1>1, <2>1, <2>2, <2>3 DEF FirstRun, CutBefore, At
<1>9. ASSUME NEW d \in Nodes, NEW p \in DependsOn[d] PROVE Carried(d, p)'
  <2>1. Cut(d)' => Cut(d)
    BY <1>1, <1>2 DEF Cut, CutBefore, GoesOn, At
  <2>2. Due(p, d) => Due(p, d)'
    <3>. SUFFICES ASSUME Due(p, d) PROVE Due(p, d)'
      OBVIOUS
    <3>1. PICK u \in DOMAIN task :
            /\ task[u].node = p /\ u # FirstKey(p) /\ RestackKey(d, u) \notin DOMAIN task
            /\ \/ At(u, "ended") /\ task[u].succeeded
               \/ At(u, "spawning") /\ d \in task[u].todo
      BY DEF Due
    <3>2. u # t
      BY <1>4, <1>5, <3>1
    <3>3. task'[u] = task[u] /\ DOMAIN task' = DOMAIN task
      BY <1>2, <3>2 DEF GoesOn
    <3>. QED  BY <3>1, <3>3 DEF Due, At
  <2>3. \A x : OnItsWay(p, d, x) => OnItsWay(p, d, x)'
    BY <1>1, <1>2 DEF OnItsWay, GoesOn, At
  <2>. QED  BY <1>1, <2>1, <2>2, <2>3, StaysCarried DEF StackInv
<1>. QED  BY <1>6, <1>7, <1>8, <1>9 DEF StackInv, Stacked

-----------------------------------------------------------------------------
(***************************************************************************)
(* Tasks on their branches                                                 *)
(***************************************************************************)

\* A task sets out from its branch with what it merges; a branch that it skips
\* may lack it.
LEMMA SetUpKeeps ==
  ASSUME Stacked, StackInv, NEW t \in DOMAIN task, SetUp(t)
  PROVE  StackInv'
<1>. DEFINE n == task[t].node
<1>1. PICK skipped \in SUBSET task[t].merge :
        LET asks == {e \in Edits : EditKey(e) = t}
            has  == asks \cup head[n] \cup UNION {head[p] : p \in task[t].merge \ skipped}
        IN /\ task' = [task EXCEPT ![t].phase = "running", ![t].base = head[n],
                                   ![t].has = has]
           /\ missed' = IF skipped = {} THEN missed ELSE missed \cup {n}
  BY DEF SetUp
<1>. DEFINE has == {e \in Edits : EditKey(e) = t} \cup head[n]
                     \cup UNION {head[p] : p \in task[t].merge \ skipped}
            r == [task[t] EXCEPT !.phase = "running", !.base = head[n], !.has = has]
<1>2. /\ task' = [task EXCEPT ![t] = r] /\ task[t].phase = "queued"
      /\ UNCHANGED <<row, head, opened>>
  BY <1>1 DEF SetUp, At
<1>3. task[t] \in Tasks /\ n \in Nodes /\ task[t].merge \subseteq Nodes
  BY DEF StackInv, Typed, Tasks
<1>4. has \subseteq Edits /\ head[n] \subseteq Edits
  BY <1>3 DEF StackInv, Typed
<1>. HIDE DEF has
<1>5. /\ r \in Tasks /\ r.phase = "running" /\ r.has = has /\ r.node = n
      /\ r.merge = task[t].merge
  BY <1>3, <1>4 DEF Tasks
<1>. HIDE DEF r
<1>6. GoesOn(t, r)
  BY <1>2 DEF GoesOn
<1>7. missed \subseteq missed' /\ (n \notin missed' => skipped = {})
  BY <1>1
<1>8. Typed'
  BY <1>2, <1>5, <1>6 DEF StackInv, Typed, GoesOn
<1>9. KeysTrue'
  BY <1>2, <1>5, <1>6, GoesOnTrue DEF StackInv
<1>10. \A m \in Nodes : FirstRun(m)'
  BY <1>2, <1>5, <1>6, GoesOnFirst DEF StackInv
<1>11. ASSUME NEW d \in Nodes, NEW p \in DependsOn[d] PROVE Carried(d, p)'
  <2>1. Due(p, d) => Due(p, d)'
    BY <1>2, <1>6 DEF Due, GoesOn, At
  <2>2. ASSUME NEW e \in head[p], d \notin missed', d = n, p \in task[t].merge
        PROVE  OnItsWay(p, d, e)'
    <3>1. e \in has
      BY <1>7, <2>2 DEF has
    <3>. QED  BY <1>5, <1>6, <2>2, <3>1 DEF OnItsWay, GoesOn, At
  <2>3. CASE t = FirstKey(d)
    <3>1. n = d /\ task[t].merge = DependsOn[d]
      BY <1>2, <2>3 DEF StackInv, KeysTrue, FirstRun, At
    <3>. QED  BY <2>2, <3>1, <1>2 DEF Carried
  <2>4. CASE t # FirstKey(d)
    <3>1. Cut(d)' => Cut(d)
      BY <1>2, <1>6, <2>4 DEF Cut, CutBefore, GoesOn, At
    <3>2. ASSUME NEW e \in head[p], d \notin missed', OnItsWay(p, d, e)
          PROVE  OnItsWay(p, d, e)'
      <4>1. PICK u \in DOMAIN task :
              /\ task[u].node = d
              /\ \/ At(u, "queued") /\ p \in task[u].merge
                 \/ At(u, "running") /\ e \in task[u].has
        BY <3>2 DEF OnItsWay
      <4>2. CASE u # t
        <5>1. task'[u] = task[u] /\ u \in DOMAIN task'
          BY <1>6, <4>2 DEF GoesOn
        <5>. QED  BY <4>1, <5>1 DEF OnItsWay, At
      <4>3. CASE u = t
        <5>1. d = n /\ p \in task[t].merge
          BY <1>2, <4>1, <4>3 DEF At
        <5>. QED  BY <2>2, <3>2, <5>1
      <4>. QED  BY <4>2, <4>3
    <3>3. SUFFICES ASSUME NEW e \in head[p], e \notin head[d], Cut(d), d \notin missed'
                   PROVE  Due(p, d)' \/ OnItsWay(p, d, e)'
      BY <1>2, <3>1 DEF Carried
    <3>4. Due(p, d) \/ OnItsWay(p, d, e)
      BY <1>7, <3>3 DEF StackInv, Carried
    <3>. QED  BY <2>1, <3>2, <3>3, <3>4
  <2>. QED  BY <2>3, <2>4
<1>. QED  BY <1>8, <1>9, <1>10, <1>11 DEF StackInv, Stacked

\* A first run that pushes has no dependent with a branch.
LEMMA NoDependentYet ==
  ASSUME Stacked, StackInv, NEW p \in Nodes, NEW d \in Nodes, p \in DependsOn[d],
         FirstKey(p) \in DOMAIN task, task[FirstKey(p)].phase # "handled"
  PROVE  ~Cut(d)
<1>1. row[p] # "succeeded"
  BY DEF StackInv, FirstRun, At
<1>2. row[d] = "blocked"
  BY <1>1 DEF StackInv, FirstRun
<1>. QED  BY <1>2 DEF StackInv, FirstRun, Cut, CutBefore

\* What a task pushes will be carried on by the end of the task.
LEMMA SucceedKeeps ==
  ASSUME Stacked, StackInv, NEW t \in DOMAIN task, Succeed(t)
  PROVE  StackInv'
<1>. DEFINE n == task[t].node
            has == task[t].has
<1>1. /\ task[t].phase = "running" /\ task' = Ended(t, TRUE) /\ row' = row
      /\ opened' = IF t = FirstKey(n) THEN opened \cup {n} ELSE opened
      /\ \/ head' = [head EXCEPT ![n] = @ \cup has] /\ missed' = missed
         \/ head' = head /\ missed' = missed \cup {n}
  BY DEF Succeed, Push, At
<1>2. PICK r \in Tasks : /\ GoesOn(t, r) /\ r.node = n /\ r.phase = "ended"
                         /\ r.succeeded = TRUE
  BY <1>1, EndedIs DEF StackInv
<1>3. task[t] \in Tasks /\ n \in Nodes /\ has \subseteq Edits /\ t \in Keys
  BY DEF StackInv, Typed, Tasks
<1>4. Typed'
  BY <1>1, <1>2, <1>3 DEF StackInv, Typed, GoesOn
<1>5. KeysTrue'
  BY <1>1, <1>2, GoesOnTrue DEF StackInv
<1>6. \A m \in Nodes : FirstRun(m)'
  BY <1>1, <1>2, GoesOnFirst DEF StackInv
<1>7. /\ \A m \in Nodes : head'[m] = head[m] \/ (m = n /\ head'[m] = head[m] \cup has)
      /\ n \notin missed' => has \subseteq head'[n]
      /\ missed \subseteq missed'
  <2>1. head \in [Nodes -> SUBSET Edits]
    BY DEF StackInv, Typed
  <2>. HIDE DEF has
  <2>. QED  BY <1>1, <1>3, <2>1
<1>8. ASSUME NEW d \in Nodes, NEW p \in DependsOn[d] PROVE Carried(d, p)'
  <2>. p \in Nodes
    BY DEF Stacked
  <2>1. SUFFICES ASSUME NEW e \in head'[p], e \notin head'[d], Cut(d)', d \notin missed'
                 PROVE  Due(p, d)' \/ OnItsWay(p, d, e)'
    BY DEF Carried
  <2>2. Cut(d)
    <3>1. d \in opened' => d \in opened \/ t = FirstKey(d)
      BY <1>1
    <3>. QED  BY <1>1, <1>2, <2>1, <3>1 DEF Cut, CutBefore, GoesOn, At
  <2>3. e \notin head[d]
    BY <1>7, <2>1
  <2>4. CASE e \notin head[p]
    <3>1. p = n
      BY <1>7, <2>1, <2>4
    <3>2. t # FirstKey(p)
      BY <1>1, <2>2, <3>1, NoDependentYet
    <3>3. RestackKey(d, t) \notin DOMAIN task
      BY <1>1, <1>3 DEF StackInv, KeysTrue
    <3>4. t \in DOMAIN task' /\ task'[t] = r /\ RestackKey(d, t) \notin DOMAIN task'
      BY <1>2, <3>3 DEF GoesOn
    <3>. QED  BY <1>2, <3>1, <3>2, <3>4 DEF Due, At
  <2>5. CASE e \in head[p]
    <3>1. Due(p, d) \/ OnItsWay(p, d, e)
      BY <1>7, <2>1, <2>2, <2>3, <2>5 DEF StackInv, Carried
    <3>2. Due(p, d) => Due(p, d)'
      <4>. SUFFICES ASSUME Due(p, d) PROVE Due(p, d)'
        OBVIOUS
      <4>1. PICK u \in DOMAIN task :
              /\ task[u].node = p /\ u # FirstKey(p) /\ RestackKey(d, u) \notin DOMAIN task
              /\ \/ At(u, "ended") /\ task[u].succeeded
                 \/ At(u, "spawning") /\ d \in task[u].todo
        BY DEF Due
      <4>2. u # t
        BY <1>1, <4>1 DEF At
      <4>3. task'[u] = task[u] /\ DOMAIN task' = DOMAIN task
        BY <1>2, <4>2 DEF GoesOn
      <4>. QED  BY <4>1, <4>3 DEF Due, At
    <3>3. OnItsWay(p, d, e) => OnItsWay(p, d, e)'
      <4>. SUFFICES ASSUME OnItsWay(p, d, e) PROVE OnItsWay(p, d, e)'
        OBVIOUS
      <4>1. PICK u \in DOMAIN task :
              /\ task[u].node = d
              /\ \/ At(u, "queued") /\ p \in task[u].merge
                 \/ At(u, "running") /\ e \in task[u].has
        BY DEF OnItsWay
      <4>2. u # t
        BY <1>1, <1>7, <2>1, <4>1 DEF At
      <4>3. task'[u] = task[u] /\ u \in DOMAIN task'
        BY <1>2, <4>2 DEF GoesOn
      <4>. QED  BY <4>1, <4>3 DEF OnItsWay, At
    <3>. QED  BY <3>1, <3>2, <3>3
  <2>. QED  BY <2>4, <2>5
<1>. QED  BY <1>4, <1>5, <1>6, <1>8 DEF StackInv, Stacked

\* Nobody is told of what a failed task has pushed.
LEMMA FailKeeps ==
  ASSUME Stacked, StackInv, NEW t \in DOMAIN task, Fail(t)
  PROVE  StackInv'
<1>. DEFINE n == task[t].node
            has == task[t].has
<1>1. /\ task[t].phase = "running" /\ task' = Ended(t, FALSE)
      /\ UNCHANGED <<row, opened>>
      /\ head' = head \/ head' = [head EXCEPT ![n] = @ \cup has]
      /\ missed' = missed \cup {n} \cup Dependents(n)
  BY DEF Fail, At
<1>2. PICK r \in Tasks : GoesOn(t, r) /\ r.node = n /\ r.phase = "ended"
  BY <1>1, EndedIs DEF StackInv
<1>3. task[t] \in Tasks /\ n \in Nodes /\ has \subseteq Edits
  BY DEF StackInv, Typed, Tasks
<1>4. Typed'
  BY <1>1, <1>2, <1>3 DEF StackInv, Typed, GoesOn
<1>5. KeysTrue'
  BY <1>1, <1>2, GoesOnTrue DEF StackInv
<1>6. \A m \in Nodes : FirstRun(m)'
  BY <1>1, <1>2, GoesOnFirst DEF StackInv
<1>7. \A m \in Nodes : m # n => head'[m] = head[m]
  BY <1>1 DEF StackInv, Typed
<1>8. ASSUME NEW d \in Nodes, NEW p \in DependsOn[d] PROVE Carried(d, p)'
  <2>. p \in Nodes
    BY DEF Stacked
  <2>1. CASE d = n \/ p = n
    BY <1>1, <2>1 DEF Carried, Dependents
  <2>2. CASE d # n /\ p # n
    <3>1. head'[p] = head[p] /\ head'[d] = head[d]
      BY <1>7, <2>2
    <3>2. Cut(d)' => Cut(d)
      BY <1>1, <1>2 DEF Cut, CutBefore, GoesOn, At
    <3>3. Due(p, d) => Due(p, d)'
      BY <1>2, <2>2 DEF Due, GoesOn, At
    <3>4. \A e : OnItsWay(p, d, e) => OnItsWay(p, d, e)'
      BY <1>2, <2>2 DEF OnItsWay, GoesOn, At
    <3>. QED  BY <1>1, <3>1, <3>2, <3>3, <3>4, StaysCarried DEF StackInv
  <2>. QED  BY <2>1, <2>2
<1>. QED  BY <1>4, <1>5, <1>6, <1>8 DEF StackInv, Stacked

-----------------------------------------------------------------------------
(***************************************************************************)
(* The reconciler                                                          *)
(***************************************************************************)

\* The end of a task finds the dependents whose branch is on their row.
LEMMA CascadeKeeps ==
  ASSUME Stacked, StackInv, NEW t \in DOMAIN task, CascadeRestack(t)
  PROVE  StackInv'
<1>. DEFINE n == task[t].node
            steps == IF task[t].succeeded THEN DirectRestack(n) ELSE {}
            blind == {d \in Dependents(n) : row[d] = "releasing" /\ CutBefore(d)}
            q == [task[t] EXCEPT !.phase = "spawning", !.todo = steps, !.created = FALSE]
<1>1. /\ task[t].phase = "ended" /\ t # FirstKey(n)
      /\ UNCHANGED <<row, head, opened>> /\ missed' = missed \cup blind
      /\ IF steps = {} THEN task' = Handled(t) ELSE task' = [task EXCEPT ![t] = q]
  BY DEF CascadeRestack, At
<1>2. task[t] \in Tasks /\ n \in Nodes /\ steps \subseteq Nodes
  BY DEF StackInv, Typed, Tasks, DirectRestack, Dependents
<1>3. steps # {} => task[t].succeeded
  OBVIOUS
<1>5. PICK r \in Tasks : /\ GoesOn(t, r) /\ r.node = n
                         /\ \/ r.phase = "handled" /\ steps = {}
                            \/ r.phase = "spawning" /\ r.todo = steps /\ r.succeeded
  <2>1. CASE steps = {}
    BY <1>1, <2>1, HandledIs DEF StackInv
  <2>2. CASE steps # {}
    <3>1. q \in Tasks /\ q.phase = "spawning" /\ q.todo = steps /\ q.node = n /\ q.succeeded
      <4>. HIDE DEF steps
      <4>. QED  BY <1>2, <1>3, <2>2 DEF Tasks
    <3>2. task' = [task EXCEPT ![t] = q]
      BY <1>1, <2>2
    <3>. HIDE DEF q
    <3>3. GoesOn(t, q)
      BY <3>2 DEF GoesOn
    <3>. QED  BY <3>1, <3>3
  <2>. QED  BY <2>1, <2>2
<1>6. Typed'
  BY <1>1, <1>2, <1>5 DEF StackInv, Typed, GoesOn
<1>7. KeysTrue'
  BY <1>1, <1>5, GoesOnTrue DEF StackInv
<1>8. \A m \in Nodes : FirstRun(m)'
  BY <1>1, <1>5, GoesOnFirst DEF StackInv
<1>9. ASSUME NEW d \in Nodes, NEW p \in DependsOn[d] PROVE Carried(d, p)'
  <2>1. SUFFICES ASSUME NEW e \in head'[p], e \notin head'[d], Cut(d)', d \notin missed'
                 PROVE  Due(p, d)' \/ OnItsWay(p, d, e)'
    BY DEF Carried
  <2>2. Cut(d)
    BY <1>1, <1>5, <2>1 DEF Cut, CutBefore, GoesOn, At
  <2>3. CASE OnItsWay(p, d, e)
    <3>1. OnItsWay(p, d, e)'
      BY <1>1, <1>5, <2>3 DEF OnItsWay, GoesOn, At
    <3>. QED  BY <3>1
  <2>4. CASE Due(p, d)
    <3>1. PICK u \in DOMAIN task :
            /\ task[u].node = p /\ u # FirstKey(p) /\ RestackKey(d, u) \notin DOMAIN task
            /\ \/ At(u, "ended") /\ task[u].succeeded
               \/ At(u, "spawning") /\ d \in task[u].todo
      BY <2>4 DEF Due
    <3>2. CASE u # t
      <4>1. task'[u] = task[u] /\ DOMAIN task' = DOMAIN task
        BY <1>5, <3>2 DEF GoesOn
      <4>. QED  BY <3>1, <4>1 DEF Due, At
    <3>3. CASE u = t
      <4>1. p = n /\ task[t].succeeded /\ d \in Dependents(n) /\ d \notin blind
        BY <1>1, <2>1, <3>1, <3>3 DEF At, Dependents
      <4>2. row[d] # "blocked"
        BY <2>2 DEF StackInv, FirstRun, Cut, CutBefore
      <4>3. row[d] # "releasing"
        BY <2>2, <4>1 DEF StackInv, FirstRun, Cut
      <4>4. row[d] \in {"released", "succeeded"}
        BY <4>2, <4>3 DEF StackInv, Typed
      <4>5. d \in steps
        BY <4>1, <4>4 DEF DirectRestack
      <4>6. task'[t] = r /\ r.phase = "spawning" /\ d \in r.todo /\ r.node = n
            /\ DOMAIN task' = DOMAIN task
        BY <1>5, <4>5 DEF GoesOn
      <4>. QED  BY <3>1, <3>3, <4>1, <4>6 DEF Due, At
    <3>. QED  BY <3>2, <3>3
  <2>. QED  BY <1>1, <2>1, <2>2, <2>3, <2>4 DEF StackInv, Carried
<1>. QED  BY <1>6, <1>7, <1>8, <1>9 DEF StackInv, Stacked

\* A task that spawns: one dependent fewer, whatever else is created.
LEMMA LessToDo ==
  ASSUME StackInv, NEW t \in DOMAIN task, task[t].phase = "spawning", NEW b \in BOOLEAN,
         NEW d
  PROVE  LET r == [task[t] EXCEPT !.todo = @ \ {d}, !.created = b] IN
         /\ r \in Tasks /\ r.node = task[t].node /\ r.phase = "spawning"
         /\ r.succeeded /\ r.todo = task[t].todo \ {d}
<1>1. task[t] \in Tasks /\ task[t].succeeded
  BY DEF StackInv, Typed, KeysTrue, At
<1>. QED  BY <1>1 DEF Tasks

\* The first runs are those of their key.
LEMMA FirstKeyOf ==
  ASSUME StackInv, NEW t \in DOMAIN task, task[t].phase = "spawning"
  PROVE  t # FirstKey(task[t].node)
<1>1. task[t].node \in Nodes
  BY DEF StackInv, Typed, Tasks
<1>. QED  BY <1>1 DEF StackInv, KeysTrue

\* What no restack is created for has one already, has no branch, or is missed.
LEMMA SkipKeeps ==
  ASSUME Stacked, StackInv, NEW t \in DOMAIN task, NEW d \in Nodes, NEW r \in Tasks,
         task[t].phase = "spawning", GoesOn(t, r), r.node = task[t].node,
         r.phase = "spawning", r.succeeded, r.todo = task[t].todo \ {d},
         UNCHANGED <<row, head, opened>>, missed \subseteq missed',
         d \notin missed' => RestackKey(d, t) \in DOMAIN task \/ ~Cut(d)
  PROVE  StackInv'
<1>1. Typed'
  BY DEF StackInv, Typed, GoesOn
<1>2. KeysTrue'
  BY FirstKeyOf, GoesOnTrue DEF StackInv
<1>3. \A m \in Nodes : FirstRun(m)'
  BY GoesOnFirst DEF StackInv
<1>4. ASSUME NEW c \in Nodes, NEW p \in DependsOn[c] PROVE Carried(c, p)'
  <2>1. SUFFICES ASSUME NEW e \in head'[p], e \notin head'[c], Cut(c)', c \notin missed'
                 PROVE  Due(p, c)' \/ OnItsWay(p, c, e)'
    BY DEF Carried
  <2>2. Cut(c)
    BY <2>1 DEF Cut, CutBefore, GoesOn, At
  <2>3. CASE OnItsWay(p, c, e)
    <3>1. OnItsWay(p, c, e)'
      BY <2>3 DEF OnItsWay, GoesOn, At
    <3>. QED  BY <3>1
  <2>4. CASE Due(p, c)
    <3>1. PICK u \in DOMAIN task :
            /\ task[u].node = p /\ u # FirstKey(p) /\ RestackKey(c, u) \notin DOMAIN task
            /\ \/ At(u, "ended") /\ task[u].succeeded
               \/ At(u, "spawning") /\ c \in task[u].todo
      BY <2>4 DEF Due
    <3>2. CASE u # t
      <4>1. task'[u] = task[u] /\ DOMAIN task' = DOMAIN task
        BY <3>2 DEF GoesOn
      <4>. QED  BY <3>1, <4>1 DEF Due, At
    <3>3. CASE u = t
      <4>1. c # d /\ c \in task[t].todo
        BY <2>1, <2>2, <3>1, <3>3 DEF At
      <4>2. task'[t] = r /\ c \in r.todo /\ DOMAIN task' = DOMAIN task
        BY <4>1 DEF GoesOn
      <4>. QED  BY <3>1, <3>3, <4>2 DEF Due, At
    <3>. QED  BY <3>2, <3>3
  <2>. QED  BY <2>1, <2>2, <2>3, <2>4 DEF StackInv, Carried
<1>. QED  BY <1>1, <1>2, <1>3, <1>4 DEF StackInv, Stacked

\* A restack that is created will merge what its dependent lacks.
LEMMA CreateRestackKeeps ==
  ASSUME Stacked, StackInv, NEW t \in DOMAIN task, NEW d \in task[t].todo,
         task[t].phase = "spawning", d \in opened, RestackKey(d, t) \notin DOMAIN task,
         task' = Plus([[task EXCEPT ![t].todo = @ \ {d}] EXCEPT ![t].created = TRUE],
                      RestackKey(d, t), Queued(d, MergeBranches(d))),
         UNCHANGED <<row, head, opened, missed>>
  PROVE  StackInv'
<1>. DEFINE k == RestackKey(d, t)
            q == Queued(d, MergeBranches(d))
            r == [task[t] EXCEPT !.todo = @ \ {d}, !.created = TRUE]
            mid == [[task EXCEPT ![t].todo = @ \ {d}] EXCEPT ![t].created = TRUE]
<1>1. task[t] \in Tasks /\ task[t].node \in Nodes /\ d \in Nodes /\ t \in Keys
  BY DEF StackInv, Typed, Tasks
<1>2. /\ r \in Tasks /\ r.node = task[t].node /\ r.phase = "spawning"
      /\ r.succeeded /\ r.todo = task[t].todo \ {d}
  BY LessToDo
<1>3. /\ q \in Tasks /\ q.phase = "queued" /\ q.node = d /\ q.merge = MergeBranches(d)
  <2>1. MergeBranches(d) \in SUBSET Nodes
    BY <1>1 DEF MergeBranches, Stacked
  <2>. QED  BY <1>1, <2>1, QueuedIs
<1>4. /\ k \in Keys
      /\ \A x \in Nodes \cup Edits : k # <<x>>
      /\ \A c \in Nodes, u \in Keys : k = RestackKey(c, u) => c = d /\ u = t
  BY <1>1, KeysDiffer
<1>5. /\ DOMAIN task' = DOMAIN task \cup {k} /\ k \notin DOMAIN task
      /\ task'[k] = q /\ task'[t] = r
      /\ \A u \in DOMAIN task \ {t} : task'[u] = task[u]
  <2>1. mid = [task EXCEPT ![t] = r]
    BY <1>1 DEF Tasks
  <2>2. task' = Plus(mid, k, q) /\ k \notin DOMAIN task
    OBVIOUS
  <2>. HIDE DEF mid, k, q, r
  <2>. QED  BY <2>1, <2>2 DEF Plus
<1>6. k = RestackKey(d, t)
  OBVIOUS
<1>. HIDE DEF k, q, r, mid
<1>7. Typed'
  <2>1. ASSUME NEW u \in DOMAIN task' PROVE task'[u] \in Tasks
    <3>1. CASE u = k
      BY <1>3, <1>5, <3>1
    <3>2. CASE u = t
      BY <1>2, <1>5, <3>2
    <3>3. CASE u \in DOMAIN task \ {t}
      <4>1. task'[u] = task[u]
        BY <1>5, <3>3
      <4>. QED  BY <3>3, <4>1 DEF StackInv, Typed
    <3>. QED  BY <1>5, <3>1, <3>2, <3>3
  <2>2. DOMAIN task' \subseteq Keys
    BY <1>4, <1>5 DEF StackInv, Typed
  <2>. QED  BY <2>1, <2>2 DEF StackInv, Typed
<1>8. KeysTrue'
  <2>1. SUFFICES ASSUME NEW u \in DOMAIN task \cup {k}
        PROVE  /\ \A n \in Nodes : u = FirstKey(n) =>
                     task'[u].node = n /\ task'[u].phase # "spawning"
               /\ \A c \in Nodes, v \in Keys : u = RestackKey(c, v) =>
                     v \in DOMAIN task' /\ task'[v].phase \notin {"queued", "running"}
               /\ task'[u].phase = "spawning" => task'[u].succeeded
    BY <1>5 DEF KeysTrue, At
  <2>2. CASE u = k
    <3>1. task'[u] = q
      BY <1>5, <2>2
    <3>2. \A n \in Nodes : u # FirstKey(n)
      BY <1>4, <2>2 DEF FirstKey
    <3>3. \A c \in Nodes, v \in Keys : u = RestackKey(c, v) => v = t
      BY <1>4, <2>2
    <3>4. t \in DOMAIN task' /\ task'[t].phase \notin {"queued", "running"}
      BY <1>2, <1>5
    <3>5. \A c \in Nodes, v \in Keys : u = RestackKey(c, v) =>
            v \in DOMAIN task' /\ task'[v].phase \notin {"queued", "running"}
      BY <3>3, <3>4
    <3>. QED  BY <1>3, <3>1, <3>2, <3>5
  <2>3. CASE u # k
    <3>1. /\ \A n \in Nodes : u = FirstKey(n) =>
                task[u].node = n /\ task[u].phase # "spawning"
          /\ \A c \in Nodes, v \in Keys : u = RestackKey(c, v) =>
                v \in DOMAIN task /\ task[v].phase \notin {"queued", "running"}
          /\ task[u].phase = "spawning" => task[u].succeeded
      BY <2>3 DEF StackInv, KeysTrue, At
    <3>2. /\ u # t => task'[u] = task[u]
          /\ u = t => task'[u] = r /\ task[u].phase = "spawning"
      BY <1>5, <2>3
    <3>3. \A c \in Nodes, v \in Keys : u = RestackKey(c, v) =>
            v \in DOMAIN task' /\ task'[v].phase \notin {"queued", "running"}
      <4>1. ASSUME NEW c \in Nodes, NEW v \in Keys, u = RestackKey(c, v)
            PROVE  v \in DOMAIN task' /\ task'[v].phase \notin {"queued", "running"}
        <5>1. v \in DOMAIN task /\ task[v].phase \notin {"queued", "running"}
          BY <3>1, <4>1
        <5>2. v \in DOMAIN task'
          BY <1>5, <5>1
        <5>3. CASE v = t
          BY <1>2, <1>5, <5>2, <5>3
        <5>4. CASE v # t
          <6>1. task'[v] = task[v]
            BY <1>5, <5>1, <5>4
          <6>. QED  BY <5>1, <5>2, <6>1
        <5>. QED  BY <5>3, <5>4
      <4>. QED  BY <4>1
    <3>4. \A n \in Nodes : u = FirstKey(n) =>
            task'[u].node = n /\ task'[u].phase # "spawning"
      BY <3>1, <3>2
    <3>. QED  BY <1>2, <3>1, <3>2, <3>3, <3>4
  <2>. QED  BY <2>2, <2>3
<1>9. ASSUME NEW m \in Nodes PROVE FirstRun(m)'
  <2>1. FirstKey(m) # k /\ FirstKey(m) # t
    <3>1. FirstKey(m) # k
      BY <1>4 DEF FirstKey
    <3>. QED  BY <3>1 DEF StackInv, KeysTrue
  <2>2. /\ FirstKey(m) \in DOMAIN task' <=> FirstKey(m) \in DOMAIN task
        /\ FirstKey(m) \in DOMAIN task => task'[FirstKey(m)] = task[FirstKey(m)]
    BY <1>5, <2>1
  <2>. QED  BY <2>2 DEF StackInv, FirstRun, CutBefore, At
<1>10. ASSUME NEW c \in Nodes, NEW p \in DependsOn[c] PROVE Carried(c, p)'
  <2>. p \in Nodes
    BY DEF Stacked
  <2>1. Cut(c)' => Cut(c)
    <3>1. FirstKey(c) # k /\ FirstKey(c) # t
      <4>1. FirstKey(c) # k
        BY <1>4 DEF FirstKey
      <4>. QED  BY <4>1 DEF StackInv, KeysTrue
    <3>. QED  BY <1>5, <3>1 DEF Cut, CutBefore, At
  <2>2. ASSUME Due(p, c) PROVE Due(p, c)' \/ \A e : OnItsWay(p, c, e)'
    <3>1. PICK u \in DOMAIN task :
            /\ task[u].node = p /\ u # FirstKey(p) /\ RestackKey(c, u) \notin DOMAIN task
            /\ \/ At(u, "ended") /\ task[u].succeeded
               \/ At(u, "spawning") /\ c \in task[u].todo
      BY <2>2 DEF Due
    <3>2. CASE c = d /\ u = t
      <4>1. row[d] # "blocked"
        BY <1>1 DEF StackInv, FirstRun
      <4>2. row[p] = "succeeded"
        BY <1>1, <3>2, <4>1 DEF StackInv, FirstRun
      <4>3. p \in q.merge
        BY <1>3, <3>2, <4>2 DEF MergeBranches
      <4>4. k \in DOMAIN task' /\ task'[k].node = c /\ task'[k].phase = "queued"
            /\ p \in task'[k].merge
        BY <1>3, <1>5, <3>2, <4>3
      <4>. QED  BY <4>4 DEF OnItsWay, At
    <3>3. CASE ~(c = d /\ u = t)
      <4>1. RestackKey(c, u) # k
        BY <1>4, <3>3 DEF StackInv, Typed
      <4>2. RestackKey(c, u) \notin DOMAIN task' /\ u \in DOMAIN task'
        BY <1>5, <3>1, <4>1
      <4>3. CASE u # t
        <5>1. task'[u] = task[u]
          BY <1>5, <4>3
        <5>. QED  BY <3>1, <4>2, <5>1 DEF Due, At
      <4>4. CASE u = t
        <5>1. task'[t] = r /\ c # d /\ c \in task[t].todo
          BY <1>5, <3>1, <3>3, <4>4 DEF At
        <5>2. r.phase = "spawning" /\ c \in r.todo /\ r.node = p
          BY <1>2, <3>1, <4>4, <5>1
        <5>. QED  BY <3>1, <4>2, <4>4, <5>1, <5>2 DEF Due, At
      <4>. QED  BY <4>3, <4>4
    <3>. QED  BY <3>2, <3>3
  <2>3. ASSUME NEW e, OnItsWay(p, c, e) PROVE OnItsWay(p, c, e)'
    <3>1. PICK u \in DOMAIN task :
            /\ task[u].node = c
            /\ \/ At(u, "queued") /\ p \in task[u].merge
               \/ At(u, "running") /\ e \in task[u].has
      BY <2>3 DEF OnItsWay
    <3>2. u # t
      BY <3>1 DEF At
    <3>3. u \in DOMAIN task' /\ task'[u] = task[u]
      BY <1>5, <3>2
    <3>. QED  BY <3>1, <3>3 DEF OnItsWay, At
  <2>. QED  BY <2>1, <2>2, <2>3, StaysCarried DEF StackInv
<1>. QED  BY <1>7, <1>8, <1>9, <1>10 DEF StackInv, Stacked

LEMMA SpawnKeeps ==
  ASSUME Stacked, StackInv, NEW t \in DOMAIN task, NEW d \in Nodes, SpawnRestack(t, d)
  PROVE  StackInv'
<1>. DEFINE spawned == [task EXCEPT ![t].todo = @ \ {d}]
            r == [task[t] EXCEPT !.todo = @ \ {d}, !.created = task[t].created]
<1>1. /\ task[t].phase = "spawning" /\ d \in task[t].todo
      /\ UNCHANGED <<row, head, opened>>
      /\ \/ /\ d \in opened /\ RestackKey(d, t) \notin DOMAIN task
            /\ task' = Plus([spawned EXCEPT ![t].created = TRUE],
                            RestackKey(d, t), Queued(d, MergeBranches(d)))
            /\ missed' = missed
         \/ /\ task' = spawned /\ missed \subseteq missed'
            /\ d \notin missed' => RestackKey(d, t) \in DOMAIN task \/ ~Cut(d)
  BY DEF SpawnRestack, At, Cut
<1>2. CASE task' = spawned /\ missed \subseteq missed'
           /\ (d \notin missed' => RestackKey(d, t) \in DOMAIN task \/ ~Cut(d))
  <2>1. task[t] \in Tasks
    BY DEF StackInv, Typed
  <2>2. spawned = [task EXCEPT ![t] = r]
    BY <2>1 DEF Tasks
  <2>3. /\ r \in Tasks /\ r.node = task[t].node /\ r.phase = "spawning"
        /\ r.succeeded /\ r.todo = task[t].todo \ {d}
    <3>1. task[t].created \in BOOLEAN
      BY <2>1 DEF Tasks
    <3>2. task[t].succeeded
      BY <1>1 DEF StackInv, KeysTrue, At
    <3>3. r \in Tasks
      BY <2>1, <3>1 DEF Tasks
    <3>. QED  BY <1>1, <2>1, <3>2, <3>3 DEF Tasks
  <2>4. task' = [task EXCEPT ![t] = r]
    BY <1>2, <2>2
  <2>. HIDE DEF r, spawned
  <2>5. GoesOn(t, r)
    BY <2>4 DEF GoesOn
  <2>. QED  BY <1>1, <1>2, <2>3, <2>5, SkipKeeps
<1>. QED  BY <1>1, <1>2, CreateRestackKeeps

\* A task with nothing to do, or given up, owes nothing that is not missed.
LEMMA LeavesSpawning ==
  ASSUME Stacked, StackInv, NEW t \in DOMAIN task, NEW r \in Tasks,
         task[t].phase = "spawning", GoesOn(t, r), r.node = task[t].node,
         UNCHANGED <<row, head, opened>>, missed \subseteq missed',
         \/ r.phase = "handled" /\ task[t].todo \subseteq missed'
         \/ r.phase = "ended" /\ r.succeeded
  PROVE  StackInv'
<1>1. Typed'
  BY DEF StackInv, Typed, GoesOn
<1>2. KeysTrue'
  BY GoesOnTrue DEF StackInv
<1>3. \A m \in Nodes : FirstRun(m)'
  BY GoesOnFirst DEF StackInv
<1>4. ASSUME NEW d \in Nodes, NEW p \in DependsOn[d] PROVE Carried(d, p)'
  <2>1. Cut(d)' => Cut(d)
    BY DEF Cut, CutBefore, GoesOn, At
  <2>2. ASSUME Due(p, d), d \notin missed' PROVE Due(p, d)'
    <3>1. PICK u \in DOMAIN task :
            /\ task[u].node = p /\ u # FirstKey(p) /\ RestackKey(d, u) \notin DOMAIN task
            /\ \/ At(u, "ended") /\ task[u].succeeded
               \/ At(u, "spawning") /\ d \in task[u].todo
      BY <2>2 DEF Due
    <3>2. CASE u # t
      <4>1. task'[u] = task[u] /\ DOMAIN task' = DOMAIN task
        BY <3>2 DEF GoesOn
      <4>. QED  BY <3>1, <4>1 DEF Due, At
    <3>3. CASE u = t
      <4>1. r.phase = "ended" /\ r.succeeded
        BY <2>2, <3>1, <3>3 DEF At
      <4>2. task'[t] = r /\ DOMAIN task' = DOMAIN task
        BY DEF GoesOn
      <4>. QED  BY <3>1, <3>3, <4>1, <4>2 DEF Due, At
    <3>. QED  BY <3>2, <3>3
  <2>3. \A e : OnItsWay(p, d, e) => OnItsWay(p, d, e)'
    BY DEF OnItsWay, GoesOn, At
  <2>. QED  BY <2>1, <2>2, <2>3, StaysCarried DEF StackInv
<1>. QED  BY <1>1, <1>2, <1>3, <1>4 DEF StackInv, Stacked

LEMMA ReopenKeeps ==
  ASSUME Stacked, StackInv, NEW t \in DOMAIN task, ReopenEpic(t)
  PROVE  StackInv'
<1>1. /\ task[t].phase = "spawning" /\ task[t].todo = {} /\ task' = Handled(t)
      /\ UNCHANGED <<row, head, opened, missed>>
  BY DEF ReopenEpic, At
<1>2. PICK r \in Tasks : GoesOn(t, r) /\ r.node = task[t].node /\ r.phase = "handled"
  BY <1>1, HandledIs DEF StackInv
<1>. QED  BY <1>1, <1>2, LeavesSpawning

\* A record that is delivered again finds the same dependents.
LEMMA CrashKeeps ==
  ASSUME Stacked, StackInv, NEW t \in DOMAIN task, Crash(t)
  PROVE  StackInv'
<1>. DEFINE q == [task[t] EXCEPT !.phase = "ended", !.retries = @ + 1]
<1>1. /\ task[t].phase = "spawning" /\ UNCHANGED <<row, head, opened>>
      /\ \/ task' = [task EXCEPT ![t].phase = "ended", ![t].retries = @ + 1]
            /\ missed' = missed
         \/ task' = Handled(t) /\ missed' = missed \cup task[t].todo
  BY DEF Crash, At
<1>2. CASE task' = Handled(t) /\ missed' = missed \cup task[t].todo
  <2>1. PICK r \in Tasks : GoesOn(t, r) /\ r.node = task[t].node /\ r.phase = "handled"
    BY <1>2, HandledIs DEF StackInv
  <2>. QED  BY <1>1, <1>2, <2>1, LeavesSpawning
<1>3. CASE task' = [task EXCEPT ![t].phase = "ended", ![t].retries = @ + 1]
           /\ missed' = missed
  <2>1. task[t] \in Tasks /\ task[t].succeeded
    BY <1>1 DEF StackInv, Typed, KeysTrue, At
  <2>2. q \in Tasks /\ q.node = task[t].node /\ q.phase = "ended" /\ q.succeeded
    <3>1. task[t].retries + 1 \in Nat
      BY <2>1 DEF Tasks
    <3>2. q \in Tasks
      BY <2>1, <3>1 DEF Tasks
    <3>. QED  BY <2>1, <3>2 DEF Tasks
  <2>3. task' = [task EXCEPT ![t] = q]
    BY <1>3, <2>1 DEF Tasks
  <2>. HIDE DEF q
  <2>4. GoesOn(t, q)
    BY <2>3 DEF GoesOn
  <2>. QED  BY <1>1, <1>3, <2>2, <2>4, LeavesSpawning
<1>. QED  BY <1>1, <1>2, <1>3

-----------------------------------------------------------------------------

LEMMA StackInit == Stacked /\ Init => StackInv
<1>. SUFFICES ASSUME Stacked, Init PROVE StackInv
  OBVIOUS
<1>1. PICK late \in SUBSET Late :
        /\ \A n \in late : Dependents(n) \subseteq late
        /\ row = [n \in Nodes |-> IF n \in late THEN "blocked" ELSE "succeeded"]
        /\ opened = Nodes \ late
  BY DEF Init
<1>2. head = [n \in Nodes |-> {}] /\ task = << >>
  BY DEF Init
<1>3. DOMAIN task = {}
  BY <1>2
<1>4. Typed /\ KeysTrue
  BY <1>1, <1>2, <1>3 DEF Typed, KeysTrue
<1>5. ASSUME NEW n \in Nodes PROVE FirstRun(n)
  <2>1. ASSUME NEW p \in DependsOn[n], row[n] # "blocked" PROVE row[p] = "succeeded"
    <3>1. p \in Nodes /\ n \in Dependents(p) /\ n \notin late
      BY <1>1, <2>1 DEF Stacked, Dependents
    <3>. QED  BY <1>1, <3>1
  <2>. QED  BY <1>1, <1>3, <2>1 DEF FirstRun
<1>6. ASSUME NEW d \in Nodes, NEW p \in DependsOn[d] PROVE Carried(d, p)
  BY <1>2 DEF Carried, Stacked
<1>. QED  BY <1>4, <1>5, <1>6 DEF StackInv

LEMMA StackStep ==
  ASSUME Stacked, StackInv, [Next]_vars
  PROVE  StackInv'
<1>1. CASE UNCHANGED <<row, head, opened, task, missed>>
  BY <1>1 DEF StackInv, Typed, KeysTrue, FirstRun, Carried, Cut, CutBefore, Due, OnItsWay, At
<1>2. CASE UNCHANGED vars
  BY <1>1, <1>2 DEF vars
<1>3. CASE Sweep
  BY <1>1, <1>3 DEF Sweep
<1>4. ASSUME NEW t \in DOMAIN task, Handle(t) PROVE StackInv'
  BY <1>4, SetUpKeeps, SucceedKeeps, FailKeeps, CascadeKeeps, ReopenKeeps, SpawnKeeps
     DEF Handle
<1>5. CASE Next
  BY <1>3, <1>4, <1>5, CommentKeeps, ClaimKeeps, CreateKeeps, RecordKeeps, FirstEndsKeeps,
     CrashKeeps DEF Next, Scheduled
<1>. QED  BY <1>2, <1>5

\* When all tasks are done nothing is due or on its way.
LEMMA CurrentImplied ==
  ASSUME Stacked, StackInv
  PROVE  StackIsCurrent
<1>1. SUFFICES ASSUME \A t \in DOMAIN task : At(t, "handled"), NEW d \in Nodes, Stale(d)
               PROVE  d \in missed
  BY DEF StackIsCurrent
<1>2. PICK p \in DependsOn[d] : ~(head[p] \subseteq head[d])
  BY <1>1 DEF Stale
<1>3. PICK e \in head[p] : e \notin head[d]
  BY <1>2
<1>4. Cut(d)
  BY <1>1 DEF Cut, Stale
<1>5. ~Due(p, d) /\ ~OnItsWay(p, d, e)
  BY <1>1 DEF Due, OnItsWay, At
<1>. QED  BY <1>2, <1>3, <1>4, <1>5 DEF StackInv, Carried

\* Whatever revisions meet on a stack, and however the epic still grows: once all
\* tasks are done, a branch that lacks a revision of its predecessor's is one whose
\* restack failed, was refused or rejected, or came while its first task was at work.
THEOREM StackStaysCurrent == Stacked => (Spec => []StackIsCurrent)
<1>. SUFFICES ASSUME Stacked PROVE Spec => []StackIsCurrent
  OBVIOUS
<1>1. Init => StackInv
  BY StackInit
<1>2. StackInv /\ [Next]_vars => StackInv'
  BY StackStep
<1>3. StackInv => StackIsCurrent
  BY CurrentImplied
<1>. QED  BY <1>1, <1>2, <1>3, PTL DEF Spec
=============================================================================
