------------------------- MODULE GlobalRuntimeProofs -------------------------
(***************************************************************************)
(* Theorems about GlobalRuntime for any callers and any pool sizes: one    *)
(* runtime survives however many threads race to configure it, a shutdown  *)
(* that counted no worker leaves none inside a task, and what the default  *)
(* size of a pool is.                                                      *)
(***************************************************************************)
EXTENDS GlobalRuntime, FiniteSetTheorems, TLAPS

\* worker_count_for_cores (runtime.rs:163-173 and its tests): never fewer
\* workers than cores, headroom up to the cap, and none beyond it.
THEOREM DefaultPolicy ==
  ASSUME NEW cores \in Nat \ {0}, NEW usizeMax \in Nat,
         cores <= usizeMax, 65535 <= usizeMax
  PROVE  /\ WorkerCountForCores(cores, usizeMax) \in cores..usizeMax
         /\ cores + 4 <= 32 => WorkerCountForCores(cores, usizeMax) = cores + 4
         /\ cores + 4 > 32 /\ cores <= 32 => WorkerCountForCores(cores, usizeMax) = 32
         /\ cores > 32 => WorkerCountForCores(cores, usizeMax) = cores
BY DEF WorkerCountForCores, BLOCKING_HEADROOM, DEFAULT_WORKERS_CAP

\* workers_from_env and resolve_worker_count (runtime.rs:192-206, 232-242): a
\* pool of "automatic" size has a worker, whatever the variable holds, and as
\* many as the variable says or at least one for each core.
THEOREM AutomaticSize ==
  /\ AutoSize \in 1..UsizeMax
  /\ \A n \in Env : n # 0 => AutoSize = n
  /\ Env \subseteq {0} => AutoSize >= Cores
<1>1. CASE WorkersFromEnv = {}
  <2>1. AutoSize \in Cores..UsizeMax
    BY <1>1, DefaultPolicy, SizeAssumption DEF AutoSize
  <2> QED BY <1>1, <2>1, SizeAssumption DEF WorkersFromEnv
<1>2. CASE WorkersFromEnv # {}
  <2>1. PICK n \in WorkersFromEnv : n \in Env /\ n # 0
    BY <1>2 DEF WorkersFromEnv
  <2>2. \A m \in Env : m = n
    BY <2>1, SizeAssumption
  <2>3. \A m \in WorkersFromEnv : m = n
    BY <2>2 DEF WorkersFromEnv
  <2>4. AutoSize = n
    BY <1>2, <2>3 DEF AutoSize
  <2> QED BY <2>1, <2>2, <2>4, SizeAssumption
<1> QED BY <1>1, <1>2

-----------------------------------------------------------------------------
\* resolve_worker_count
LEMMA Resolved ==
  /\ Resolve(0) \in Sizes
  /\ \A n \in Requested : Resolve(n) \in Sizes
  /\ Sizes \subseteq 1..MaxSize /\ MaxSize \in Nat
BY RuntimeAssumption DEF Sizes

\* The threads of a new pool.
LEMMA PoolThreads ==
  ASSUME NEW c \in Callers, NEW n \in Sizes
  PROVE  PoolOf(c, n) \subseteq Workers
BY Resolved DEF PoolOf, Workers

\* active_count() is zero only if no worker of the pool is registered.
LEMMA NoneActive ==
  ASSUME NEW c \in Callers, TypeOK, ActiveCount(c) = 0,
         NEW w \in Started(c)
  PROVE  ~Registered(w)
<1> DEFINE R == {v \in Started(c) : Registered(v)}
<1>1. size[c] \in Nat
  <2>1. size[c] \in Sizes \cup {0}
    BY DEF TypeOK
  <2>2. \A n \in Sizes : n \in Nat
    BY Resolved
  <2> QED BY <2>1, <2>2
<1>2. IsFiniteSet(1..size[c])
  BY <1>1, FS_Interval
<1>3. IsFiniteSet({c} \X (1..size[c]))
  BY <1>2, FS_Product, FS_Singleton
<1>4. IsFiniteSet(R)
  BY <1>3, FS_Subset DEF Started, PoolOf
<1>5. R = {}
  BY <1>4, FS_EmptySet DEF ActiveCount
<1> QED BY <1>5

-----------------------------------------------------------------------------
\* How the OnceLock, the creators and the actors' targets stand to each other.
Once ==
    /\ cell = "set" <=> global # None
    /\ \A c \in Callers : pc[c] = "init" => cell = "initializing"
    /\ \A c, d \in Callers : pc[c] = "init" /\ pc[d] = "init" => c = d
    /\ \A c \in Callers : size[c] # 0 => cell = "set" \/ pc[c] = "publish"
    /\ \A c \in Callers : pc[c] = "publish" => c # global
    /\ \A a \in Actors : pc[a] \in {"stop", "drain", "join", "watch"} => cell = "set"
    /\ \A a \in Actors : pc[a] \in {"stop", "drain", "join"} =>
         target[a] = global \/ (a \in Callers /\ target[a] = a)

\* configure, shutdown and the workers leave every variable in its type; a
\* worker calls shutdown from inside a task and never joins itself.
LEMMA Typed == Spec => [](TypeOK /\ Once)
<1>1. Init => TypeOK /\ Once
  <2> SUFFICES ASSUME Init PROVE TypeOK /\ Once
    OBVIOUS
  <2>1. zero \in {None, "early", "counted"}
    BY DEF Init
  <2>2. /\ handles \in [Callers -> SUBSET Workers]
        /\ toJoin \in [Actors -> SUBSET Workers]
        /\ \A a \in Actors : a \notin toJoin[a]
    BY DEF Init
  <2>3. TypeOK
    BY <2>1, <2>2, SMT DEF Init, TypeOK
  <2>4. Once
    BY RuntimeAssumption DEF Init, Once, Actors
  <2> QED BY <2>3, <2>4
<1>2. TypeOK /\ Once /\ [Next]_vars => TypeOK'
  <2> SUFFICES ASSUME TypeOK, Once, [Next]_vars
               PROVE  TypeOK'
    OBVIOUS
  <2> USE RuntimeAssumption, Resolved DEF TypeOK, Once, Goto, poolVars, Tell,
          Results, Actors, MayCall
  <2>1. ASSUME NEW c \in Callers, Configure(c) PROVE TypeOK'
    <3>1. CASE cell = "set"
      BY <2>1, <3>1 DEF Configure
    <3>2. CASE cell # "set"
      <4>1. PICK n \in Sizes : NewPool(c, n)
        BY <2>1, <3>2 DEF Configure
      <4>2. /\ size' \in [Callers -> Sizes \cup {0}]
            /\ handles' \in [Callers -> SUBSET Workers]
            /\ wst' \in [Workers -> {"none", "starting", "loop", "task", "exited"}]
        BY <4>1, PoolThreads DEF NewPool
      <4>3. /\ pc' = [pc EXCEPT ![c] = "publish"]
            /\ UNCHANGED <<cell, global, stopped, detached, answer, target, toJoin, zero>>
        BY <2>1, <3>2 DEF Configure
      <4> QED BY <4>2, <4>3
    <3> QED BY <3>1, <3>2
  <2>2. ASSUME NEW c \in Callers, Publish(c) PROVE TypeOK'
    BY <2>2 DEF Publish, Publishes, Lose
  <2>3. ASSUME NEW c \in Callers, GetOrInit(c) PROVE TypeOK'
    BY <2>3 DEF GetOrInit
  <2>4. ASSUME NEW c \in Callers, Initialize(c) PROVE TypeOK'
    <3>1. NewPool(c, Resolve(0))
      BY <2>4 DEF Initialize
    <3>2. /\ size' \in [Callers -> Sizes \cup {0}]
          /\ handles' \in [Callers -> SUBSET Workers]
          /\ wst' \in [Workers -> {"none", "starting", "loop", "task", "exited"}]
      BY <3>1, PoolThreads DEF NewPool
    <3> QED BY <2>4, <3>2 DEF Initialize
  <2>5. ASSUME NEW w \in Workers, Register(w) PROVE TypeOK'
    BY <2>5 DEF Register
  <2>6. ASSUME NEW w \in Workers, StartTask(w) PROVE TypeOK'
    BY <2>6 DEF StartTask, MayRun
  <2>7. ASSUME NEW w \in Workers, EndTask(w) PROVE TypeOK'
    BY <2>7 DEF EndTask
  <2>8. ASSUME NEW w \in Workers, Exit(w) PROVE TypeOK'
    BY <2>8 DEF Exit
  <2>9. ASSUME NEW a \in Actors, Shutdown(a) PROVE TypeOK'
    BY <2>9 DEF Shutdown, Inside
  <2>10. ASSUME NEW a \in Actors, Stop(a) PROVE TypeOK'
    BY <2>10 DEF Stop
  <2>11. ASSUME NEW a \in Actors, DrainHandles(a) PROVE TypeOK'
    BY <2>11 DEF DrainHandles, Joinable
  <2>12. ASSUME NEW a \in Actors, Joined(a) PROVE TypeOK'
    BY <2>12 DEF Joined
  <2>13. ASSUME NEW a \in Actors, ShutdownWithTimeout(a) PROVE TypeOK'
    BY <2>13 DEF ShutdownWithTimeout, Inside
  <2>14. ASSUME NEW a \in Actors, ReturnAlive(a) PROVE TypeOK'
    BY <2>14 DEF ReturnAlive
  <2>15. CASE UNCHANGED vars
    BY <2>15 DEF vars
  <2>16. ASSUME NEW a \in Actors, FindNone(a) PROVE TypeOK'
    BY <2>16 DEF FindNone
  <2> QED
    BY <2>1, <2>2, <2>3, <2>4, <2>5, <2>6, <2>7, <2>8, <2>9, <2>10, <2>11, <2>12, <2>13, <2>14, <2>15,
       <2>16
    DEF Next, CallStep, WorkerStep
<1>3. TypeOK /\ Once /\ [Next]_vars => Once'
  <2> SUFFICES ASSUME TypeOK, Once, [Next]_vars
               PROVE  Once'
    OBVIOUS
  <2> USE RuntimeAssumption, Resolved DEF TypeOK, Once, Goto, poolVars, Tell, MayCall,
          Actors
  <2>1. ASSUME NEW c \in Callers, Configure(c) PROVE Once'
    <3>1. CASE cell = "set"
      BY <2>1, <3>1 DEF Configure
    <3>2. CASE cell # "set"
      <4>1. PICK n \in Sizes : NewPool(c, n)
        BY <2>1, <3>2 DEF Configure
      <4>2. \A d \in Callers : d # c => size'[d] = size[d]
        BY <4>1 DEF NewPool
      <4>3. pc' = [pc EXCEPT ![c] = "publish"] /\ UNCHANGED <<cell, global, target>>
        BY <2>1, <3>2 DEF Configure
      <4> QED BY <3>2, <4>2, <4>3
    <3> QED BY <3>1, <3>2
  <2>2. ASSUME NEW c \in Callers, Publish(c) PROVE Once'
    BY <2>2 DEF Publish, Publishes, Lose
  <2>3. ASSUME NEW c \in Callers, GetOrInit(c) PROVE Once'
    BY <2>3 DEF GetOrInit
  <2>4. ASSUME NEW c \in Callers, Initialize(c) PROVE Once'
    <3>1. /\ cell' = "set" /\ global' = c /\ c # None
          /\ pc[c] = "init" /\ pc' = [pc EXCEPT ![c] = "idle"] /\ UNCHANGED target
      BY <2>4 DEF Initialize
    <3>2. cell = "initializing" /\ \A d \in Callers : pc'[d] # "init"
      BY <3>1
    <3> QED BY <3>1, <3>2
  <2>5. ASSUME NEW w \in Workers, Register(w) PROVE Once'
    BY <2>5 DEF Register
  <2>6. ASSUME NEW w \in Workers, StartTask(w) PROVE Once'
    BY <2>6 DEF StartTask, MayRun
  <2>7. ASSUME NEW w \in Workers, EndTask(w) PROVE Once'
    BY <2>7 DEF EndTask
  <2>8. ASSUME NEW w \in Workers, Exit(w) PROVE Once'
    BY <2>8 DEF Exit
  <2>9. ASSUME NEW a \in Actors, Shutdown(a) PROVE Once'
    BY <2>9 DEF Shutdown, Inside
  <2>10. ASSUME NEW a \in Actors, Stop(a) PROVE Once'
    BY <2>10 DEF Stop
  <2>11. ASSUME NEW a \in Actors, DrainHandles(a) PROVE Once'
    BY <2>11 DEF DrainHandles, Joinable
  <2>12. ASSUME NEW a \in Actors, Joined(a) PROVE Once'
    BY <2>12 DEF Joined
  <2>13. ASSUME NEW a \in Actors, ShutdownWithTimeout(a) PROVE Once'
    BY <2>13 DEF ShutdownWithTimeout, Inside
  <2>14. ASSUME NEW a \in Actors, ReturnAlive(a) PROVE Once'
    BY <2>14 DEF ReturnAlive
  <2>15. CASE UNCHANGED vars
    BY <2>15 DEF vars
  <2>16. ASSUME NEW a \in Actors, FindNone(a) PROVE Once'
    BY <2>16 DEF FindNone
  <2> QED
    BY <2>1, <2>2, <2>3, <2>4, <2>5, <2>6, <2>7, <2>8, <2>9, <2>10, <2>11, <2>12, <2>13, <2>14, <2>15,
       <2>16
    DEF Next, CallStep, WorkerStep
<1> QED
  BY <1>1, <1>2, <1>3, PTL DEF Spec

\* A live thread of a candidate pool is in the hands of the candidate's
\* creator, who publishes the pool or shuts it down before its call returns.
Alive(w) == wst[w] \in {"starting", "loop", "task"}
Tended ==
    /\ \A w \in Workers : wst[w] # "none" => w \in Started(Pool(w))
    /\ \A w \in Workers : Alive(w) /\ Pool(w) # global =>
         \/ pc[Pool(w)] = "publish" /\ w \in handles[Pool(w)]
         \/ /\ target[Pool(w)] = Pool(w)
            /\ \/ pc[Pool(w)] \in {"stop", "drain"} /\ w \in handles[Pool(w)]
               \/ pc[Pool(w)] = "join" /\ w \in toJoin[Pool(w)]

\* What a new pool changes.
LEMMA Created ==
  ASSUME TypeOK, Once, Tended, NEW c \in Callers, NEW n \in Sizes,
         cell # "set", pc[c] # "publish", NewPool(c, n)
  PROVE  /\ \A w \in Workers : wst'[w] # "none" => w \in Started(Pool(w))'
         /\ \A w \in Workers : Pool(w) # c => wst'[w] = wst[w]
         /\ \A w \in Workers : Pool(w) = c /\ wst'[w] # "none" => w \in handles'[c]
         /\ \A d \in Callers : d # c => handles'[d] = handles[d]
<1> DEFINE new == PoolOf(c, n)
<1>1. /\ size' = [size EXCEPT ![c] = n]
      /\ handles' = [handles EXCEPT ![c] = new]
      /\ wst' = [w \in Workers |-> IF w \in new THEN "starting" ELSE wst[w]]
  BY DEF NewPool
<1>2. size[c] = 0
  BY DEF Once
<1>3. \A w \in Workers : Pool(w) = c => wst[w] = "none"
  <2> SUFFICES ASSUME NEW w \in Workers, Pool(w) = c, wst[w] # "none"
               PROVE  FALSE
    OBVIOUS
  <2>1. w \in {c} \X (1..0)
    BY <1>2 DEF Tended, Started, PoolOf
  <2> QED BY <2>1
<1>4. \A w \in new : Pool(w) = c
  BY DEF PoolOf, Pool
<1>5. \A w \in Workers : Pool(w) \in Callers
  BY DEF Workers, Pool
<1> HIDE DEF new
<1>6. size'[c] = n /\ \A d \in Callers : d # c => size'[d] = size[d]
  BY <1>1 DEF TypeOK
<1>7. Started(c)' = new /\ \A d \in Callers : d # c => Started(d)' = Started(d)
  BY <1>6 DEF Started, new
<1>8. ASSUME NEW w \in Workers, wst'[w] # "none"
      PROVE  w \in Started(Pool(w))'
  <2>1. CASE w \in new
    BY <2>1, <1>4, <1>7
  <2>2. CASE w \notin new
    BY <2>2, <1>1, <1>3, <1>5, <1>7, <1>8 DEF Tended
  <2> QED BY <2>1, <2>2
<1>9. \A w \in Workers : Pool(w) # c => wst'[w] = wst[w]
  BY <1>1, <1>4
<1>10. \A w \in Workers : Pool(w) = c /\ wst'[w] # "none" => w \in handles'[c]
  BY <1>1, <1>3 DEF TypeOK
<1>11. \A d \in Callers : d # c => handles'[d] = handles[d]
  BY <1>1 DEF TypeOK
<1> QED BY <1>8, <1>9, <1>10, <1>11

LEMMA TendedInvariant == Spec => []Tended
<1>1. Init => Tended
  BY DEF Init, Tended, Alive
<1>2. TypeOK /\ Once /\ Tended /\ [Next]_vars => Tended'
  <2> SUFFICES ASSUME TypeOK, Once, Tended, [Next]_vars
               PROVE  Tended'
    OBVIOUS
  <2>0. \A w \in Workers : Pool(w) \in Callers /\ w \notin Callers
    BY RuntimeAssumption DEF Workers, Pool
  <2> USE RuntimeAssumption, Resolved, <2>0 DEF TypeOK, Once, Tended, Alive, Goto,
          poolVars, Tell, MayCall, Actors, Started
  <2>1. ASSUME NEW c \in Callers, Configure(c) PROVE Tended'
    <3>1. CASE cell = "set"
      BY <2>1, <3>1 DEF Configure
    <3>2. CASE cell # "set"
      <4>1. PICK n \in Sizes : NewPool(c, n)
        BY <2>1, <3>2 DEF Configure
      <4>2. pc[c] # "publish" /\ pc' = [pc EXCEPT ![c] = "publish"]
            /\ UNCHANGED <<global, target, toJoin>>
        BY <2>1, <3>2 DEF Configure
      <4> QED BY <3>2, <4>1, <4>2, Created
    <3> QED BY <3>1, <3>2
  <2>2. ASSUME NEW c \in Callers, Publish(c) PROVE Tended'
    BY <2>2 DEF Publish, Publishes, Lose
  <2>3. ASSUME NEW c \in Callers, GetOrInit(c) PROVE Tended'
    BY <2>3 DEF GetOrInit
  <2>4. ASSUME NEW c \in Callers, Initialize(c) PROVE Tended'
    <3>1. /\ global' = c /\ NewPool(c, Resolve(0)) /\ pc[c] = "init"
          /\ pc' = [pc EXCEPT ![c] = "idle"] /\ UNCHANGED <<target, toJoin>>
      BY <2>4 DEF Initialize
    <3>2. cell # "set" /\ global = None /\ Resolve(0) \in Sizes
      BY <3>1
    <3>3. /\ \A w \in Workers : wst'[w] # "none" => w \in Started(Pool(w))'
          /\ \A w \in Workers : Pool(w) # c => wst'[w] = wst[w]
          /\ \A d \in Callers : d # c => handles'[d] = handles[d]
      <4> HIDE DEF TypeOK, Once, Tended, Started
      <4> QED BY <3>1, <3>2, Created
    <3>4. ASSUME NEW w \in Workers, Pool(w) # c
          PROVE  /\ wst'[w] = wst[w] /\ handles'[Pool(w)] = handles[Pool(w)]
                 /\ pc'[Pool(w)] = pc[Pool(w)] /\ Pool(w) # global
      <4>1. wst'[w] = wst[w] /\ handles'[Pool(w)] = handles[Pool(w)]
        BY <2>0, <3>3, <3>4
      <4>2. pc'[Pool(w)] = pc[Pool(w)] /\ Pool(w) # global
        BY <3>1, <3>2, <3>4
      <4> QED BY <4>1, <4>2
    <3> QED BY <3>1, <3>3, <3>4
  <2>5. ASSUME NEW w \in Workers, Register(w) PROVE Tended'
    BY <2>5 DEF Register
  <2>6. ASSUME NEW w \in Workers, StartTask(w) PROVE Tended'
    BY <2>6 DEF StartTask, MayRun
  <2>7. ASSUME NEW w \in Workers, EndTask(w) PROVE Tended'
    BY <2>7 DEF EndTask
  <2>8. ASSUME NEW w \in Workers, Exit(w) PROVE Tended'
    BY <2>8 DEF Exit
  <2>9. ASSUME NEW a \in Actors, Shutdown(a) PROVE Tended'
    BY <2>9 DEF Shutdown, Inside
  <2>10. ASSUME NEW a \in Actors, Stop(a) PROVE Tended'
    BY <2>10 DEF Stop
  <2>11. ASSUME NEW a \in Actors, DrainHandles(a) PROVE Tended'
    BY <2>11 DEF DrainHandles, Joinable
  <2>12. ASSUME NEW a \in Actors, Joined(a) PROVE Tended'
    BY <2>12 DEF Joined
  <2>13. ASSUME NEW a \in Actors, ShutdownWithTimeout(a) PROVE Tended'
    BY <2>13 DEF ShutdownWithTimeout, Inside
  <2>14. ASSUME NEW a \in Actors, ReturnAlive(a) PROVE Tended'
    BY <2>14 DEF ReturnAlive
  <2>15. CASE UNCHANGED vars
    BY <2>15 DEF vars
  <2>16. ASSUME NEW a \in Actors, FindNone(a) PROVE Tended'
    BY <2>16 DEF FindNone
  <2> QED
    BY <2>1, <2>2, <2>3, <2>4, <2>5, <2>6, <2>7, <2>8, <2>9, <2>10, <2>11, <2>12, <2>13, <2>14, <2>15,
       <2>16
    DEF Next, CallStep, WorkerStep
<1> QED
  BY <1>1, <1>2, Typed, PTL DEF Spec

\* What callers were told, and what a shutdown that counted no worker leaves behind.
Answered ==
    \A c \in Callers : answer[c] # None =>
        /\ global # None
        /\ answer[c][2] = size[global]
        /\ answer[c][1] = "Ok" => c = global
Quiet ==
    /\ \A a \in Actors : pc[a] = "watch" => global \in stopped
    /\ zero = "counted" =>
         global \in stopped /\ \A w \in Workers : Pool(w) = global => wst[w] # "task"

LEMMA AnsweredInvariant == Spec => []Answered
<1>1. Init => Answered
  BY DEF Init, Answered
<1>2. TypeOK /\ Once /\ Answered /\ [Next]_vars => Answered'
  <2> SUFFICES ASSUME TypeOK, Once, Answered, [Next]_vars
               PROVE  Answered'
    OBVIOUS
  <2> USE RuntimeAssumption, Resolved DEF TypeOK, Once, Answered, Goto, poolVars, Tell,
          MayCall, Actors
  <2>1. ASSUME NEW c \in Callers, Configure(c) PROVE Answered'
    BY <2>1 DEF Configure, NewPool
  <2>2. ASSUME NEW c \in Callers, Publish(c) PROVE Answered'
    BY <2>2 DEF Publish, Publishes, Lose
  <2>3. ASSUME NEW c \in Callers, GetOrInit(c) PROVE Answered'
    BY <2>3 DEF GetOrInit
  <2>4. ASSUME NEW c \in Callers, Initialize(c) PROVE Answered'
    BY <2>4 DEF Initialize, NewPool
  <2>5. ASSUME NEW w \in Workers, Register(w) PROVE Answered'
    BY <2>5 DEF Register
  <2>6. ASSUME NEW w \in Workers, StartTask(w) PROVE Answered'
    BY <2>6 DEF StartTask, MayRun
  <2>7. ASSUME NEW w \in Workers, EndTask(w) PROVE Answered'
    BY <2>7 DEF EndTask
  <2>8. ASSUME NEW w \in Workers, Exit(w) PROVE Answered'
    BY <2>8 DEF Exit
  <2>9. ASSUME NEW a \in Actors, Shutdown(a) PROVE Answered'
    BY <2>9 DEF Shutdown, Inside
  <2>10. ASSUME NEW a \in Actors, Stop(a) PROVE Answered'
    BY <2>10 DEF Stop
  <2>11. ASSUME NEW a \in Actors, DrainHandles(a) PROVE Answered'
    BY <2>11 DEF DrainHandles, Joinable
  <2>12. ASSUME NEW a \in Actors, Joined(a) PROVE Answered'
    BY <2>12 DEF Joined
  <2>13. ASSUME NEW a \in Actors, ShutdownWithTimeout(a) PROVE Answered'
    BY <2>13 DEF ShutdownWithTimeout, Inside
  <2>14. ASSUME NEW a \in Actors, ReturnAlive(a) PROVE Answered'
    BY <2>14 DEF ReturnAlive
  <2>15. CASE UNCHANGED vars
    BY <2>15 DEF vars
  <2>16. ASSUME NEW a \in Actors, FindNone(a) PROVE Answered'
    BY <2>16 DEF FindNone
  <2> QED
    BY <2>1, <2>2, <2>3, <2>4, <2>5, <2>6, <2>7, <2>8, <2>9, <2>10, <2>11, <2>12, <2>13, <2>14, <2>15,
       <2>16
    DEF Next, CallStep, WorkerStep
<1> QED
  BY <1>1, <1>2, Typed, PTL DEF Spec

LEMMA QuietInvariant == Spec => []Quiet
<1>1. Init => Quiet
  BY RuntimeAssumption DEF Init, Quiet
<1>2. TypeOK /\ Once /\ Tended /\ Quiet /\ [Next]_vars => Quiet'
  <2> SUFFICES ASSUME TypeOK, Once, Tended, Quiet, [Next]_vars
               PROVE  Quiet'
    OBVIOUS
  <2> USE RuntimeAssumption, Resolved DEF TypeOK, Once, Quiet, Goto, poolVars, Tell,
          MayCall, Actors
  <2>1. ASSUME NEW c \in Callers, Configure(c) PROVE Quiet'
    BY <2>1 DEF Configure, NewPool
  <2>2. ASSUME NEW c \in Callers, Publish(c) PROVE Quiet'
    BY <2>2 DEF Publish, Publishes, Lose
  <2>3. ASSUME NEW c \in Callers, GetOrInit(c) PROVE Quiet'
    BY <2>3 DEF GetOrInit
  <2>4. ASSUME NEW c \in Callers, Initialize(c) PROVE Quiet'
    BY <2>4 DEF Initialize, NewPool
  <2>5. ASSUME NEW w \in Workers, Register(w) PROVE Quiet'
    BY <2>5 DEF Register
  <2>6. ASSUME NEW w \in Workers, StartTask(w) PROVE Quiet'
    BY <2>6 DEF StartTask, MayRun
  <2>7. ASSUME NEW w \in Workers, EndTask(w) PROVE Quiet'
    BY <2>7 DEF EndTask
  <2>8. ASSUME NEW w \in Workers, Exit(w) PROVE Quiet'
    BY <2>8 DEF Exit
  <2>9. ASSUME NEW a \in Actors, Shutdown(a) PROVE Quiet'
    BY <2>9 DEF Shutdown, Inside
  <2>10. ASSUME NEW a \in Actors, Stop(a) PROVE Quiet'
    BY <2>10 DEF Stop
  <2>11. ASSUME NEW a \in Actors, DrainHandles(a) PROVE Quiet'
    BY <2>11 DEF DrainHandles, Joinable
  <2>12. ASSUME NEW a \in Actors, Joined(a) PROVE Quiet'
    BY <2>12 DEF Joined
  <2>13. ASSUME NEW a \in Actors, ShutdownWithTimeout(a) PROVE Quiet'
    BY <2>13 DEF ShutdownWithTimeout, Inside
  <2>14. ASSUME NEW a \in Actors, ReturnAlive(a) PROVE Quiet'
    <3>1. CASE ActiveCount(global) # 0
      BY <2>14, <3>1 DEF ReturnAlive
    <3>2. CASE ActiveCount(global) = 0
      <4>1. global \in Callers /\ global \in stopped
        BY <2>14 DEF ReturnAlive
      <4>2. ASSUME NEW w \in Workers, Pool(w) = global PROVE wst[w] # "task"
        BY <3>2, <4>1, <4>2, NoneActive DEF Tended, Registered
      <4> QED BY <2>14, <4>1, <4>2 DEF ReturnAlive
    <3> QED BY <3>1, <3>2
  <2>15. CASE UNCHANGED vars
    BY <2>15 DEF vars
  <2>16. ASSUME NEW a \in Actors, FindNone(a) PROVE Quiet'
    BY <2>16 DEF FindNone
  <2> QED
    BY <2>1, <2>2, <2>3, <2>4, <2>5, <2>6, <2>7, <2>8, <2>9, <2>10, <2>11, <2>12, <2>13, <2>14, <2>15,
       <2>16
    DEF Next, CallStep, WorkerStep
<1> QED
  BY <1>1, <1>2, Typed, TendedInvariant, PTL DEF Spec

\* A thread's JoinHandle is kept, joined, or dropped by the thread itself.
Kept(w) ==
    \/ w \in handles[Pool(w)]
    \/ \E a \in Actors : pc[a] = "join" /\ w \in toJoin[a]
    \/ w \in detached /\ Pool(w) \in stopped
Held ==
    /\ \A w \in Workers : Alive(w) => Kept(w)
    /\ \A a \in Actors : pc[a] = "drain" => target[a] \in stopped

\* A new pool owns the handles of all its threads; the others' are untouched.
LEMMA HeldOnCreate ==
  ASSUME TypeOK, Once, Tended, Held, cell # "set",
         NEW c \in Callers, NEW n \in Sizes, NewPool(c, n),
         NEW to \in {"publish", "idle"},
         pc[c] \in {"idle", "init"}, pc' = [pc EXCEPT ![c] = to],
         UNCHANGED <<stopped, detached, target, toJoin>>
  PROVE  Held'
<1>1. /\ \A w \in Workers : Pool(w) # c => wst'[w] = wst[w]
      /\ \A w \in Workers : Pool(w) = c /\ wst'[w] # "none" => w \in handles'[c]
      /\ \A d \in Callers : d # c => handles'[d] = handles[d]
  BY Created
<1>2. \A w \in Workers : Pool(w) \in Callers
  BY DEF Workers, Pool
<1>3. \A a \in Actors : pc'[a] = "join" <=> pc[a] = "join"
  BY DEF TypeOK, Actors
<1>4. \A a \in Actors : pc'[a] = "drain" <=> pc[a] = "drain"
  BY DEF TypeOK, Actors
<1>5. ASSUME NEW w \in Workers, Alive(w)' PROVE Kept(w)'
  <2>1. CASE Pool(w) = c
    BY <1>1, <1>5, <2>1 DEF Alive, Kept
  <2>2. CASE Pool(w) # c
    <3>1. wst'[w] = wst[w] /\ handles'[Pool(w)] = handles[Pool(w)]
      BY <1>1, <1>2, <2>2
    <3>2. Kept(w)
      BY <1>5, <3>1 DEF Held, Alive
    <3> QED BY <1>3, <3>1, <3>2 DEF Kept
  <2> QED BY <2>1, <2>2
<1> QED BY <1>4, <1>5 DEF Held

LEMMA HeldInvariant == Spec => []Held
<1>1. Init => Held
  BY DEF Init, Held, Alive
<1>2. TypeOK /\ Once /\ Tended /\ Held /\ [Next]_vars => Held'
  <2> SUFFICES ASSUME TypeOK, Once, Tended, Held, [Next]_vars
               PROVE  Held'
    OBVIOUS
  <2>0. \A w \in Workers : Pool(w) \in Callers /\ w \in Actors /\ w \notin Callers
    BY RuntimeAssumption DEF Workers, Pool, Actors
  <2> USE RuntimeAssumption, Resolved, <2>0 DEF TypeOK, Once, Held, Kept, Alive, Goto,
          poolVars, Tell, MayCall, Actors
  <2>1. ASSUME NEW c \in Callers, Configure(c) PROVE Held'
    <3>1. CASE cell = "set"
      BY <2>1, <3>1 DEF Configure
    <3>2. CASE cell # "set"
      <4>1. PICK n \in Sizes : NewPool(c, n)
        BY <2>1, <3>2 DEF Configure
      <4>2. pc[c] = "idle" /\ pc' = [pc EXCEPT ![c] = "publish"]
            /\ UNCHANGED <<stopped, detached, target, toJoin>>
        BY <2>1, <3>2 DEF Configure
      <4> HIDE DEF TypeOK, Once, Held
      <4> QED BY <3>2, <4>1, <4>2, HeldOnCreate
    <3> QED BY <3>1, <3>2
  <2>2. ASSUME NEW c \in Callers, Publish(c) PROVE Held'
    BY <2>2 DEF Publish, Publishes, Lose
  <2>3. ASSUME NEW c \in Callers, GetOrInit(c) PROVE Held'
    BY <2>3 DEF GetOrInit
  <2>4. ASSUME NEW c \in Callers, Initialize(c) PROVE Held'
    <3>1. /\ NewPool(c, Resolve(0)) /\ pc[c] = "init"
          /\ pc' = [pc EXCEPT ![c] = "idle"] /\ UNCHANGED <<stopped, detached, target, toJoin>>
      BY <2>4 DEF Initialize
    <3>2. cell # "set" /\ Resolve(0) \in Sizes
      BY <3>1
    <3> HIDE DEF TypeOK, Once, Held
    <3> QED BY <3>1, <3>2, HeldOnCreate
  <2>5. ASSUME NEW w \in Workers, Register(w) PROVE Held'
    BY <2>5 DEF Register
  <2>6. ASSUME NEW w \in Workers, StartTask(w) PROVE Held'
    BY <2>6 DEF StartTask, MayRun
  <2>7. ASSUME NEW w \in Workers, EndTask(w) PROVE Held'
    BY <2>7 DEF EndTask
  <2>8. ASSUME NEW w \in Workers, Exit(w) PROVE Held'
    BY <2>8 DEF Exit
  <2>9. ASSUME NEW a \in Actors, Shutdown(a) PROVE Held'
    BY <2>9 DEF Shutdown, Inside
  <2>10. ASSUME NEW a \in Actors, Stop(a) PROVE Held'
    BY <2>10 DEF Stop
  <2>11. ASSUME NEW a \in Actors, DrainHandles(a) PROVE Held'
    BY <2>11 DEF DrainHandles, Joinable
  <2>12. ASSUME NEW a \in Actors, Joined(a) PROVE Held'
    BY <2>12 DEF Joined
  <2>13. ASSUME NEW a \in Actors, ShutdownWithTimeout(a) PROVE Held'
    BY <2>13 DEF ShutdownWithTimeout, Inside
  <2>14. ASSUME NEW a \in Actors, ReturnAlive(a) PROVE Held'
    BY <2>14 DEF ReturnAlive
  <2>15. CASE UNCHANGED vars
    BY <2>15 DEF vars
  <2>16. ASSUME NEW a \in Actors, FindNone(a) PROVE Held'
    BY <2>16 DEF FindNone
  <2> QED
    BY <2>1, <2>2, <2>3, <2>4, <2>5, <2>6, <2>7, <2>8, <2>9, <2>10, <2>11, <2>12, <2>13, <2>14, <2>15,
       <2>16
    DEF Next, CallStep, WorkerStep
<1> QED
  BY <1>1, <1>2, Typed, TendedInvariant, PTL DEF Spec

-----------------------------------------------------------------------------
\* Who joins what: the JoinHandles of a pool go all at once to one actor, which
\* keeps them until it has joined the threads; only a task's thread shuts down
\* from inside a pool, and tasks run in the published pool only.
Sharing ==
    /\ \A c \in Callers : \A w \in handles[c] : Pool(w) = c
    /\ \A a \in Actors : \A w \in toJoin[a] :
         /\ pc[a] = "join" /\ Pool(w) = target[a]
         /\ Pool(w) \in stopped /\ handles[Pool(w)] = {}
    /\ \A a, b \in Actors : \A v \in toJoin[a], w \in toJoin[b] :
         target[a] = target[b] => a = b
    /\ \A w \in Workers : wst[w] = "task" => Pool(w) = global
    /\ \A w \in Workers : pc[w] # "idle" => wst[w] = "task"

\* A new pool comes before every shutdown, so nobody is joining anything.
LEMMA SharingOnCreate ==
  ASSUME TypeOK, Once, Sharing, cell # "set",
         NEW c \in Callers, NEW n \in Sizes, NewPool(c, n),
         NEW to \in {"publish", "idle"}, pc' = [pc EXCEPT ![c] = to],
         UNCHANGED toJoin
  PROVE  Sharing'
<1>1. \A a \in Actors : toJoin[a] = {}
  BY DEF Once, Sharing, TypeOK
<1>2. \A w \in Workers : wst[w] # "task" /\ w # c
  <2>1. \A w \in Workers : Pool(w) # None
    BY RuntimeAssumption DEF Workers, Pool
  <2> QED BY <2>1, RuntimeAssumption DEF Sharing, Once
<1>3. \A w \in PoolOf(c, n) : Pool(w) = c
  BY DEF PoolOf, Pool
<1>4. /\ handles' = [handles EXCEPT ![c] = PoolOf(c, n)]
      /\ \A w \in Workers : wst'[w] \in {"starting", wst[w]}
  BY DEF NewPool
<1>5. \A d \in Callers : \A w \in handles'[d] : Pool(w) = d
  BY <1>3, <1>4 DEF Sharing, TypeOK
<1>6. \A w \in Workers : wst'[w] # "task" /\ pc'[w] = "idle"
  <2>1. \A w \in Workers : pc'[w] = pc[w]
    BY <1>2 DEF TypeOK, Actors
  <2> QED BY <1>2, <1>4, <2>1 DEF Sharing
<1> QED BY <1>1, <1>5, <1>6 DEF Sharing

\* Runtime::shutdown: taking the handles is what keeps two shutdowns apart.
LEMMA SharingOnDrain ==
  ASSUME TypeOK, Once, Held, Sharing, NEW a \in Actors, DrainHandles(a)
  PROVE  Sharing'
<1> DEFINE p == target[a]
<1>1. /\ pc[a] = "drain" /\ p \in Callers /\ p \in stopped
      /\ toJoin' = [toJoin EXCEPT ![a] = handles[p] \ {a}]
      /\ handles' = [handles EXCEPT ![p] = {}]
      /\ pc' = [pc EXCEPT ![a] = "join"]
      /\ UNCHANGED <<global, stopped, wst, target>>
  <2>1. p \in Callers
    BY RuntimeAssumption DEF DrainHandles, Once, TypeOK
  <2> QED BY <2>1 DEF DrainHandles, Joinable, Goto, Held
<1> HIDE DEF p
<1>2. \A c \in Callers : handles'[c] = IF c = p THEN {} ELSE handles[c]
  BY <1>1 DEF TypeOK
<1>3. \A b \in Actors : toJoin'[b] = IF b = a THEN handles[p] \ {a} ELSE toJoin[b]
  BY <1>1 DEF TypeOK
<1>4. \A b \in Actors : pc'[b] = IF b = a THEN "join" ELSE pc[b]
  BY <1>1 DEF TypeOK
<1>5. \A b \in Actors : \A w \in toJoin'[b] :
        /\ pc'[b] = "join" /\ Pool(w) = target[b]
        /\ Pool(w) \in stopped /\ handles'[Pool(w)] = {}
  <2> SUFFICES ASSUME NEW b \in Actors, NEW w \in toJoin'[b]
               PROVE  /\ pc'[b] = "join" /\ Pool(w) = target[b]
                      /\ Pool(w) \in stopped /\ handles'[Pool(w)] = {}
    OBVIOUS
  <2>1. CASE b = a
    BY <1>1, <1>2, <1>3, <1>4, <2>1 DEF Sharing, p
  <2>2. CASE b # a
    <3>1. w \in toJoin[b] /\ w \in Workers
      BY <1>3, <2>2 DEF TypeOK
    <3>2. Pool(w) \in Callers
      BY <3>1 DEF Workers, Pool
    <3> QED BY <1>2, <1>4, <2>2, <3>1, <3>2 DEF Sharing
  <2> QED BY <2>1, <2>2
<1>6. ASSUME NEW b \in Actors, NEW v \in toJoin'[a], NEW w \in toJoin'[b],
             target[a] = target[b]
      PROVE  a = b
  <2> SUFFICES ASSUME a # b PROVE FALSE
    OBVIOUS
  <2>1. w \in toJoin[b] /\ v \in handles[p]
    BY <1>3
  <2> QED BY <1>6, <2>1 DEF Sharing, p
<1>7. \A b, d \in Actors : \A v \in toJoin'[b], w \in toJoin'[d] :
        target[b] = target[d] => b = d
  BY <1>3, <1>6 DEF Sharing
<1>8. \A w \in Workers : pc'[w] # "idle" => wst[w] = "task"
  BY <1>1, <1>4 DEF Sharing, Actors
<1> QED BY <1>1, <1>2, <1>5, <1>7, <1>8 DEF Sharing

LEMMA SharingInvariant == Spec => []Sharing
<1>1. Init => Sharing
  BY DEF Init, Sharing, Actors
<1>2. TypeOK /\ Once /\ Held /\ Sharing /\ [Next]_vars => Sharing'
  <2> SUFFICES ASSUME TypeOK, Once, Held, Sharing, [Next]_vars
               PROVE  Sharing'
    OBVIOUS
  <2>0. \A w \in Workers : Pool(w) \in Callers /\ w \in Actors /\ w \notin Callers
    BY RuntimeAssumption DEF Workers, Pool, Actors
  <2> USE <2>0 DEF TypeOK, Once, Sharing, Goto, poolVars, Tell, MayCall, Actors
  <2>1. ASSUME NEW c \in Callers, Configure(c) PROVE Sharing'
    <3>1. CASE cell = "set"
      BY <2>1, <3>1 DEF Configure
    <3>2. CASE cell # "set"
      <4>1. PICK n \in Sizes : NewPool(c, n)
        BY <2>1, <3>2, Resolved DEF Configure
      <4>2. pc' = [pc EXCEPT ![c] = "publish"] /\ UNCHANGED toJoin
        BY <2>1, <3>2 DEF Configure
      <4> HIDE DEF TypeOK, Once, Sharing
      <4> QED BY <3>2, <4>1, <4>2, SharingOnCreate
    <3> QED BY <3>1, <3>2
  <2>2. ASSUME NEW c \in Callers, Publish(c) PROVE Sharing'
    <3>1. c \in Actors /\ toJoin[c] = {} /\ \A w \in Workers : w # c
      BY <2>2 DEF Publish
    <3>2. CASE cell = "empty"
      <4>1. \A w \in Workers : wst[w] # "task"
        BY <3>2, RuntimeAssumption
      <4> QED BY <2>2, <3>1, <3>2, <4>1 DEF Publish, Publishes
    <3>3. CASE cell # "empty"
      BY <2>2, <3>1, <3>3 DEF Publish, Publishes, Lose
    <3> QED BY <3>2, <3>3
  <2>3. ASSUME NEW c \in Callers, GetOrInit(c) PROVE Sharing'
    BY <2>3 DEF GetOrInit
  <2>4. ASSUME NEW c \in Callers, Initialize(c) PROVE Sharing'
    <3>1. /\ NewPool(c, Resolve(0)) /\ cell # "set"
          /\ pc' = [pc EXCEPT ![c] = "idle"] /\ UNCHANGED toJoin
      BY <2>4 DEF Initialize
    <3> HIDE DEF TypeOK, Once, Sharing
    <3> QED BY <3>1, SharingOnCreate, Resolved
  <2>5. ASSUME NEW w \in Workers, Register(w) PROVE Sharing'
    BY <2>5 DEF Register
  <2>6. ASSUME NEW w \in Workers, StartTask(w) PROVE Sharing'
    BY <2>6 DEF StartTask, MayRun
  <2>7. ASSUME NEW w \in Workers, EndTask(w) PROVE Sharing'
    BY <2>7 DEF EndTask
  <2>8. ASSUME NEW w \in Workers, Exit(w) PROVE Sharing'
    BY <2>8 DEF Exit
  <2>9. ASSUME NEW a \in Actors, Shutdown(a) PROVE Sharing'
    BY <2>9 DEF Shutdown, Inside
  <2>10. ASSUME NEW a \in Actors, Stop(a) PROVE Sharing'
    BY <2>10 DEF Stop
  <2>11. ASSUME NEW a \in Actors, DrainHandles(a) PROVE Sharing'
    <3> HIDE DEF TypeOK, Once, Sharing
    <3> QED BY <2>11, SharingOnDrain
  <2>12. ASSUME NEW a \in Actors, Joined(a) PROVE Sharing'
    BY <2>12 DEF Joined
  <2>13. ASSUME NEW a \in Actors, ShutdownWithTimeout(a) PROVE Sharing'
    BY <2>13 DEF ShutdownWithTimeout, Inside
  <2>14. ASSUME NEW a \in Actors, ReturnAlive(a) PROVE Sharing'
    BY <2>14 DEF ReturnAlive
  <2>15. CASE UNCHANGED vars
    BY <2>15 DEF vars
  <2>16. ASSUME NEW a \in Actors, FindNone(a) PROVE Sharing'
    BY <2>16 DEF FindNone
  <2> QED
    BY <2>1, <2>2, <2>3, <2>4, <2>5, <2>6, <2>7, <2>8, <2>9, <2>10, <2>11, <2>12, <2>13, <2>14, <2>15,
       <2>16
    DEF Next, CallStep, WorkerStep
<1> QED
  BY <1>1, <1>2, Typed, HeldInvariant, PTL DEF Spec

\* configure_global_runtime: the loser of a race leaves no thread behind, and
\* every caller is told the size of the pool that won.
THEOREM SingleRuntime == Spec => []OneRuntime
<1>1. TypeOK /\ Once /\ Tended /\ Answered => OneRuntime
  BY DEF OneRuntime, Tended, Alive, Answered
<1> QED
  BY <1>1, Typed, TendedInvariant, AnsweredInvariant, PTL

\* shutdown_with_timeout, once it has found the runtime: a count of zero is
\* final, also for threads that had not registered when it was taken.  Of the 0
\* it returns without one the theorem says nothing.
THEOREM ZeroIsQuiet == Spec => []QuietAfterZero
<1>1. Quiet => QuietAfterZero
  BY DEF Quiet, QuietAfterZero
<1> QED
  BY <1>1, QuietInvariant, PTL

\* Runtime::shutdown takes the JoinHandles under a lock and joins them outside
\* it: every live thread is still somebody's to join, or detached itself from
\* inside a task and will stop.
THEOREM EveryThreadHeld == Spec => []NoThreadLost
<1>1. Held => NoThreadLost
  BY DEF Held, Kept, Alive, NoThreadLost
<1> QED
  BY <1>1, HeldInvariant, PTL

\* Runtime::shutdown joins outside the lock, from callers and from tasks: no
\* thread waits in a join for one that waits in a join, so no two shutdowns
\* wait for each other, however many call it and wherever from.
THEOREM JoinsEnd == Spec => []NoCircularJoin
<1>1. TypeOK /\ Once /\ Sharing => NoCircularJoin
  <2> SUFFICES ASSUME TypeOK, Once, Sharing,
                      NEW a \in Actors, NEW w \in toJoin[a]
               PROVE  Pool(w) \in stopped /\ toJoin[w] = {}
    BY DEF NoCircularJoin
  <2>1. w \in Workers /\ w \in Actors /\ w \notin Callers /\ a # w
    BY RuntimeAssumption DEF TypeOK, Actors
  <2>2. Pool(w) \in stopped /\ Pool(w) = target[a]
    BY DEF Sharing
  <2>3. ASSUME NEW v \in toJoin[w] PROVE FALSE
    <3>1. pc[w] = "join" /\ wst[w] = "task"
      BY <2>1 DEF Sharing
    <3>2. target[w] = global /\ Pool(w) = global
      BY <2>1, <3>1 DEF Sharing, Once
    <3> QED BY <2>1, <2>2, <3>2 DEF Sharing
  <2> QED BY <2>2, <2>3
<1> QED
  BY <1>1, Typed, SharingInvariant, PTL

\* configure, shutdown and the workers leave every variable in its type; no
\* actor is ever about to join itself.
THEOREM RuntimeTyped == Spec => []TypeOK
<1>1. TypeOK /\ Once => TypeOK
  OBVIOUS
<1> QED
  BY <1>1, Typed, PTL
=============================================================================
