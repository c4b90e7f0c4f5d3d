------------------------ MODULE PluginRuntime_proofs ------------------------
(***************************************************************************)
(* What holds of the plugin runtime for any number of keys, callers and     *)
(* loads: callers share instances, no scope gets out of reach, and no       *)
(* failure is remembered.                                                   *)
(***************************************************************************)
EXTENDS PluginRuntime, TLAPS

USE RuntimeAssumption

Using(u, i) == call[u].at = "using" /\ call[u].of = i

(* The caches and the calls name loads of their own key.                    *)
NamesKeys ==
  /\ \A k \in Plugins : pluginCache[k] # None => key[pluginCache[k]] = k
  /\ \A u \in Users : call[u] # Idle => key[call[u].of] = call[u].key

(* Whatever is in progress or open is named by the cache or about to be     *)
(* closed by an eviction, and what is open and ready is registered.         *)
Reachable ==
  runtime # "down" =>
    /\ \A i \in Instances : Holding(i) => pluginCache[key[i]] = i \/ BeingEvicted(i)
    /\ \A i \in scopes : stage[i] = "initializing" \/ i \in active
ClosedIsClosed ==
  \A u \in Users : call[u].at = "closing" =>
    call[u].of \notin scopes /\ stage[call[u].of] = "ready"

(* A cached load that has not succeeded has a caller that waits for it, and *)
(* a runtime that is down caches nothing.                                   *)
LoadsAwaited ==
  \A k \in Plugins : pluginCache[k] # None /\ stage[pluginCache[k]] # "ready" =>
    \E u \in Users : Using(u, pluginCache[k])
DownIsEmpty == runtime = "down" => \A k \in Plugins : pluginCache[k] = None

IInv == TypeOK /\ NamesKeys /\ Reachable /\ ClosedIsClosed /\ LoadsAwaited /\ DownIsEmpty

LEMMA Numbers == None \notin Instances
BY DEF Instances

LEMMA CallForms ==
  ASSUME TypeOK, NEW u \in Users, call[u] # Idle
  PROVE  /\ call[u].key \in Plugins /\ call[u].of \in Instances
         /\ call[u].at \in {"using", "evicting", "closing"}
         /\ call[u] \in [at : {"using", "evicting", "closing"}, key : Plugins, of : Instances]
BY DEF TypeOK, Call

LEMMA IdleAt == ASSUME NEW u \in Users, call[u].at # "idle" PROVE call[u] # Idle
BY DEF Idle

LEMMA CallsTyped ==
  /\ Idle \in Call
  /\ \A w \in {"using", "evicting", "closing"}, k \in Plugins, i \in Instances :
       [at |-> w, key |-> k, of |-> i] \in Call
BY DEF Call

-----------------------------------------------------------------------------
(* Type correctness, action by action.                                      *)

LEMMA EvictTyped ==
  ASSUME TypeOK, NEW u \in Users, NEW k \in Plugins, EvictCached(u, k)
  PROVE  /\ pluginCache' \in [Plugins -> Instances \cup {None}]
         /\ routerCache' \in [Plugins -> Instances \cup {None}]
         /\ call' \in [Users -> Call]
<1>1. CASE pluginCache[k] = None
  BY <1>1, CallsTyped DEF EvictCached, TypeOK
<1>2. CASE pluginCache[k] # None
  <2>1. [at |-> "evicting", key |-> k, of |-> pluginCache[k]] \in Call
    BY <1>2, CallsTyped DEF TypeOK
  <2> QED
    BY <1>2, <2>1 DEF EvictCached, TypeOK
<1> QED
  BY <1>1, <1>2

LEMMA TypeStep == TypeOK /\ NamesKeys /\ ClosedIsClosed /\ [Next]_vars => TypeOK'
<1> SUFFICES ASSUME TypeOK, NamesKeys, ClosedIsClosed, [Next]_vars PROVE TypeOK'
  OBVIOUS
<1>1. ASSUME NEW u \in Users, NEW k \in Plugins, Join(u, k) PROVE TypeOK'
  <2>1. [at |-> "using", key |-> k, of |-> pluginCache[k]] \in Call
    BY <1>1, CallsTyped DEF Join, TypeOK
  <2> QED
    BY <1>1, <2>1 DEF Join, TypeOK
<1>2. ASSUME NEW u \in Users, NEW k \in Plugins, Load(u, k) PROVE TypeOK'
  <2>1. PICK i \in Instances :
          /\ stage[i] = "unused"
          /\ key' = [key EXCEPT ![i] = k]
          /\ stage' = [stage EXCEPT ![i] = "loading"]
          /\ pluginCache' = [pluginCache EXCEPT ![k] = i]
          /\ call' = [call EXCEPT ![u] = [at |-> "using", key |-> k, of |-> i]]
    BY <1>2 DEF Load
  <2>2. [at |-> "using", key |-> k, of |-> i] \in Call
    BY CallsTyped
  <2>3. UNCHANGED <<routerCache, scopes, active, runtime, closing>>
    BY <1>2 DEF Load
  <2>4. call' \in [Users -> Call]
    BY <2>1, <2>2 DEF TypeOK
  <2>5. /\ pluginCache' \in [Plugins -> Instances \cup {None}]
        /\ key' \in [Instances -> Plugins \cup {None}]
        /\ stage' \in [Instances -> Stages]
        /\ \A j \in Instances : stage'[j] = "unused" <=> key'[j] = None
    BY <2>1 DEF TypeOK, Stages
  <2>6. /\ scopes' \subseteq {j \in Instances : stage'[j] \in {"initializing", "ready"}}
        /\ active' \subseteq {j \in Instances : stage'[j] = "ready"}
    BY <2>1, <2>3 DEF TypeOK
  <2> QED
    BY <2>3, <2>4, <2>5, <2>6 DEF TypeOK
<1>3. ASSUME NEW i \in Instances, Pipeline(i) PROVE TypeOK'
  <2>1. CASE Loaded(i)
    BY <2>1 DEF Loaded, TypeOK, Stages
  <2>2. CASE LoadFails(i)
    BY <2>2 DEF LoadFails, TypeOK, Stages
  <2>3. CASE Initialized(i)
    BY <2>3 DEF Initialized, TypeOK, Stages
  <2>4. CASE InitializeFails(i)
    BY <2>4 DEF InitializeFails, TypeOK, Stages
  <2>5. CASE Interrupted(i)
    BY <2>5 DEF Interrupted, InProgress, TypeOK, Stages
  <2> QED
    BY <1>3, <2>1, <2>2, <2>3, <2>4, <2>5 DEF Pipeline
<1>4. ASSUME NEW u \in Users, Used(u) \/ UseFails(u) PROVE TypeOK'
  <2>1. call[u].key \in Plugins /\ call[u].of \in Instances
    BY <1>4, CallForms, IdleAt DEF Used, UseFails
  <2> QED
    BY <1>4, <2>1, CallsTyped DEF Used, UseFails, TypeOK
<1>5. ASSUME NEW u \in Users, RouterThrows(u) PROVE TypeOK'
  <2>1. call[u].key \in Plugins
    BY <1>5, CallForms, IdleAt DEF RouterThrows
  <2> QED
    BY <1>5, <2>1, EvictTyped DEF RouterThrows, TypeOK
<1>6. ASSUME NEW u \in Users, NEW k \in Plugins, evictPlugin(u, k) PROVE TypeOK'
  BY <1>6, EvictTyped DEF evictPlugin, TypeOK
<1>7. ASSUME NEW u \in Users, EvictFailed(u) \/ EvictUnregister(u) PROVE TypeOK'
  BY <1>7, CallsTyped DEF EvictFailed, EvictUnregister, TypeOK
<1>8. ASSUME NEW u \in Users, EvictClose(u) PROVE TypeOK'
  <2>1. call[u] \in [at : {"using", "evicting", "closing"}, key : Plugins, of : Instances]
    BY <1>8, CallForms, IdleAt DEF EvictClose
  <2>2. [call[u] EXCEPT !.at = "closing"] \in Call
    BY <2>1 DEF Call
  <2>3. call' = [call EXCEPT ![u] = [call[u] EXCEPT !.at = "closing"]]
    BY <1>8 DEF EvictClose
  <2> QED
    BY <1>8, <2>2, <2>3 DEF EvictClose, TypeOK
<1>9. CASE Shutdown \/ ShutdownEnds
  BY <1>9 DEF Shutdown, ShutdownEnds, TypeOK
<1>10. CASE UNCHANGED vars
  BY <1>10 DEF vars, TypeOK
<1> QED
  BY <1>1, <1>2, <1>3, <1>4, <1>5, <1>6, <1>7, <1>8, <1>9, <1>10 DEF Next, Resumes

-----------------------------------------------------------------------------
(* Every step on the caches and the calls.  What EvictCached does to both:  *)
(* the instance it takes out of the cache is the one its call closes.       *)
LEMMA EvictShape ==
  ASSUME TypeOK, NEW u \in Users, NEW k \in Plugins, EvictCached(u, k)
  PROVE  /\ \A j \in Plugins : pluginCache'[j] = IF j = k THEN None ELSE pluginCache[j]
         /\ \A v \in Users : v # u => call'[v] = call[v]
         /\ pluginCache[k] = None => call'[u] = Idle
         /\ pluginCache[k] # None =>
              call'[u] = [at |-> "evicting", key |-> k, of |-> pluginCache[k]]
BY DEF EvictCached, TypeOK

LEMMA NamesStep == TypeOK /\ NamesKeys /\ [Next]_vars => NamesKeys'
<1> SUFFICES ASSUME TypeOK, NamesKeys, [Next]_vars PROVE NamesKeys'
  OBVIOUS
<1>1. ASSUME NEW u \in Users, NEW k \in Plugins, Join(u, k) PROVE NamesKeys'
  BY <1>1 DEF Join, TypeOK, NamesKeys
<1>2. ASSUME NEW u \in Users, NEW k \in Plugins, Load(u, k) PROVE NamesKeys'
  <2>1. PICK i \in Instances :
          /\ stage[i] = "unused"
          /\ key' = [key EXCEPT ![i] = k]
          /\ pluginCache' = [pluginCache EXCEPT ![k] = i]
          /\ call' = [call EXCEPT ![u] = [at |-> "using", key |-> k, of |-> i]]
    BY <1>2 DEF Load
  <2>2. key[i] = None
    BY <2>1 DEF TypeOK
  <2>3. \A j \in Instances : key'[j] = IF j = i THEN k ELSE key[j]
    BY <2>1 DEF TypeOK
  <2>4. ASSUME NEW l \in Plugins, pluginCache'[l] # None PROVE key'[pluginCache'[l]] = l
    BY <2>1, <2>2, <2>3, <2>4 DEF TypeOK, NamesKeys
  <2>5. ASSUME NEW v \in Users, call'[v] # Idle PROVE key'[call'[v].of] = call'[v].key
    <3>1. CASE v = u
      BY <2>1, <2>3, <3>1 DEF TypeOK
    <3>2. CASE v # u
      <4>1. call'[v] = call[v] /\ call[v].of \in Instances /\ call[v].key \in Plugins
        BY <2>1, <2>5, <3>2, CallForms DEF TypeOK
      <4>2. key[call[v].of] = call[v].key
        BY <2>5, <4>1 DEF NamesKeys
      <4> QED
        BY <2>2, <2>3, <4>1, <4>2
    <3> QED
      BY <3>1, <3>2
  <2> QED
    BY <2>4, <2>5 DEF NamesKeys
<1>3. ASSUME NEW i \in Instances, Pipeline(i) PROVE NamesKeys'
  BY <1>3 DEF Pipeline, Loaded, LoadFails, Initialized, InitializeFails, Interrupted, NamesKeys
<1>4. ASSUME NEW u \in Users, Used(u) \/ UseFails(u) \/ EvictFailed(u) \/ EvictUnregister(u)
      PROVE NamesKeys'
  <2>1. \A l \in Plugins : pluginCache'[l] # None => pluginCache'[l] = pluginCache[l]
    BY <1>4 DEF Used, UseFails, EvictFailed, EvictUnregister, TypeOK
  <2>2. key' = key /\ call' = [call EXCEPT ![u] = Idle]
    BY <1>4 DEF Used, UseFails, EvictFailed, EvictUnregister
  <2> QED
    BY <2>1, <2>2 DEF NamesKeys, TypeOK
<1>5. ASSUME NEW u \in Users, NEW k \in Plugins, EvictCached(u, k), key' = key PROVE NamesKeys'
  <2>1. /\ \A j \in Plugins : pluginCache'[j] # None => pluginCache'[j] = pluginCache[j]
        /\ \A v \in Users : v # u => call'[v] = call[v]
        /\ \/ call'[u] = Idle
           \/ /\ call'[u] = [at |-> "evicting", key |-> k, of |-> pluginCache[k]]
              /\ pluginCache[k] # None
    BY <1>5, EvictShape
  <2>2. ASSUME NEW v \in Users, call'[v] # Idle PROVE key[call'[v].of] = call'[v].key
    <3>1. CASE v = u
      BY <2>1, <2>2, <3>1 DEF NamesKeys
    <3>2. CASE v # u
      BY <2>1, <2>2, <3>2 DEF NamesKeys
    <3> QED
      BY <3>1, <3>2
  <2> QED
    BY <1>5, <2>1, <2>2 DEF NamesKeys
<1>6. ASSUME NEW u \in Users, RouterThrows(u) PROVE NamesKeys'
  <2>1. call[u].key \in Plugins
    BY <1>6, CallForms, IdleAt DEF RouterThrows
  <2> QED
    BY <1>5, <1>6, <2>1 DEF RouterThrows
<1>7. ASSUME NEW u \in Users, NEW k \in Plugins, evictPlugin(u, k) PROVE NamesKeys'
  BY <1>5, <1>7 DEF evictPlugin
<1>8. ASSUME NEW u \in Users, EvictClose(u) PROVE NamesKeys'
  <2>1. call[u] # Idle
    BY <1>8, IdleAt DEF EvictClose
  <2>2. call' = [call EXCEPT ![u] = [call[u] EXCEPT !.at = "closing"]]
          /\ UNCHANGED <<pluginCache, key>>
    BY <1>8 DEF EvictClose
  <2>3. [call[u] EXCEPT !.at = "closing"].of = call[u].of
          /\ [call[u] EXCEPT !.at = "closing"].key = call[u].key
    BY <2>1, CallForms
  <2> QED
    BY <2>1, <2>2, <2>3 DEF NamesKeys, TypeOK
<1>9. CASE Shutdown \/ ShutdownEnds \/ UNCHANGED vars
  BY <1>9 DEF Shutdown, ShutdownEnds, vars, NamesKeys
<1> QED
  BY <1>1, <1>2, <1>3, <1>4, <1>6, <1>7, <1>8, <1>9 DEF Next, Resumes

LEMMA ClosedStep == TypeOK /\ ClosedIsClosed /\ [Next]_vars => ClosedIsClosed'
<1> SUFFICES ASSUME TypeOK, ClosedIsClosed, [Next]_vars,
                    NEW v \in Users, call'[v].at = "closing"
             PROVE  call'[v].of \notin scopes' /\ stage'[call'[v].of] = "ready"
  BY DEF ClosedIsClosed
<1>1. ASSUME NEW u \in Users, EvictClose(u) PROVE call'[v].of \notin scopes' /\ stage'[call'[v].of] = "ready"
  <2>1. call[u] # Idle
    BY <1>1, IdleAt DEF EvictClose
  <2>2. call' = [call EXCEPT ![u] = [call[u] EXCEPT !.at = "closing"]]
    BY <1>1 DEF EvictClose
  <2>3. [call[u] EXCEPT !.at = "closing"].of = call[u].of
    BY <2>1, CallForms
  <2> QED
    BY <1>1, <2>2, <2>3 DEF EvictClose, TypeOK, ClosedIsClosed
<1>2. ASSUME call'[v] = call[v], scopes' \subseteq scopes,
             stage[call[v].of] = "ready" => stage'[call[v].of] = "ready"
      PROVE  call'[v].of \notin scopes' /\ stage'[call'[v].of] = "ready"
  BY <1>2 DEF ClosedIsClosed
<1>3. ASSUME NEW i \in Instances, Pipeline(i)
      PROVE  call'[v].of \notin scopes' /\ stage'[call'[v].of] = "ready"
  <2>1. call' = call /\ call[v] # Idle
    BY <1>3 DEF Pipeline, Loaded, LoadFails, Initialized, InitializeFails, Interrupted, Idle
  <2>2. call[v].of \in Instances /\ call[v].of \notin scopes /\ stage[call[v].of] = "ready"
    BY <2>1, CallForms DEF ClosedIsClosed
  <2>3. stage[i] # "ready"
    BY <1>3 DEF Pipeline, Loaded, LoadFails, Initialized, InitializeFails, Interrupted, InProgress
  <2>4. scopes' \subseteq scopes \cup {i} /\ stage'[call[v].of] = stage[call[v].of]
    BY <1>3, <2>2, <2>3
    DEF Pipeline, Loaded, LoadFails, Initialized, InitializeFails, Interrupted, TypeOK
  <2> QED
    BY <2>1, <2>2, <2>3, <2>4
<1>4. ASSUME NEW u \in Users, Used(u) \/ UseFails(u) \/ EvictFailed(u) \/ EvictUnregister(u)
      PROVE  call'[v] = call[v] /\ UNCHANGED <<scopes, stage>>
  <2>1. call' = [call EXCEPT ![u] = Idle] /\ UNCHANGED <<scopes, stage>>
    BY <1>4 DEF Used, UseFails, EvictFailed, EvictUnregister
  <2> QED
    BY <2>1 DEF TypeOK, Idle
<1>5. ASSUME NEW u \in Users, NEW k \in Plugins, EvictCached(u, k) PROVE call'[v] = call[v]
  <2>1. v # u => call'[v] = call[v]
    BY <1>5, EvictShape
  <2>2. call'[u] = Idle \/ call'[u] = [at |-> "evicting", key |-> k, of |-> pluginCache[k]]
    BY <1>5, EvictShape
  <2>3. call'[u].at # "closing"
    BY <2>2 DEF Idle
  <2> QED
    BY <2>1, <2>3
<1>6. ASSUME NEW u \in Users, RouterThrows(u) PROVE call'[v] = call[v] /\ UNCHANGED <<scopes, stage>>
  <2>1. call[u].key \in Plugins
    BY <1>6, CallForms, IdleAt DEF RouterThrows
  <2> QED
    BY <1>5, <1>6, <2>1 DEF RouterThrows
<1>7. ASSUME NEW u \in Users, NEW k \in Plugins, evictPlugin(u, k)
      PROVE  call'[v] = call[v] /\ UNCHANGED <<scopes, stage>>
  BY <1>5, <1>7 DEF evictPlugin
<1>8. ASSUME NEW u \in Users, NEW k \in Plugins, Join(u, k)
      PROVE  call'[v] = call[v] /\ UNCHANGED <<scopes, stage>>
  BY <1>8 DEF Join, TypeOK
<1>9. ASSUME NEW u \in Users, NEW k \in Plugins, Load(u, k)
      PROVE  call'[v].of \notin scopes' /\ stage'[call'[v].of] = "ready"
  <2>1. PICK i \in Instances :
          /\ stage[i] = "unused" /\ stage' = [stage EXCEPT ![i] = "loading"]
          /\ call' = [call EXCEPT ![u] = [at |-> "using", key |-> k, of |-> i]]
    BY <1>9 DEF Load
  <2>2. v # u /\ call'[v] = call[v] /\ scopes' = scopes
    BY <1>9, <2>1 DEF TypeOK, Load
  <2>3. stage[call[v].of] = "ready"
    BY <2>2 DEF ClosedIsClosed
  <2> QED
    BY <1>2, <2>1, <2>2, <2>3 DEF TypeOK
<1>10. ASSUME Shutdown \/ ShutdownEnds \/ UNCHANGED vars
       PROVE  call'[v] = call[v] /\ scopes' \subseteq scopes /\ stage' = stage
  BY <1>10 DEF Shutdown, ShutdownEnds, vars
<1> QED
  BY <1>1, <1>2, <1>3, <1>4, <1>6, <1>7, <1>8, <1>9, <1>10 DEF Next, Resumes

-----------------------------------------------------------------------------
(* Nothing held gets out of reach.                                          *)

(* What a step must keep of the calls and the caches for Reachable.         *)
LEMMA ReachableKept ==
  ASSUME Reachable, runtime' # "down" => runtime # "down", key' = key,
         \A i \in Instances : Holding(i)' => Holding(i),
         \A i \in Instances : Holding(i)' /\ pluginCache[key[i]] = i =>
           pluginCache'[key[i]] = i \/ BeingEvicted(i)',
         \A i \in Instances : Holding(i)' /\ BeingEvicted(i) => BeingEvicted(i)',
         \A i \in scopes' : (stage[i] = "initializing" \/ i \in active) /\ i \in scopes =>
           stage'[i] = "initializing" \/ i \in active',
         scopes' \subseteq scopes
  PROVE  Reachable'
BY DEF Reachable

LEMMA EvictsKept ==
  ASSUME TypeOK, NEW u \in Users, NEW c, call' = [call EXCEPT ![u] = c],
         call[u].at \notin {"evicting", "closing"}
           \/ (c.at \in {"evicting", "closing"} /\ c.of = call[u].of),
         NEW i, BeingEvicted(i)
  PROVE  BeingEvicted(i)'
<1>1. \A v \in Users : call'[v] = IF v = u THEN c ELSE call[v]
  BY DEF TypeOK
<1> QED
  BY <1>1 DEF BeingEvicted

LEMMA EvictReach ==
  ASSUME TypeOK, NamesKeys, Reachable, NEW u \in Users, NEW k \in Plugins, EvictCached(u, k),
         call[u].at \notin {"evicting", "closing"},
         UNCHANGED <<key, stage, scopes, active, runtime, closing>>
  PROVE  Reachable'
<1>1. PICK c : call' = [call EXCEPT ![u] = c]
  BY DEF EvictCached
<1>2. \A i \in Instances : BeingEvicted(i) => BeingEvicted(i)'
  BY <1>1, EvictsKept
<1>3. ASSUME NEW i \in Instances, Holding(i), pluginCache[key[i]] = i
      PROVE  pluginCache'[key[i]] = i \/ BeingEvicted(i)'
  <2>1. key[i] \in Plugins
    BY <1>3 DEF Holding, InProgress, TypeOK
  <2>2. CASE key[i] # k
    BY <1>3, <2>1, <2>2, EvictShape
  <2>3. CASE key[i] = k
    <3>1. call'[u] = [at |-> "evicting", key |-> k, of |-> i]
      BY <1>3, <2>3, EvictShape, Numbers
    <3> QED
      BY <3>1 DEF BeingEvicted
  <2> QED
    BY <2>2, <2>3
<1>4. \A i \in Instances : Holding(i)' <=> Holding(i)
  BY DEF Holding, InProgress
<1> QED
  BY <1>2, <1>3, <1>4, ReachableKept

(* One instance leaves a stage for another: the rest is as it was.          *)
LEMMA PipelineReach ==
  ASSUME TypeOK, Reachable, NEW i \in Instances, Pipeline(i)
  PROVE  Reachable'
<1>1. UNCHANGED <<pluginCache, key, call, runtime>>
  BY DEF Pipeline, Loaded, LoadFails, Initialized, InitializeFails, Interrupted
<1>2. \A j \in Instances : j # i => stage'[j] = stage[j]
  BY DEF Pipeline, Loaded, LoadFails, Initialized, InitializeFails, Interrupted, TypeOK
<1>3. i \in InProgress
  BY DEF Pipeline, Loaded, LoadFails, Initialized, InitializeFails, Interrupted, InProgress
<1>4. scopes' \subseteq scopes \cup {i} /\ active \subseteq active'
  BY DEF Pipeline, Loaded, LoadFails, Initialized, InitializeFails, Interrupted
<1>5. i \in scopes' => stage'[i] = "initializing" \/ i \in active'
  BY DEF Pipeline, Loaded, LoadFails, Initialized, InitializeFails, Interrupted, TypeOK
<1>6. \A j \in Instances : Holding(j)' => Holding(j)
  BY <1>2, <1>3, <1>4 DEF Holding, InProgress
<1>7. \A j \in Instances : BeingEvicted(j)' <=> BeingEvicted(j)
  BY <1>1 DEF BeingEvicted
<1>8. \A j \in scopes' : j \in Instances
  BY <1>4 DEF TypeOK
<1>9. ASSUME runtime' # "down"
      PROVE  \A j \in Instances : Holding(j)' => pluginCache'[key'[j]] = j \/ BeingEvicted(j)'
  BY <1>1, <1>6, <1>7, <1>9 DEF Reachable
<1>10. ASSUME runtime' # "down", NEW j \in scopes'
       PROVE  stage'[j] = "initializing" \/ j \in active'
  BY <1>1, <1>2, <1>4, <1>5, <1>8, <1>10 DEF Reachable
<1> QED
  BY <1>9, <1>10 DEF Reachable

LEMMA ReachableStep == IInv /\ [Next]_vars => Reachable'
<1> SUFFICES ASSUME TypeOK, NamesKeys, Reachable, ClosedIsClosed, [Next]_vars PROVE Reachable'
  BY DEF IInv
<1>1. ASSUME NEW u \in Users, NEW k \in Plugins, Join(u, k) PROVE Reachable'
  <2>1. PICK c : call' = [call EXCEPT ![u] = c]
    BY <1>1 DEF Join
  <2>2. call[u].at \notin {"evicting", "closing"}
          /\ UNCHANGED <<pluginCache, key, stage, scopes, active, runtime>>
    BY <1>1 DEF Join, Idle
  <2>3. \A i \in Instances : BeingEvicted(i) => BeingEvicted(i)'
    BY <2>1, <2>2, EvictsKept
  <2>4. \A i \in Instances : Holding(i)' <=> Holding(i)
    BY <2>2 DEF Holding, InProgress
  <2> QED
    BY <2>2, <2>3, <2>4, ReachableKept
<1>2. ASSUME NEW u \in Users, NEW k \in Plugins, Load(u, k) PROVE Reachable'
  <2>1. PICK i \in Instances :
          /\ stage[i] = "unused"
          /\ key' = [key EXCEPT ![i] = k]
          /\ stage' = [stage EXCEPT ![i] = "loading"]
          /\ pluginCache' = [pluginCache EXCEPT ![k] = i]
          /\ call' = [call EXCEPT ![u] = [at |-> "using", key |-> k, of |-> i]]
    BY <1>2 DEF Load
  <2>2. /\ call[u].at \notin {"evicting", "closing"} /\ pluginCache[k] = None
        /\ UNCHANGED <<scopes, active, runtime>> /\ runtime # "down"
    BY <1>2 DEF Load, MayLoad, Idle
  <2>3. \A j \in Instances : BeingEvicted(j) => BeingEvicted(j)'
    BY <2>1, <2>2, EvictsKept
  <2>4. \A j \in Instances :
          /\ key'[j] = IF j = i THEN k ELSE key[j]
          /\ stage'[j] = IF j = i THEN "loading" ELSE stage[j]
    BY <2>1 DEF TypeOK
  <2>5. pluginCache'[k] = i /\ \A l \in Plugins : l # k => pluginCache'[l] = pluginCache[l]
    BY <2>1 DEF TypeOK
  <2>6. i \notin scopes
    BY <2>1 DEF TypeOK
  <2>7. ASSUME NEW j \in Instances, j # i, Holding(j)'
        PROVE  pluginCache'[key'[j]] = j \/ BeingEvicted(j)'
    <3>1. Holding(j) /\ key'[j] = key[j]
      BY <2>2, <2>4, <2>7 DEF Holding, InProgress
    <3>2. key[j] \in Plugins
      BY <3>1 DEF Holding, InProgress, TypeOK
    <3> QED
      BY <2>2, <2>3, <2>5, <3>1, <3>2, Numbers DEF Reachable
  <2>8. ASSUME NEW j \in scopes' PROVE stage'[j] = "initializing" \/ j \in active'
    BY <2>2, <2>4, <2>6, <2>8 DEF Reachable, TypeOK
  <2> QED
    BY <2>4, <2>5, <2>7, <2>8 DEF Reachable
<1>3. ASSUME NEW i \in Instances, Pipeline(i) PROVE Reachable'
  BY <1>3, PipelineReach
<1>4. ASSUME NEW u \in Users, Used(u) \/ UseFails(u) \/ EvictFailed(u) PROVE Reachable'
  <2>1. /\ call' = [call EXCEPT ![u] = Idle] /\ UNCHANGED <<key, stage, scopes, active, runtime>>
        /\ call[u].at \in {"using", "evicting"}
    BY <1>4 DEF Used, UseFails, EvictFailed
  <2>2. \A i \in Instances : Holding(i)' <=> Holding(i)
    BY <2>1 DEF Holding, InProgress
  <2>3. call[u].at = "evicting" => stage[call[u].of] = "failed"
    BY <1>4 DEF Used, UseFails, EvictFailed
  <2>4. ASSUME NEW i \in Instances, Holding(i), BeingEvicted(i) PROVE BeingEvicted(i)'
    <3>1. stage[i] # "failed"
      BY <2>4 DEF Holding, InProgress, TypeOK
    <3>2. \A v \in Users : v # u => call'[v] = call[v]
      BY <2>1 DEF TypeOK
    <3> QED
      BY <2>1, <2>3, <2>4, <3>1, <3>2 DEF BeingEvicted
  <2>5. ASSUME NEW i \in Instances, Holding(i), pluginCache[key[i]] = i
        PROVE  pluginCache'[key[i]] = i
    <3>1. stage[i] # "failed" /\ key[i] \in Plugins
      BY <2>5 DEF Holding, InProgress, TypeOK
    <3>2. pluginCache' = pluginCache \/ UseFails(u)
      BY <1>4 DEF Used, EvictFailed
    <3>3. ASSUME UseFails(u) PROVE pluginCache'[key[i]] = i
      <4>1. stage[call[u].of] = "failed" /\ call[u].of # i
        BY <3>1, <3>3 DEF UseFails
      <4>2. \/ pluginCache' = pluginCache
            \/ /\ pluginCache[call[u].key] = call[u].of
               /\ pluginCache' = [pluginCache EXCEPT ![call[u].key] = None]
        BY <3>3 DEF UseFails
      <4> QED
        BY <2>5, <3>1, <4>1, <4>2 DEF TypeOK
    <3> QED
      BY <2>5, <3>2, <3>3
  <2> QED
    BY <2>1, <2>2, <2>4, <2>5, ReachableKept
<1>5. ASSUME NEW u \in Users, RouterThrows(u) PROVE Reachable'
  <2>1. call[u].key \in Plugins /\ call[u].at = "using"
    BY <1>5, CallForms, IdleAt DEF RouterThrows
  <2> QED
    BY <1>5, <2>1, EvictReach DEF RouterThrows
<1>6. ASSUME NEW u \in Users, NEW k \in Plugins, evictPlugin(u, k) PROVE Reachable'
  <2>1. call[u].at = "idle"
    BY <1>6 DEF evictPlugin, Idle
  <2> QED
    BY <1>6, <2>1, EvictReach DEF evictPlugin
<1>7. ASSUME NEW u \in Users, EvictClose(u) PROVE Reachable'
  <2>1. call[u] # Idle /\ call[u].at = "evicting"
    BY <1>7, IdleAt DEF EvictClose
  <2>2. call' = [call EXCEPT ![u] = [call[u] EXCEPT !.at = "closing"]]
          /\ UNCHANGED <<pluginCache, key, stage, active, runtime>> /\ scopes' \subseteq scopes
    BY <1>7 DEF EvictClose
  <2>3. [call[u] EXCEPT !.at = "closing"].of = call[u].of
          /\ [call[u] EXCEPT !.at = "closing"].at = "closing"
    BY <2>1, CallForms
  <2>4. \A i \in Instances : BeingEvicted(i) => BeingEvicted(i)'
    BY <2>2, <2>3, EvictsKept
  <2>5. \A i \in Instances : Holding(i)' => Holding(i)
    BY <2>2 DEF Holding, InProgress
  <2> QED
    BY <2>2, <2>4, <2>5, ReachableKept
<1>8. ASSUME NEW u \in Users, EvictUnregister(u) PROVE Reachable'
  <2>1. /\ call' = [call EXCEPT ![u] = Idle] /\ call[u].at = "closing"
        /\ active' = active \ {call[u].of}
        /\ UNCHANGED <<pluginCache, key, stage, scopes, runtime>>
    BY <1>8 DEF EvictUnregister
  <2>2. call[u].of \notin scopes /\ stage[call[u].of] = "ready"
    BY <2>1 DEF ClosedIsClosed
  <2>3. \A i \in Instances : Holding(i)' <=> Holding(i)
    BY <2>1 DEF Holding, InProgress
  <2>4. ASSUME NEW i \in Instances, Holding(i), BeingEvicted(i) PROVE BeingEvicted(i)'
    <3>1. i # call[u].of
      BY <2>2, <2>4 DEF Holding, InProgress
    <3>2. \A v \in Users : v # u => call'[v] = call[v]
      BY <2>1 DEF TypeOK
    <3> QED
      BY <2>4, <3>1, <3>2 DEF BeingEvicted
  <2> QED
    BY <2>1, <2>2, <2>3, <2>4, ReachableKept
<1>9. ASSUME ShutdownEnds PROVE Reachable'
  BY <1>9 DEF ShutdownEnds, Reachable
<1>10. ASSUME Shutdown \/ UNCHANGED vars PROVE Reachable'
  <2>1. UNCHANGED <<pluginCache, key, stage, scopes, active, call>>
          /\ (runtime' # "down" => runtime # "down")
    BY <1>10 DEF Shutdown, vars
  <2>2. \A i \in Instances : (Holding(i)' <=> Holding(i)) /\ (BeingEvicted(i)' <=> BeingEvicted(i))
    BY <2>1 DEF Holding, InProgress, BeingEvicted
  <2> QED
    BY <2>1, <2>2, ReachableKept
<1> QED
  BY <1>1, <1>2, <1>3, <1>4, <1>5, <1>6, <1>7, <1>8, <1>9, <1>10 DEF Next, Resumes

-----------------------------------------------------------------------------
(* A cached load is waited for until it is ready or taken out.              *)
LEMMA AwaitedStep == IInv /\ [Next]_vars => LoadsAwaited'
<1> SUFFICES ASSUME TypeOK, NamesKeys, LoadsAwaited, DownIsEmpty, [Next]_vars,
                    NEW l \in Plugins, pluginCache'[l] # None, stage'[pluginCache'[l]] # "ready"
             PROVE  \E v \in Users : call'[v].at = "using" /\ call'[v].of = pluginCache'[l]
  BY DEF LoadsAwaited, Using, IInv
<1> DEFINE goal == \E v \in Users : call'[v].at = "using" /\ call'[v].of = pluginCache'[l]
<1>1. ASSUME pluginCache'[l] = pluginCache[l], stage[pluginCache[l]] # "ready",
             \A v \in Users : Using(v, pluginCache[l]) => call'[v] = call[v]
      PROVE  goal
  BY <1>1 DEF LoadsAwaited, Using
<1>2. ASSUME NEW u \in Users, NEW k \in Plugins, Join(u, k) PROVE goal
  <2>1. call[u].at # "using" /\ \A v \in Users : v # u => call'[v] = call[v]
    BY <1>2 DEF Join, TypeOK, Idle
  <2> QED
    BY <1>1, <1>2, <2>1 DEF Join, Using
<1>3. ASSUME NEW u \in Users, NEW k \in Plugins, Load(u, k) PROVE goal
  <2>1. PICK i \in Instances :
          /\ stage[i] = "unused"
          /\ stage' = [stage EXCEPT ![i] = "loading"]
          /\ pluginCache' = [pluginCache EXCEPT ![k] = i]
          /\ call' = [call EXCEPT ![u] = [at |-> "using", key |-> k, of |-> i]]
    BY <1>3 DEF Load
  <2>2. CASE l = k
    <3>1. pluginCache'[l] = i /\ call'[u].at = "using" /\ call'[u].of = i
      BY <2>1, <2>2 DEF TypeOK
    <3> QED
      BY <3>1 DEF Using
  <2>3. CASE l # k
    <3>1. pluginCache'[l] = pluginCache[l] /\ pluginCache[l] \in Instances
      BY <2>1, <2>3 DEF TypeOK
    <3>2. stage[pluginCache[l]] # "ready"
      BY <2>1, <3>1 DEF TypeOK
    <3>3. call[u].at # "using" /\ \A v \in Users : v # u => call'[v] = call[v]
      BY <1>3, <2>1 DEF Load, TypeOK, Idle
    <3> QED
      BY <1>1, <3>1, <3>2, <3>3 DEF Using
  <2> QED
    BY <2>2, <2>3
<1>4. ASSUME NEW i \in Instances, Pipeline(i) PROVE goal
  <2>1. UNCHANGED <<pluginCache, call>> /\ stage[i] # "ready"
          /\ \A j \in Instances : j # i => stage'[j] = stage[j]
    BY <1>4 DEF Pipeline, Loaded, LoadFails, Initialized, InitializeFails, Interrupted, TypeOK,
       InProgress
  <2>2. pluginCache[l] \in Instances
    BY <2>1 DEF TypeOK
  <2> QED
    BY <1>1, <2>1, <2>2
<1>5. ASSUME NEW u \in Users, Used(u) \/ UseFails(u) PROVE goal
  <2>1. /\ call[u].at = "using" /\ call' = [call EXCEPT ![u] = Idle] /\ stage' = stage
        /\ pluginCache'[l] = pluginCache[l]
    BY <1>5 DEF Used, UseFails, TypeOK
  <2>2. call[u].of # pluginCache[l]
    <3>1. CASE Used(u)
      BY <2>1, <3>1 DEF Used
    <3>2. CASE UseFails(u)
      <4>1. SUFFICES ASSUME call[u].of = pluginCache[l] PROVE FALSE
        OBVIOUS
      <4>2. call[u].key = l
        BY <2>1, <4>1, IdleAt DEF NamesKeys
      <4>3. pluginCache' = [pluginCache EXCEPT ![l] = None]
        BY <3>2, <4>1, <4>2 DEF UseFails
      <4> QED
        BY <4>3 DEF TypeOK
    <3> QED
      BY <1>5, <3>1, <3>2
  <2> QED
    BY <1>1, <2>1, <2>2 DEF Using, TypeOK
<1>6. ASSUME NEW u \in Users, NEW k \in Plugins, EvictCached(u, k), stage' = stage,
             call[u].at # "using" \/ stage[call[u].of] = "ready"
      PROVE  goal
  <2>1. l # k /\ pluginCache'[l] = pluginCache[l] /\ \A v \in Users : v # u => call'[v] = call[v]
    BY <1>6, EvictShape
  <2> QED
    BY <1>1, <1>6, <2>1 DEF Using
<1>7. ASSUME NEW u \in Users, RouterThrows(u) PROVE goal
  <2>1. call[u].key \in Plugins
    BY <1>7, CallForms, IdleAt DEF RouterThrows
  <2> QED
    BY <1>6, <1>7, <2>1 DEF RouterThrows
<1>8. ASSUME NEW u \in Users, NEW k \in Plugins, evictPlugin(u, k) PROVE goal
  BY <1>6, <1>8 DEF evictPlugin, Idle
<1>9. ASSUME NEW u \in Users, EvictFailed(u) \/ EvictClose(u) \/ EvictUnregister(u) PROVE goal
  <2>1. /\ call[u].at # "using" /\ UNCHANGED <<pluginCache, stage>>
        /\ \A v \in Users : v # u => call'[v] = call[v]
    BY <1>9 DEF EvictFailed, EvictClose, EvictUnregister, TypeOK
  <2> QED
    BY <1>1, <2>1 DEF Using
<1>10. ASSUME Shutdown \/ UNCHANGED vars PROVE goal
  BY <1>1, <1>10 DEF Shutdown, vars
<1>11. ASSUME ShutdownEnds PROVE FALSE
  BY <1>11 DEF ShutdownEnds
<1> QED
  BY <1>2, <1>3, <1>4, <1>5, <1>7, <1>8, <1>9, <1>10, <1>11 DEF Next, Resumes

LEMMA DownStep == TypeOK /\ DownIsEmpty /\ [Next]_vars => DownIsEmpty'
<1> SUFFICES ASSUME TypeOK, DownIsEmpty, [Next]_vars, runtime' = "down", NEW l \in Plugins
             PROVE  pluginCache'[l] = None
  BY DEF DownIsEmpty
<1>1. ASSUME ShutdownEnds PROVE pluginCache'[l] = None
  BY <1>1 DEF ShutdownEnds
<1>2. ASSUME runtime' = runtime,
             pluginCache'[l] = pluginCache[l] \/ pluginCache'[l] = None
      PROVE  pluginCache'[l] = None
  BY <1>2 DEF DownIsEmpty
<1>3. ASSUME NEW u \in Users, NEW k \in Plugins, Join(u, k) \/ Load(u, k) \/ evictPlugin(u, k)
      PROVE  FALSE
  BY <1>3 DEF Join, Load, evictPlugin
<1>4. ASSUME NEW i \in Instances, Pipeline(i) PROVE pluginCache'[l] = None
  BY <1>2, <1>4 DEF Pipeline, Loaded, LoadFails, Initialized, InitializeFails, Interrupted
<1>5. ASSUME NEW u \in Users, Used(u) \/ UseFails(u) \/ EvictFailed(u) \/ EvictClose(u)
                                \/ EvictUnregister(u)
      PROVE  pluginCache'[l] = None
  <2>1. runtime' = runtime /\ (pluginCache'[l] = pluginCache[l] \/ pluginCache'[l] = None)
    BY <1>5 DEF Used, UseFails, EvictFailed, EvictClose, EvictUnregister, TypeOK
  <2> QED
    BY <1>2, <2>1
<1>6. ASSUME NEW u \in Users, RouterThrows(u) PROVE pluginCache'[l] = None
  <2>1. call[u].key \in Plugins
    BY <1>6, CallForms, IdleAt DEF RouterThrows
  <2> QED
    BY <1>2, <1>6, <2>1, EvictShape DEF RouterThrows
<1>7. ASSUME Shutdown \/ UNCHANGED vars PROVE pluginCache'[l] = None
  BY <1>2, <1>7 DEF Shutdown, vars
<1> QED
  BY <1>1, <1>3, <1>4, <1>5, <1>6, <1>7 DEF Next, Resumes

LEMMA InvInit == Init => IInv
<1> SUFFICES ASSUME Init PROVE IInv
  OBVIOUS
<1>1. TypeOK
  BY CallsTyped DEF Init, TypeOK, Stages
<1>2. NamesKeys /\ LoadsAwaited /\ DownIsEmpty
  BY DEF Init, NamesKeys, LoadsAwaited, DownIsEmpty
<1>3. Reachable /\ ClosedIsClosed
  BY DEF Init, Reachable, ClosedIsClosed, Holding, InProgress, Idle
<1> QED
  BY <1>1, <1>2, <1>3 DEF IInv

LEMMA InvStep == IInv /\ [Next]_vars => IInv'
<1> SUFFICES ASSUME IInv, [Next]_vars PROVE IInv'
  OBVIOUS
<1>1. TypeOK' /\ NamesKeys'
  BY TypeStep, NamesStep DEF IInv
<1>2. Reachable' /\ ClosedIsClosed'
  BY ReachableStep, ClosedStep DEF IInv
<1>3. LoadsAwaited' /\ DownIsEmpty'
  BY AwaitedStep, DownStep DEF IInv
<1> QED
  BY <1>1, <1>2, <1>3 DEF IInv

-----------------------------------------------------------------------------
(* The plugin runtime keeps its types, with every open scope that of a load *)
(* that is initializing or ready.                                           *)
THEOREM RuntimeTyped == Spec => []TypeOK
<1>1. IInv => TypeOK
  BY DEF IInv
<1> QED
  BY <1>1, InvInit, InvStep, PTL DEF Spec

(* No scope gets out of reach, whoever loads, evicts and fails at once.     *)
THEOREM NoScopeLeaks == Spec => []ScopesReachable
<1>1. IInv => ScopesReachable
  <2> SUFFICES ASSUME IInv, runtime = "up", NEW i \in scopes
               PROVE  \/ stage[i] = "initializing"
                      \/ i \in active /\ (pluginCache[key[i]] = i \/ BeingEvicted(i))
    BY DEF ScopesReachable
  <2>1. i \in Instances /\ Holding(i)
    BY DEF IInv, TypeOK, Holding
  <2> QED
    BY <2>1 DEF IInv, Reachable
<1> QED
  BY <1>1, InvInit, InvStep, PTL DEF Spec

(* Concurrent callers share one instance of a key.                          *)
THEOREM CallersShare == Spec => []OneInstancePerKey
<1>1. IInv => OneInstancePerKey
  BY DEF IInv, Reachable, OneInstancePerKey
<1> QED
  BY <1>1, InvInit, InvStep, PTL DEF Spec

(* A failure is forgotten with the callers that met it.                     *)
THEOREM NoFailureSticks == Spec => []FailureForgotten
<1>1. IInv => FailureForgotten
  BY DEF IInv, LoadsAwaited, FailureForgotten, Using
<1> QED
  BY <1>1, InvInit, InvStep, PTL DEF Spec
=============================================================================
