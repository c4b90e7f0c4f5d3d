--------------------------- MODULE PluginRuntime ---------------------------
(***************************************************************************)
(* The runtime that loads plugins into a process                            *)
(* (packages/every-plugin/src/runtime): a cache of promises and a cache of  *)
(* routers per plugin and configuration, the pipeline load, instantiate,    *)
(* initialize, register behind each promise, eviction, and shutdown.  A     *)
(* step is the code between two awaits.                                     *)
(*                                                                         *)
(* Simplifications: a cache key is a model value; an instance stands for    *)
(* its promise, its scope and its router, so a cached router is named by    *)
(* the instance it was built from.  createRouter may throw.                 *)
(***************************************************************************)
EXTENDS Integers, FiniteSets

CONSTANTS
  Plugins,       \* cache keys: plugin id and configuration
  Users,         \* concurrent callers of usePlugin and evictPlugin
  MaxLoads,      \* bound: loads ever started
  None,
  Shutdowns      \* whether the runtime is shut down

ASSUME RuntimeAssumption ==
  /\ MaxLoads \in Nat \ {0} /\ None \notin Plugins /\ None \notin Nat
  /\ Shutdowns \in BOOLEAN

Instances == 1..MaxLoads

VARIABLES
  pluginCache,   \* per key, the instance whose promise is cached
  routerCache,   \* per key, the instance whose router is cached
  key, stage,    \* per instance: its key and where its pipeline is
  scopes,        \* instances whose scope is open
  active,        \* PluginLifecycleService's set of registered instances
  call,          \* what a user's call is waiting for
  runtime,       \* "up", "closing", "down"
  closing        \* the instances shutdown found active

vars == <<pluginCache, routerCache, key, stage, scopes, active, call, runtime, closing>>

Stages == {"unused", "loading", "initializing", "ready", "failed"}
InProgress == {i \in Instances : stage[i] \in {"loading", "initializing"}}
Idle == [at |-> "idle"]
Call == {Idle} \cup [at : {"using", "evicting", "closing"}, key : Plugins, of : Instances]

TypeOK ==
  /\ pluginCache \in [Plugins -> Instances \cup {None}]
  /\ routerCache \in [Plugins -> Instances \cup {None}]
  /\ key \in [Instances -> Plugins \cup {None}]
  /\ stage \in [Instances -> Stages]
  /\ \A i \in Instances : stage[i] = "unused" <=> key[i] = None
  /\ scopes \subseteq {i \in Instances : stage[i] \in {"initializing", "ready"}}
  /\ active \subseteq {i \in Instances : stage[i] = "ready"}
  /\ call \in [Users -> Call]
  /\ runtime \in {"up", "closing", "down"}
  /\ closing \subseteq Instances

Init ==
  /\ pluginCache = [k \in Plugins |-> None]
  /\ routerCache = [k \in Plugins |-> None]
  /\ key = [i \in Instances |-> None]
  /\ stage = [i \in Instances |-> "unused"]
  /\ scopes = {} /\ active = {} /\ closing = {}
  /\ call = [u \in Users |-> Idle]
  /\ runtime = "up"

-----------------------------------------------------------------------------
(* usePlugin: a cached promise is awaited, otherwise a load is started and  *)
(* its promise cached before anything of it is awaited.                     *)
Join(u, k) ==
  /\ call[u] = Idle /\ runtime # "down" /\ pluginCache[k] # None
  /\ call' = [call EXCEPT ![u] = [at |-> "using", key |-> k, of |-> pluginCache[k]]]
  /\ UNCHANGED <<pluginCache, routerCache, key, stage, scopes, active, runtime, closing>>

MayLoadUncached(k) == TRUE
MayLoad(k) == pluginCache[k] = None

Load(u, k) ==
  /\ call[u] = Idle /\ runtime # "down" /\ MayLoad(k)
  /\ \E i \in Instances :
       /\ stage[i] = "unused" /\ \A j \in Instances : j < i => stage[j] # "unused"
       /\ key' = [key EXCEPT ![i] = k]
       /\ stage' = [stage EXCEPT ![i] = "loading"]
       /\ pluginCache' = [pluginCache EXCEPT ![k] = i]
       /\ call' = [call EXCEPT ![u] = [at |-> "using", key |-> k, of |-> i]]
  /\ UNCHANGED <<routerCache, scopes, active, runtime, closing>>

(* The pipeline.  Remote, shared identity and constructor are found, the    *)
(* configuration is valid: initialization starts in a scope of its own.     *)
Loaded(i) ==
  /\ stage[i] = "loading"
  /\ stage' = [stage EXCEPT ![i] = "initializing"]
  /\ scopes' = scopes \cup {i}
  /\ UNCHANGED <<pluginCache, routerCache, key, active, call, runtime, closing>>

LoadFails(i) ==
  /\ stage[i] = "loading"
  /\ stage' = [stage EXCEPT ![i] = "failed"]
  /\ UNCHANGED <<pluginCache, routerCache, key, scopes, active, call, runtime, closing>>

Initialized(i) ==
  /\ stage[i] = "initializing"
  /\ stage' = [stage EXCEPT ![i] = "ready"]
  /\ active' = active \cup {i}
  /\ UNCHANGED <<pluginCache, routerCache, key, scopes, call, runtime, closing>>

InitializeFails(i) ==
  /\ stage[i] = "initializing"
  /\ stage' = [stage EXCEPT ![i] = "failed"]
  /\ scopes' = scopes \ {i}
  /\ UNCHANGED <<pluginCache, routerCache, key, active, call, runtime, closing>>

-----------------------------------------------------------------------------
(* usePlugin, after its await.                                              *)
UseFailsKeeping(u) ==
  /\ call[u].at = "using" /\ stage[call[u].of] = "failed"
  /\ call' = [call EXCEPT ![u] = Idle]
  /\ UNCHANGED <<pluginCache, routerCache, key, stage, scopes, active, runtime, closing>>
UseFails(u) ==
  /\ call[u].at = "using" /\ stage[call[u].of] = "failed"
  /\ LET k == call[u].key
         mine == pluginCache[k] = call[u].of
     IN  /\ pluginCache' = IF mine THEN [pluginCache EXCEPT ![k] = None] ELSE pluginCache
         /\ routerCache' = IF mine THEN [routerCache EXCEPT ![k] = None] ELSE routerCache
  /\ call' = [call EXCEPT ![u] = Idle]
  /\ UNCHANGED <<key, stage, scopes, active, runtime, closing>>

(* The router is built once and cached, or already there.                   *)
Used(u) ==
  /\ call[u].at = "using" /\ stage[call[u].of] = "ready"
  /\ routerCache' = IF routerCache[call[u].key] = None
                      THEN [routerCache EXCEPT ![call[u].key] = call[u].of]
                      ELSE routerCache
  /\ call' = [call EXCEPT ![u] = Idle]
  /\ UNCHANGED <<pluginCache, key, stage, scopes, active, runtime, closing>>

(* Eviction takes what the cache holds by then out of both caches, in the   *)
(* step that asks for it, and goes on when that instance's load has ended.  *)
EvictCached(u, k) ==
  IF pluginCache[k] = None
    THEN /\ call' = [call EXCEPT ![u] = Idle]
         /\ UNCHANGED <<pluginCache, routerCache>>
    ELSE /\ call' = [call EXCEPT ![u] =
              [at |-> "evicting", key |-> k, of |-> pluginCache[k]]]
         /\ pluginCache' = [pluginCache EXCEPT ![k] = None]
         /\ routerCache' = [routerCache EXCEPT ![k] = None]

RouterThrows(u) ==
  /\ call[u].at = "using" /\ stage[call[u].of] = "ready"
  /\ routerCache[call[u].key] = None
  /\ EvictCached(u, call[u].key)
  /\ UNCHANGED <<key, stage, scopes, active, runtime, closing>>

evictPlugin(u, k) ==
  /\ call[u] = Idle /\ runtime # "down" /\ pluginCache[k] # None
  /\ EvictCached(u, k)
  /\ UNCHANGED <<key, stage, scopes, active, runtime, closing>>

(* shutdownPlugin: the scope is closed, and the instance unregistered when  *)
(* its finalizers have run.                                                 *)
EvictFailedReread(u) ==
  /\ call[u].at = "evicting" /\ pluginCache[call[u].key] # None
  /\ stage[pluginCache[call[u].key]] = "failed"
  /\ call' = [call EXCEPT ![u] = Idle]
  /\ UNCHANGED <<pluginCache, routerCache, key, stage, scopes, active, runtime, closing>>
EvictFailed(u) ==
  /\ call[u].at = "evicting" /\ stage[call[u].of] = "failed"
  /\ call' = [call EXCEPT ![u] = Idle]
  /\ UNCHANGED <<pluginCache, routerCache, key, stage, scopes, active, runtime, closing>>

EvictCloseNothing(u) ==
  /\ call[u].at = "evicting" /\ stage[call[u].of] = "ready"
  /\ call' = [call EXCEPT ![u] = Idle]
  /\ UNCHANGED <<pluginCache, routerCache, key, stage, scopes, active, runtime, closing>>
EvictClose(u) ==
  /\ call[u].at = "evicting" /\ stage[call[u].of] = "ready"
  /\ scopes' = scopes \ {call[u].of}
  /\ call' = [call EXCEPT ![u].at = "closing"]
  /\ UNCHANGED <<pluginCache, routerCache, key, stage, active, runtime, closing>>

EvictUnregister(u) ==
  /\ call[u].at = "closing"
  /\ active' = active \ {call[u].of}
  /\ call' = [call EXCEPT ![u] = Idle]
  /\ UNCHANGED <<pluginCache, routerCache, key, stage, scopes, runtime, closing>>

-----------------------------------------------------------------------------
(* shutdown: cleanup closes the scopes of the instances it finds active,    *)
(* then empties the set, then the caches are cleared and the Effect runtime *)
(* is disposed.  What becomes of loads still in flight then is the Effect   *)
(* runtime's business: they may go on or be interrupted.                    *)
Shutdown ==
  /\ Shutdowns /\ runtime = "up"
  /\ runtime' = "closing" /\ closing' = active
  /\ UNCHANGED <<pluginCache, routerCache, key, stage, scopes, active, call>>

ShutdownEnds ==
  /\ runtime = "closing"
  /\ scopes' = scopes \ closing
  /\ active' = {} /\ closing' = {}
  /\ pluginCache' = [k \in Plugins |-> None]
  /\ routerCache' = [k \in Plugins |-> None]
  /\ runtime' = "down"
  /\ UNCHANGED <<key, stage, call>>

Interrupted(i) ==
  /\ runtime = "down" /\ i \in InProgress
  /\ stage' = [stage EXCEPT ![i] = "failed"]
  /\ scopes' = scopes \ {i}
  /\ UNCHANGED <<pluginCache, routerCache, key, active, call, runtime, closing>>

Pipeline(i) ==
  \/ Loaded(i) \/ LoadFails(i) \/ Initialized(i) \/ InitializeFails(i) \/ Interrupted(i)

Resumes(u) ==
  \/ Used(u) \/ UseFails(u) \/ RouterThrows(u)
  \/ EvictFailed(u) \/ EvictClose(u) \/ EvictUnregister(u)

Next ==
  \/ \E u \in Users, k \in Plugins : Join(u, k) \/ Load(u, k) \/ evictPlugin(u, k)
  \/ \E i \in Instances : Pipeline(i)
  \/ \E u \in Users : Resumes(u)
  \/ Shutdown \/ ShutdownEnds

Spec == Init /\ [][Next]_vars

(* The event loop runs every continuation; nobody has to call anything.     *)
(* That a load settles is assumed: the runtime puts no timeout around       *)
(* loading a remote or a plugin's own initialize.                           *)
FairSpec ==
  Spec /\ (\A i \in Instances : WF_vars(Pipeline(i)))
       /\ (\A u \in Users : WF_vars(Resumes(u)))
       /\ WF_vars(ShutdownEnds)

-----------------------------------------------------------------------------
BeingEvicted(i) == \E u \in Users : call[u].at \in {"evicting", "closing"} /\ call[u].of = i
Holding(i) == i \in InProgress \/ i \in scopes

(* No resource is out of reach: while the runtime is up, an open scope      *)
(* belongs to a load that will close it on failure, or to a registered      *)
(* instance that the cache still names or an eviction is about to close     *)
(* (plugin-loader.service.ts: "otherwise every failed initialization leaks  *)
(* until the process exits").                                               *)
ScopesReachable ==
  runtime = "up" =>
    \A i \in scopes :
      \/ stage[i] = "initializing"
      \/ i \in active /\ (pluginCache[key[i]] = i \/ BeingEvicted(i))

(* Concurrent callers share one instance: two instances of one key exist    *)
(* only while one of them is being evicted (or the runtime shut down).      *)
OneInstancePerKey ==
  runtime # "down" =>
    \A i, j \in Instances :
      i # j /\ key[i] = key[j] /\ Holding(i) /\ Holding(j)
        => BeingEvicted(i) \/ BeingEvicted(j) \/ {i, j} \cap closing # {}

(* A failed load is not remembered: the cache names one only while one of   *)
(* the callers that will remove it has yet to resume, so a caller that      *)
(* comes after their error starts afresh.                                   *)
FailureForgotten ==
  \A k \in Plugins :
    pluginCache[k] # None /\ stage[pluginCache[k]] = "failed" =>
      \E u \in Users : call[u].at = "using" /\ call[u].of = pluginCache[k]

(* Every call ends, whatever fails, is evicted or shut down under it.       *)
EveryCallEnds == \A u \in Users : call[u] # Idle ~> call[u] = Idle

=============================================================================
