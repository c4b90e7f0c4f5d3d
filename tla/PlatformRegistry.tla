-------------------------- MODULE PlatformRegistry --------------------------
(***************************************************************************)
(* What the registry promises to the runtimes that resolve through it: per *)
(* environment a live config, and a release pointer that always names a    *)
(* record by version and digest.  A publish replaces the live config; a    *)
(* release replaces config, record and pointer in one step, so no reader   *)
(* ever resolves a pointer to bytes that are not there.                    *)
(***************************************************************************)
CONSTANTS Envs, Versions, Config, Record, Null

VARIABLES live,     \* the config each environment serves
          pointer,  \* the version and digest its release pointer names
          record    \* the version records, by environment and version

vars == <<live, pointer, record>>

Init ==
  /\ live \in [Envs -> Config \cup {Null}]
  /\ pointer = [e \in Envs |-> Null]
  /\ record = [e \in Envs |-> [v \in Versions |-> Null]]

Publish(e) ==
  /\ \E c \in Config : live' = [live EXCEPT ![e] = c]
  /\ UNCHANGED <<pointer, record>>

Release(e) ==
  \E c \in Config, v \in Versions, r \in Record :
    /\ live' = [live EXCEPT ![e] = c]
    /\ record' = [record EXCEPT ![e][v] = r]
    /\ pointer' = [pointer EXCEPT ![e] = [version |-> v, digest |-> r]]

Next == \E e \in Envs : Publish(e) \/ Release(e)

Spec == Init /\ [][Next]_vars

(* A pointer resolves: the record it names is there and has its digest.    *)
PointerResolves ==
  \A e \in Envs : pointer[e] # Null =>
    record[e][pointer[e].version] = pointer[e].digest
=============================================================================
