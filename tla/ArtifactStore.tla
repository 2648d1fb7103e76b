---------------------------- MODULE ArtifactStore ----------------------------
(***************************************************************************)
(* What the persistent kernel cache promises for one key, stated without   *)
(* locks, probes or temporary files.  `store` is the artifact at the final *)
(* path and kernel[c] the callable caller c holds in memory.               *)
(***************************************************************************)
CONSTANTS Caller, Absent, Corrupt

VARIABLES store, kernel

avars == <<store, kernel>>

IsBuild(a) == a \in Caller

AInit == /\ store \in {Absent, Corrupt} \cup Caller
         /\ kernel = [c \in Caller |-> Absent]

\* A build reaches the final path only while nothing is there, and whole.
Publish == /\ store = Absent
           /\ store' \in Caller
           /\ UNCHANGED kernel

\* Only an artifact that cannot be loaded is ever removed.
Quarantine == /\ store = Corrupt
              /\ store' = Absent
              /\ UNCHANGED kernel

\* A caller is served the stored build, or the one it compiled itself.
Obtain(c) == /\ \E k \in {c} \cup ({store} \cap Caller) :
                   kernel' = [kernel EXCEPT ![c] = k]
             /\ UNCHANGED store

\* cache_discard, cache_clear, or the death of the process.
Forget(c) == /\ kernel' = [kernel EXCEPT ![c] = Absent]
             /\ UNCHANGED store

ANext == \/ Publish
         \/ Quarantine
         \/ \E c \in Caller : Obtain(c) \/ Forget(c)

ASpec == AInit /\ [][ANext]_avars
==============================================================================
