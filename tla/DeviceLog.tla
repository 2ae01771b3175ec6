------------------------------ MODULE DeviceLog ------------------------------
(***************************************************************************)
(* What a device's observation log promises to everything built on it:     *)
(* numbered observations that are added above every number in use, never   *)
(* changed, and never lost once they are on stable storage.  ObsLog.tla    *)
(* (the files under devices/<id>/) implements this specification.          *)
(***************************************************************************)
EXTENDS Integers

VARIABLES
  entries,   \* sequence number |-> observation, for the numbers in use
  stable     \* the numbers whose observation survives a power loss

vars == <<entries, stable>>

Init ==
  /\ entries = << >>
  /\ stable = {}

(* Everything in f is still in g, unchanged. *)
KeptIn(f, g) ==
  /\ DOMAIN f \subseteq DOMAIN g
  /\ \A n \in DOMAIN f : g[n] = f[n]

(* New observations take numbers above all those in use. *)
Extend ==
  /\ KeptIn(entries, entries')
  /\ \A m \in DOMAIN entries, n \in DOMAIN entries' \ DOMAIN entries : m < n
  /\ UNCHANGED stable

(* Directories are synced or written back: more of what is there becomes   *)
(* stable.                                                                 *)
Persist ==
  /\ stable \subseteq stable'
  /\ stable' \subseteq DOMAIN entries
  /\ UNCHANGED entries

(* A power loss may take what is not stable; what is left then stays. *)
Lose ==
  /\ KeptIn(entries', entries)
  /\ stable \subseteq DOMAIN entries'
  /\ stable' = DOMAIN entries'

Next == Extend \/ Persist \/ Lose

Spec == Init /\ [][Next]_vars

=============================================================================
