--------------------------- MODULE ScopedContexts ---------------------------
(***************************************************************************)
(* What contexts are to the tasks that use them: each task has a stack of  *)
(* maps.  A scope pushes the current map with one key set and its end      *)
(* pops it; a new task starts with a copy of another's current map.        *)
(* Nothing a task does changes the maps of another.                        *)
(***************************************************************************)
EXTENDS Sequences, SequencesExt

CONSTANTS Tasks, Keys, Values

VARIABLE maps

Set(m, k, v) == [x \in DOMAIN m \cup {k} |-> IF x = k THEN v ELSE m[x]]

SInit == maps = [t \in Tasks |-> <<>>]

Start(t) ==
  /\ maps[t] = <<>>
  /\ \E m \in {<<>>} \cup {Last(maps[u]) : u \in {x \in Tasks : maps[x] # <<>>}} :
       maps' = [maps EXCEPT ![t] = <<m>>]

Enter(t) ==
  /\ maps[t] # <<>>
  /\ \E k \in Keys, v \in Values :
       maps' = [maps EXCEPT ![t] = Append(@, Set(Last(@), k, v))]

Leave(t) ==
  /\ maps[t] # <<>>
  /\ maps' = [maps EXCEPT ![t] = Front(@)]

SNext == \E t \in Tasks : Start(t) \/ Enter(t) \/ Leave(t)

\* A step of a system that implements this one.
SStep == [SNext]_maps

SSpec == SInit /\ [][SNext]_maps
=============================================================================
