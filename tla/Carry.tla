-------------------------------- MODULE Carry --------------------------------
(***************************************************************************)
(* carry contexts: an immutable map is a chain of storages, each with the  *)
(* entries that were set over what it wraps, down to the static empty      *)
(* storage.  Tasks enter and leave scopes, hand their current context to   *)
(* new tasks, and share storages, which are counted by refer::RefCounted   *)
(* and deleted by whoever releases the last reference.  Not modelled:      *)
(* mutable and delayed contexts.                                           *)
(*                                                                         *)
(* A task owns its carrier and its scopes; fetch_add, fetch_sub and the    *)
(* deletion of a storage are a step each.  The references that the copies  *)
(* and moves of one call add and drop again are left out.                  *)
(***************************************************************************)
EXTENDS Naturals, Sequences, SequencesExt, FiniteSets

CONSTANTS
  Tasks, Keys, Values,
  Storages,  \* the addresses at which storages may be allocated
  Empty,     \* the static empty storage, which is not counted
  None,
  MaxDepth   \* bound: how many scopes a task enters

CarryAssumption ==
  /\ IsFiniteSet(Storages) /\ IsFiniteSet(Tasks)
  /\ Empty \notin Storages /\ None \notin Storages \cup {Empty}
  /\ MaxDepth \in Nat

VARIABLES
  live,     \* the storages that are allocated
  refs,     \* ref_count_
  wrapped,  \* wrapped_storage_
  entry,    \* new_entries_: the key and the value that were set
  stack,    \* of each task: what its scopes keep (prev_), and last what its carrier holds
  doing     \* of each task: [op, on], what it does with which storage

heap == <<live, refs, wrapped, entry>>
yvars == <<heap, stack, doing>>

Idle == [op |-> "idle", on |-> None]
Goto(t, op, s) == doing' = [doing EXCEPT ![t] = [op |-> op, on |-> s]]
Doing(t, op) == doing[t].op = op
On(t) == doing[t].on

Init ==
  /\ live = {}
  /\ refs = [s \in Storages |-> 0]
  /\ wrapped = [s \in Storages |-> None] /\ entry = [s \in Storages |-> None]
  /\ stack = [t \in Tasks |-> <<>>]
  /\ doing = [t \in Tasks |-> Idle]

-----------------------------------------------------------------------------
(* Ref: a copy adds a reference, the end of one drops it.                   *)

\* Mutant of Added: a copy of a Ref adopts what it copies.
Adopted(s) == refs

\* The empty storage is not counted.
Added(s) == [r \in Storages |-> IF r = s THEN refs[r] + 1 ELSE refs[r]]

\* Whoever takes the count from one to zero destroys the storage.
ReleaseRef(t) ==
  /\ Doing(t, "release")
  /\ refs' = [r \in Storages |-> IF r = On(t) THEN refs[r] - 1 ELSE refs[r]]
  /\ IF On(t) # Empty /\ refs[On(t)] = 1
       THEN Goto(t, "destroy", On(t))
       ELSE Goto(t, "idle", None)
  /\ UNCHANGED <<live, wrapped, entry, stack>>

\* Mutant of DestroySelf: what it wrapped is not released.
DestroySelfOnly(t) ==
  /\ Doing(t, "destroy")
  /\ live' = live \ {On(t)}
  /\ wrapped' = [wrapped EXCEPT ![On(t)] = None] /\ entry' = [entry EXCEPT ![On(t)] = None]
  /\ Goto(t, "idle", None)
  /\ UNCHANGED <<refs, stack>>

\* The destructor releases the wrapped storage.
DestroySelf(t) ==
  /\ Doing(t, "destroy")
  /\ live' = live \ {On(t)}
  /\ wrapped' = [wrapped EXCEPT ![On(t)] = None] /\ entry' = [entry EXCEPT ![On(t)] = None]
  /\ Goto(t, "release", wrapped[On(t)])
  /\ UNCHANGED <<refs, stack>>

-----------------------------------------------------------------------------
(* Scopes and carriers.                                                     *)

\* A new task sets its carrier to the empty context or to another's current one,
\* which that other copies for it.
StartEmpty(t) ==
  /\ Doing(t, "idle") /\ stack[t] = <<>>
  /\ stack' = [stack EXCEPT ![t] = <<Empty>>]
  /\ UNCHANGED <<heap, doing>>

StartFrom(t, u) ==
  /\ Doing(t, "idle") /\ stack[t] = <<>>
  /\ Doing(u, "idle") /\ stack[u] # <<>>
  /\ stack' = [stack EXCEPT ![t] = <<Last(stack[u])>>]
  /\ refs' = Added(Last(stack[u]))
  /\ UNCHANGED <<live, wrapped, entry, doing>>

\* WrapScope: the wrapper copies the current context, Done makes a storage over
\* it, and the scope sets the carrier to that.
Wrap(t) ==
  /\ Doing(t, "idle") /\ stack[t] # <<>> /\ Len(stack[t]) <= MaxDepth
  /\ refs' = Added(Last(stack[t]))
  /\ Goto(t, "new", Last(stack[t]))
  /\ UNCHANGED <<live, wrapped, entry, stack>>

DoneAndSet(t, k, v) ==
  /\ Doing(t, "new")
  /\ \E s \in Storages \ live :
       /\ live' = live \cup {s}
       /\ refs' = [refs EXCEPT ![s] = 1]
       /\ wrapped' = [wrapped EXCEPT ![s] = On(t)]
       /\ entry' = [entry EXCEPT ![s] = <<k, v>>]
       /\ stack' = [stack EXCEPT ![t] = Append(@, s)]
  /\ Goto(t, "idle", None)

\* The scope sets its previous context; the carrier lets go of the current one.
\* The last context goes with the carrier of the task.
Leave(t) ==
  /\ Doing(t, "idle") /\ stack[t] # <<>>
  /\ stack' = [stack EXCEPT ![t] = Front(@)]
  /\ Goto(t, "release", Last(stack[t]))
  /\ UNCHANGED heap

-----------------------------------------------------------------------------
Count(t) == ReleaseRef(t) \/ DestroySelf(t)
Task(t) == StartEmpty(t) \/ Wrap(t) \/ Leave(t)

Next ==
  \/ \E t \in Tasks : Count(t) \/ Task(t)
  \/ \E t, u \in Tasks : StartFrom(t, u)
  \/ \E t \in Tasks, k \in Keys, v \in Values : DoneAndSet(t, k, v)

Spec == Init /\ [][Next]_yvars

-----------------------------------------------------------------------------
(* Properties                                                               *)

\* What refers to a storage: what wraps it, the tasks that hold a reference in
\* their hands, and the places in their stacks.
Wrappers(s) == {r \in live : wrapped[r] = s}
Holders(s) == {t \in Tasks : On(t) = s /\ doing[t].op \in {"new", "release"}}
Places(s) ==
  {x \in Tasks \X (1 .. MaxDepth + 1) : x[2] \in DOMAIN stack[x[1]] /\ stack[x[1]][x[2]] = s}

References(s) == Cardinality(Wrappers(s)) + Cardinality(Holders(s)) + Cardinality(Places(s))

\* Every storage that is referred to is alive, and every live storage has as many
\* references as its count says: none is deleted while a context still leads to
\* it, and none stays behind (refer/ref.hpp, refer/ref_counted.hpp).
CountsAreReferences ==
  \A s \in Storages :
    /\ refs[s] = References(s)
    /\ s \in live <=> References(s) > 0 \/ \E t \in Tasks : doing[t] = [op |-> "destroy", on |-> s]

\* Lookup and CollectKeys: a storage's own entry, then what it wraps.
Own(s, below) ==
  [k \in DOMAIN below \cup {entry[s][1]} |-> IF k = entry[s][1] THEN entry[s][2] ELSE below[k]]

\* The contents of the storages, looked up no deeper than a number of storages.
Map(s) ==
  LET map[n \in 0 .. Cardinality(Storages)] ==
        LET below == map[n - 1]
        IN  [r \in Storages \cup {Empty, None} |->
               IF n # 0 /\ r \in live THEN Own(r, below[wrapped[r]]) ELSE <<>>]
  IN  map[Cardinality(Storages)][s]

\* A context is an immutable map: scopes, copies, deletions and new storages at
\* the address of deleted ones, by any number of tasks, never change what another
\* context holds, and the end of a scope brings back what was there before
\* (carry/wrap.cpp:16-56, carry/scope.hpp:13-26).
Contexts == INSTANCE ScopedContexts WITH
  maps <- [t \in Tasks |-> [i \in DOMAIN stack[t] |-> Map(stack[t][i])]]
ContextSpec == Contexts!SSpec
=============================================================================
