----------------------------- MODULE MCRuntime -----------------------------
(***************************************************************************)
(* Instances of Runtime: a source with two outputs, a sink for each type,  *)
(* and a prepared item, in a configuration file or created by requests.    *)
(***************************************************************************)
EXTENDS Runtime, TLC

Symmetry == Permutations(Handlers)

MCInputs == [fork |-> <<>>, sink |-> <<"u">>, prep |-> <<>>]
MCOutputs == [fork |-> <<"u", "v">>, sink |-> <<>>, prep |-> <<>>]

Binding(n, type, p, c) == [name |-> n, type |-> type, producers |-> p, consumers |-> c]
Good == Binding("good", "SPSC", << <<"fork", 1>> >>, << <<"sink", 1>> >>)

\* It competes with the good one for the first slot, and fails at the second,
\* which is of another type.
Mixed == Binding("mixed", "MPMC", << <<"fork", 1>>, <<"fork", 2>> >>, << <<"fork", 1>> >>)

\* A slot beyond the last one, of the consumer or of the producer, an input of
\* another type, and an end that cannot put.
Beyond == Binding("beyond", "MPSC", << <<"fork", 2>> >>, << <<"sink", 2>> >>)
Missing == Binding("missing", "SPSC", << <<"fork", 3>> >>, << <<"sink", 1>> >>)
Other == Binding("other", "SPMC", << <<"fork", 2>> >>, << <<"sink", 1>> >>)
Back == Binding("back", "MPMC", << <<"sink", 1>> >>, << <<"fork", 1>> >>)
MCBindings == {Good, Mixed, Beyond, Missing, Other, Back}

MCFiles ==
  { [prepared |-> <<>>, postboy |-> <<>>, binding |-> <<>>],
    [prepared |-> <<"prep">>, postboy |-> <<"fork", "sink">>,
     binding |-> <<Good, Beyond>>],
    [prepared |-> <<>>, postboy |-> <<"fork", "sink">>, binding |-> <<Missing>>],
    [prepared |-> <<"prep">>, postboy |-> <<"fork">>, binding |-> <<Mixed>>],
    [prepared |-> <<"fork">>, postboy |-> <<>>, binding |-> <<>>],
    [prepared |-> <<>>, postboy |-> <<"sink", "sink">>, binding |-> <<>>],
    [prepared |-> <<>>, postboy |-> <<"sink">>, binding |-> << >>] }

NoFile == { [prepared |-> <<>>, postboy |-> <<>>, binding |-> <<>>] }

\* Where a handler binds.
Binds == {"idle", "findBinding", "ensureBinding", "setup", "link", "insertBinding"} \cup Setting

\* What is followed, up to the first contest: no request for the prepared item;
\* one of the odd bindings, where the item is; two requests at a time where it is
\* not, beside at most one postboy that was started, and then for bindings.
Followed ==
  LET odd == listed.binding \ {"good", "mixed"}
      started == {o \in Workers : heap[o].threads > 0}
  IN  /\ \A h \in Handlers : th[h].pc \in {"findPostboy", "findToRun"} => th[h].job # "prep"
      /\ ~contested
      /\ (At(Main, "serve") /\ odd # {}) => metricNames["prep"] > 0 /\ Cardinality(odd) <= 1
      /\ (\A h \in Handlers : ~At(h, "idle")) =>
           /\ metricNames["prep"] = 0
           /\ Cardinality(started) <= 1
           /\ started # {} => \A h \in Handlers : th[h].pc \in Binds

\* Two requests before any postboy is started.
NoneStarted == \A o \in Workers : heap[o].threads = 0
=============================================================================
