-------------------------- MODULE MCProjectHistory --------------------------
(* Two templates; version 2 of the second no longer has its own file.        *)
EXTENDS ProjectHistory

CONSTANTS app, lib, x,
          Kinds, Faults  \* of one scene

MCTemplate == {app, lib}
MCDropped == {<<lib, 2>>}

OneScene == {[kinds |-> Kinds, answers |-> Answer, faults |-> Faults]}

\* Three commands with two answers when nothing goes wrong, and every kind of
\* command when anything may.
MCScenes ==
    {[kinds |-> {"new", "upgrade"}, answers |-> Answer, faults |-> {}],
     [kinds |-> {"new", "upgrade", "rerun", "update"}, answers |-> {x},
      faults |-> {"fetch", "write", "crash", "deactivate"}]}

\* Scenes in which formulas of the documents fail.
RefutedScenes ==
    {[kinds |-> {"new", "upgrade", "rerun"}, answers |-> Answer, faults |-> {}],
     [kinds |-> {"new", "update"}, answers |-> {x}, faults |-> {"fetch", "crash"}]}
=============================================================================
