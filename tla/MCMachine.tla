----------------------------- MODULE MCMachine -----------------------------
(***************************************************************************)
(* Three processes and one fault: starts and stops of the daemon, two that *)
(* try a template while it is started or stopped, two that try a template  *)
(* and want the same two ports, and two that build and push one project.   *)
(***************************************************************************)
EXTENDS Machine, TLC

CONSTANTS a, b, d, v

Nothing == [what |-> "none", kind |-> "group", build |-> FALSE, images |-> FALSE,
            dry |-> FALSE, tag |-> CHOOSE t \in Tag : TRUE]
Publish(tags) ==
    [what : {"build"}, kind : {"group"}, build : {FALSE}, images : {FALSE},
     dry : BOOLEAN, tag : tags]
    \cup [what : {"push"}, kind : {"template", "group"}, build : BOOLEAN,
          images : BOOLEAN, dry : BOOLEAN, tag : tags]

OnDaemon ==
    [want : {a :> w[1] @@ b :> w[2] @@ d :> w[3] :
                w \in {<<"start", "start", "start">>, <<"start", "start", "stop">>,
                       <<"start", "stop", "stop">>, <<"ensure", "start", "stop">>,
                       <<"ensure", "ensure", "stop">>, <<"ensure", "ensure", "none">>}},
     cmd : {[p \in Proc |-> Nothing]}, config : {{}}]
OnImages ==
    [want : {[p \in Proc |-> "none"]},
     cmd : {a :> x @@ b :> y @@ d :> Nothing : x \in Publish({v}), y \in Publish(Tag)},
     config : {{}, {"template", "blob"}, {"template"}}]

MCMixes == OnDaemon \cup OnImages
=============================================================================
