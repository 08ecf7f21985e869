--------------------------- MODULE CompositionRun ---------------------------
(***************************************************************************)
(* One run of `cyanprint create` or `cyanprint update`, seen from the      *)
(* coordinator sessions it allocates.                                      *)
(*                                                                         *)
(* The batch executes a list of template specs; a spec resolves to a list  *)
(* of templates, dependencies first.  Node numbers all of them in the      *)
(* order in which they are executed, and SpecOf[n] is the spec node n      *)
(* belongs to.  Executing a node warms a session at the coordinator; the   *)
(* session is then owned by one stack frame after another, and whoever     *)
(* owns it when the run takes an early return has to release it:           *)
(*                                                                         *)
(*    warmed  DefaultTemplateExecutor::execute_template (its local)        *)
(*    comp    CompositionSessionGuard of execute_composition               *)
(*    batch   SessionCleanupGuard of batch_process                         *)
(*    run     SessionCleanupGuard of cyan_run / update_templates, then the *)
(*            ids in CyanRunResult that the command boundary cleans        *)
(*                                                                         *)
(* A node is executed at most once in a run and its session id is fresh,   *)
(* so a session is named by its node.                                      *)
(***************************************************************************)
EXTENDS Integers

CONSTANTS NumNodes,  \* how many templates the batch executes
          SpecOf,    \* the spec each of them belongs to
          Group      \* those without execution artifacts (properties = None)

Node == 1..NumNodes

ASSUME NumNodesAssumption == NumNodes \in Nat \ {0}
ASSUME SpecOfAssumption == SpecOf \in [Node -> Nat]
ASSUME GroupAssumption == Group \subseteq Node

VARIABLES
    headless,  \* --headless
    pc,        \* where the main thread is
    node,      \* the node it is executing
    tmpl,      \* the thread that warms the template container
    exec,      \* the thread that warms the executor (creates the session)
    boot,      \* the thread that bootstraps the executor
    qna,       \* the thread that runs the question-and-answer loop
    cleans,    \* clean_warmed_session calls still to be made
    warmed, comp, batch, run,  \* the owners of sessions, innermost first
    live,      \* sessions that exist at the coordinator
    released,  \* how many release requests each session got
    acquired,  \* history: sessions whose id reached the main thread
    lost,      \* history: created, but the response never arrived
    missed,    \* history: a release request that the coordinator refused
    outcome,   \* what the run reports
    disk       \* whether the target directory's files were touched

threads == <<tmpl, exec, boot, qna>>
owners  == <<warmed, comp, batch, run>>
server  == <<live, released, acquired, lost, missed>>
vars    == <<headless, pc, node, threads, cleans, owners, server, outcome, disk>>

-----------------------------------------------------------------------------
LastOfSpec(n) == n = NumNodes \/ SpecOf[n + 1] # SpecOf[n]

\* The batch reaches its next template, or the end of the composition.
Advance ==
    IF LastOfSpec(node)
      THEN pc' = "layer" /\ UNCHANGED node
      ELSE pc' = "node" /\ node' = node + 1

\* An error return: the guards on the stack are dropped, innermost first.
Fail == pc' = "unwind" /\ outcome' = "error"

\* An error return of the executor: it cleans its session k times first.
FailAndClean(k) ==
    /\ warmed' = {node}
    /\ cleans' = k
    /\ pc' = "clean"
    /\ outcome' = "error"

\* A DELETE /executor/{id}; its own failure is ignored everywhere.
Release(s) ==
    /\ released' = [released EXCEPT ![s] = @ + 1]
    /\ \/ live' = live \ {s} /\ UNCHANGED missed
       \/ missed' = missed \cup {s} /\ UNCHANGED live
    /\ UNCHANGED <<acquired, lost>>

\* Guards release in the order in which the sessions were registered.
Oldest(S) == {s \in S : \A t \in S : s <= t}

-----------------------------------------------------------------------------
Init ==
    /\ headless \in BOOLEAN
    /\ pc = "resolve" /\ node = 1
    /\ tmpl = "idle" /\ exec = "idle" /\ boot = "idle" /\ qna = "idle"
    /\ cleans = 0
    /\ warmed = {} /\ comp = {} /\ batch = {} /\ run = {}
    /\ live = {} /\ acquired = {} /\ lost = {} /\ missed = {}
    /\ released = [s \in Node |-> 0]
    /\ outcome = "running"
    /\ disk = "untouched"

(***************************************************************************)
(* The batch loop and the composition loop.                                *)
(***************************************************************************)
\* batch_process fetches the spec's template and execute_template resolves
\* its dependencies; either call can fail.
ResolveSpec ==
    /\ pc = "resolve"
    /\ \/ pc' = "node" /\ UNCHANGED outcome
       \/ Fail
    /\ UNCHANGED <<headless, node, threads, cleans, owners, server, disk>>

SkipGroup ==
    /\ pc = "node" /\ node \in Group
    /\ Advance
    /\ UNCHANGED <<headless, threads, cleans, owners, server, outcome, disk>>

\* A hit allocates no session.  Its replay can fail on an answer of another
\* type, and a template id with a '/' is refused before the cache is asked.
ServeFromCache ==
    /\ pc = "node" /\ node \notin Group
    /\ \/ Advance /\ UNCHANGED outcome
       \/ Fail /\ UNCHANGED node
    /\ UNCHANGED <<headless, threads, cleans, owners, server, disk>>

StartWarm ==
    /\ pc = "node" /\ node \notin Group
    /\ pc' = "warm"
    /\ tmpl' = "running" /\ exec' = "running"
    /\ UNCHANGED <<headless, node, boot, qna, cleans, owners, server, outcome, disk>>

(***************************************************************************)
(* Phase 1: two threads warm the template and the executor.                *)
(***************************************************************************)
WarmTemplate ==
    /\ pc = "warm" /\ tmpl = "running"
    /\ tmpl' \in {"ok", "notok", "err"}
    /\ UNCHANGED <<headless, pc, node, exec, boot, qna, cleans, owners, server, outcome, disk>>

\* The coordinator handles POST /executor/{id}/warm.
CreateSession ==
    /\ pc = "warm" /\ exec = "running"
    /\ exec' = "created"
    /\ live' = live \cup {node}
    /\ UNCHANGED <<headless, pc, node, tmpl, boot, qna, cleans, owners,
                   released, acquired, lost, missed, outcome, disk>>

\* The response of warn_executor, or an error before or after the
\* coordinator created the session.
WarmExecutor ==
    /\ pc = "warm"
    /\ \/ exec = "created" /\ exec' = "ok" /\ UNCHANGED lost
       \/ exec = "created" /\ exec' = "err" /\ lost' = lost \cup {node}
       \/ exec = "running" /\ exec' = "err" /\ UNCHANGED lost
    /\ UNCHANGED <<headless, pc, node, tmpl, boot, qna, cleans, owners,
                   live, released, acquired, missed, outcome, disk>>

\* Mutant: a failed template warm returns without cleaning the session.
JoinWarmForgetsSession ==
    /\ pc = "warm" /\ tmpl # "running" /\ exec \in {"ok", "err"}
    /\ tmpl' = "idle" /\ exec' = "idle"
    /\ \/ /\ exec = "err" \/ tmpl # "ok"
          /\ Fail
          /\ acquired' = IF exec = "ok" THEN acquired \cup {node} ELSE acquired
          /\ UNCHANGED <<warmed, boot, qna>>
       \/ /\ exec = "ok" /\ tmpl = "ok"
          /\ pc' = "phase2"
          /\ warmed' = {node}
          /\ acquired' = acquired \cup {node}
          /\ boot' = "running" /\ qna' = "running"
          /\ UNCHANGED outcome
    /\ UNCHANGED <<headless, node, cleans, comp, batch, run, live, released, lost, missed, disk>>

\* Mutant: the main thread waits for the signal of a warmed template, which a
\* failing thread never gives.
JoinWarmWaitsForOk ==
    /\ pc = "warm" /\ tmpl = "ok" /\ exec \in {"ok", "err"}
    /\ tmpl' = "idle" /\ exec' = "idle"
    /\ \/ /\ exec = "err"
          /\ Fail
          /\ UNCHANGED <<warmed, acquired, boot, qna>>
       \/ /\ exec = "ok"
          /\ pc' = "phase2"
          /\ warmed' = {node}
          /\ acquired' = acquired \cup {node}
          /\ boot' = "running" /\ qna' = "running"
          /\ UNCHANGED outcome
    /\ UNCHANGED <<headless, node, cleans, comp, batch, run, live, released, lost, missed, disk>>

\* The main thread has joined both threads.  It reads the executor's result
\* first: without it there is no session id to clean.
JoinWarm ==
    /\ pc = "warm" /\ tmpl # "running" /\ exec \in {"ok", "err"}
    /\ tmpl' = "idle" /\ exec' = "idle"
    /\ \/ /\ exec = "err"
          /\ Fail
          /\ UNCHANGED <<cleans, warmed, acquired, boot, qna>>
       \/ /\ exec = "ok" /\ tmpl # "ok"
          /\ FailAndClean(1)
          /\ acquired' = acquired \cup {node}
          /\ UNCHANGED <<boot, qna>>
       \/ /\ exec = "ok" /\ tmpl = "ok"
          /\ pc' = "phase2"
          /\ warmed' = {node}
          /\ acquired' = acquired \cup {node}
          /\ boot' = "running" /\ qna' = "running"
          /\ UNCHANGED <<cleans, outcome>>
    /\ UNCHANGED <<headless, node, comp, batch, run, live, released, lost, missed, disk>>

(***************************************************************************)
(* Phases 2 and 3: bootstrap and question-and-answer, in parallel.         *)
(***************************************************************************)
Bootstrap ==
    /\ pc = "phase2" /\ boot = "running"
    /\ \/ boot' = "ok" /\ node \in live
       \/ boot' \in {"notok", "err"}
    /\ UNCHANGED <<headless, pc, node, tmpl, exec, qna, cleans, owners, server, outcome, disk>>

\* start_headless stops at the first question without an answer; start_with
\* never does, it waits for the user.
AnswerQuestions ==
    /\ pc = "phase2" /\ qna = "running"
    /\ \/ qna' \in {"complete", "err"}
       \/ headless /\ qna' = "need"
    /\ UNCHANGED <<headless, pc, node, tmpl, exec, boot, cleans, owners, server, outcome, disk>>

\* Skipping the first interactive question calls exit(0) in the Q&A thread:
\* the process is gone and no guard is dropped.
QuitPrompt ==
    /\ pc = "phase2" /\ qna = "running" /\ ~headless
    /\ pc' = "ended" /\ outcome' = "exited"
    /\ UNCHANGED <<headless, node, threads, cleans, owners, server, disk>>

\* Mutant: the sessions of the composition's earlier nodes are not handed on.
HandOverLastOnly ==
    /\ run' = batch \cup warmed
    /\ batch' = {} /\ comp' = {} /\ warmed' = {}
    /\ pc' = "boundary" /\ outcome' = "need_input"
    /\ UNCHANGED cleans

\* A pending question is not an error: every owner hands its ids on until
\* CyanRunResult carries all of them to the command boundary.
HandOverNeedInput ==
    /\ run' = batch \cup comp \cup warmed
    /\ batch' = {} /\ comp' = {} /\ warmed' = {}
    /\ pc' = "boundary" /\ outcome' = "need_input"
    /\ UNCHANGED cleans

JoinPhase2 ==
    /\ pc = "phase2" /\ boot # "running" /\ qna # "running"
    /\ boot' = "idle" /\ qna' = "idle"
    /\ \/ /\ boot # "ok" \/ qna = "err"
          /\ FailAndClean(1)
          /\ UNCHANGED <<comp, batch, run>>
       \/ boot = "ok" /\ qna = "need" /\ HandOverNeedInput
       \/ /\ boot = "ok" /\ qna = "complete"
          /\ pc' = "build"
          /\ UNCHANGED <<cleans, owners, outcome>>
    /\ UNCHANGED <<headless, node, tmpl, exec, server, disk>>

(***************************************************************************)
(* The build request, and what composition does with its archive.          *)
(***************************************************************************)
\* Mutant: a successful build cleans its session too.
BuildAndClean ==
    /\ pc = "build"
    /\ \/ /\ node \in live
          /\ comp' = comp \cup warmed /\ warmed' = {}
          /\ pc' = "absorb"
          /\ Release(node)
          /\ UNCHANGED <<cleans, outcome>>
       \/ \E k \in {1, 2} : FailAndClean(k) /\ UNCHANGED <<comp, server>>
    /\ UNCHANGED <<headless, node, threads, batch, run, disk>>

\* A request that cannot be sent is cleaned up in map_err and once more by
\* the match that ends the phase.
Build ==
    /\ pc = "build"
    /\ \/ /\ node \in live
          /\ comp' = comp \cup warmed /\ warmed' = {}
          /\ pc' = "absorb"
          /\ UNCHANGED <<cleans, outcome>>
       \/ \E k \in {1, 2} : FailAndClean(k) /\ UNCHANGED comp
    /\ UNCHANGED <<headless, node, threads, batch, run, server, disk>>

CleanWarmed ==
    /\ pc = "clean"
    /\ Release(node)
    /\ cleans' = cleans - 1
    /\ IF cleans = 1 THEN pc' = "unwind" /\ warmed' = {} ELSE UNCHANGED <<pc, warmed>>
    /\ UNCHANGED <<headless, node, threads, comp, batch, run, outcome, disk>>

\* Unpack, store in the cache (its faults are swallowed), merge the answers.
AbsorbOutput ==
    /\ pc = "absorb"
    /\ \/ Advance /\ UNCHANGED outcome
       \/ Fail /\ UNCHANGED node
    /\ UNCHANGED <<headless, threads, cleans, owners, server, disk>>

\* Mutant: the guard is not disarmed, so its drop releases the sessions that
\* were handed on.
LayerWithoutDisarm ==
    /\ pc = "layer"
    /\ batch' = batch \cup comp /\ comp' = {}
    /\ released' = [s \in Node |-> IF s \in comp THEN released[s] + 1 ELSE released[s]]
    /\ live' = live \ comp
    /\ IF node = NumNodes
         THEN pc' = "merge" /\ UNCHANGED node
         ELSE pc' = "resolve" /\ node' = node + 1
    /\ UNCHANGED <<headless, threads, cleans, warmed, run, acquired, lost, missed, outcome, disk>>

\* Layering ends execute_composition: its guard is disarmed and the ids go
\* to the guard of batch_process.
LayerComposition ==
    /\ pc = "layer"
    /\ \/ /\ batch' = batch \cup comp /\ comp' = {}
          /\ IF node = NumNodes
               THEN pc' = "merge" /\ UNCHANGED node
               ELSE pc' = "resolve" /\ node' = node + 1
          /\ UNCHANGED outcome
       \/ Fail /\ UNCHANGED <<node, comp, batch>>
    /\ UNCHANGED <<headless, threads, cleans, warmed, run, server, disk>>

(***************************************************************************)
(* The rest of batch_process and of cyan_run / update_templates.           *)
(***************************************************************************)
\* Horizontal layering, load_local_files and the three-way merge: in memory.
MergeProject ==
    /\ pc = "merge"
    /\ \/ pc' = "write" /\ UNCHANGED outcome
       \/ Fail
    /\ UNCHANGED <<headless, node, threads, cleans, owners, server, disk>>

\* cleanup_deleted_files, then write_to_disk; both can fail half way.
WriteProject ==
    /\ pc = "write"
    /\ disk' = "touched"
    /\ \/ pc' = "metadata" /\ UNCHANGED outcome
       \/ Fail
    /\ UNCHANGED <<headless, node, threads, cleans, owners, server>>

\* After the last fallible step of batch_process its guard gives up the ids,
\* and the caller puts them in a guard of its own.
SaveMetadata ==
    /\ pc = "metadata"
    /\ \/ run' = batch /\ batch' = {} /\ pc' = "save" /\ UNCHANGED outcome
       \/ Fail /\ UNCHANGED <<run, batch>>
    /\ UNCHANGED <<headless, node, threads, cleans, warmed, comp, server, disk>>

SaveState ==
    /\ pc = "save"
    /\ \/ pc' = "commands" /\ UNCHANGED outcome
       \/ Fail
    /\ UNCHANGED <<headless, node, threads, cleans, owners, server, disk>>

RunCommands ==
    /\ pc = "commands"
    /\ \/ pc' = "boundary" /\ outcome' = "done"
       \/ Fail
    /\ UNCHANGED <<headless, node, threads, cleans, owners, server, disk>>

(***************************************************************************)
(* The two ways in which owned sessions are given back.                    *)
(***************************************************************************)
\* Mutant: the callers of batch_process have no guard.
DropGuardOfBatchOnly ==
    /\ pc = "unwind"
    /\ \/ /\ \E s \in Oldest(comp) : Release(s) /\ comp' = comp \ {s}
          /\ UNCHANGED <<pc, batch>>
       \/ /\ comp = {}
          /\ \E s \in Oldest(batch) : Release(s) /\ batch' = batch \ {s}
          /\ UNCHANGED <<pc, comp>>
       \/ /\ comp = {} /\ batch = {}
          /\ pc' = "ended"
          /\ UNCHANGED <<comp, batch, server>>
    /\ UNCHANGED <<headless, node, threads, cleans, warmed, run, outcome, disk>>

\* Dropping the guards of an unwinding stack.
DropGuard ==
    /\ pc = "unwind"
    /\ \/ /\ \E s \in Oldest(comp) : Release(s) /\ comp' = comp \ {s}
          /\ UNCHANGED <<pc, batch, run>>
       \/ /\ comp = {}
          /\ \E s \in Oldest(batch) : Release(s) /\ batch' = batch \ {s}
          /\ UNCHANGED <<pc, comp, run>>
       \/ /\ comp = {} /\ batch = {}
          /\ \E s \in Oldest(run) : Release(s) /\ run' = run \ {s}
          /\ UNCHANGED <<pc, comp, batch>>
       \/ /\ comp = {} /\ batch = {} /\ run = {}
          /\ pc' = "ended"
          /\ UNCHANGED <<comp, batch, run, server>>
    /\ UNCHANGED <<headless, node, threads, cleans, warmed, outcome, disk>>

\* The command boundary cleans the ids of CyanRunResult, then reports.
FinishCommand ==
    /\ pc = "boundary"
    /\ \/ /\ \E s \in Oldest(run) : Release(s) /\ run' = run \ {s}
          /\ UNCHANGED pc
       \/ run = {} /\ pc' = "ended" /\ UNCHANGED <<run, server>>
    /\ UNCHANGED <<headless, node, threads, cleans, warmed, comp, batch, outcome, disk>>

(***************************************************************************)
(* The environment.                                                        *)
(***************************************************************************)
\* The process is killed.
Crash ==
    /\ pc # "ended"
    /\ pc' = "ended" /\ outcome' = "crashed"
    /\ UNCHANGED <<headless, node, threads, cleans, owners, server, disk>>

\* The coordinator reclaims a session by its own timeout.
Expire ==
    /\ \E s \in live : live' = live \ {s}
    /\ UNCHANGED <<headless, pc, node, threads, cleans, owners,
                   released, acquired, lost, missed, outcome, disk>>

Ended == pc = "ended" /\ UNCHANGED vars

-----------------------------------------------------------------------------
MainThread ==
    \/ ResolveSpec \/ SkipGroup \/ ServeFromCache \/ StartWarm
    \/ JoinWarm \/ JoinPhase2 \/ Build \/ CleanWarmed \/ AbsorbOutput
    \/ LayerComposition \/ MergeProject \/ WriteProject \/ SaveMetadata
    \/ SaveState \/ RunCommands \/ DropGuard \/ FinishCommand

Next ==
    \/ MainThread
    \/ WarmTemplate \/ CreateSession \/ WarmExecutor
    \/ Bootstrap \/ AnswerQuestions \/ QuitPrompt
    \/ Crash \/ Expire \/ Ended

Spec == Init /\ [][Next]_vars

\* Every request has a timeout (600 s, or reqwest's default), and the
\* headless walk asks at most 1000 times; only a user may think for ever.
Fairness ==
    /\ WF_vars(MainThread)
    /\ WF_vars(WarmTemplate)
    /\ WF_vars(CreateSession \/ WarmExecutor)
    /\ WF_vars(Bootstrap)
    /\ WF_vars(headless /\ AnswerQuestions)

FairSpec == Spec /\ Fairness

-----------------------------------------------------------------------------
Owned == warmed \cup comp \cup batch \cup run

Killed == outcome \in {"crashed", "exited"}

\* Every variable has its type.
TypeOK ==
    /\ headless \in BOOLEAN
    /\ pc \in {"resolve", "node", "warm", "phase2", "build", "clean", "absorb",
               "layer", "merge", "write", "metadata", "save", "commands",
               "boundary", "unwind", "ended"}
    /\ node \in Node
    /\ tmpl \in {"idle", "running", "ok", "notok", "err"}
    /\ exec \in {"idle", "running", "created", "ok", "err"}
    /\ boot \in {"idle", "running", "ok", "notok", "err"}
    /\ qna \in {"idle", "running", "complete", "need", "err"}
    /\ cleans \in 0..2
    /\ warmed \subseteq {node}
    /\ comp \in SUBSET Node /\ batch \in SUBSET Node /\ run \in SUBSET Node
    /\ live \in SUBSET Node /\ acquired \in SUBSET Node
    /\ lost \in SUBSET Node /\ missed \in SUBSET Node
    /\ released \in [Node -> 0..2]
    /\ outcome \in {"running", "done", "need_input", "error", "crashed", "exited"}
    /\ disk \in {"untouched", "touched"}

\* No session is owned by two stack frames: each hand-over (push, disarm,
\* extend, take) moves the ids and never copies them.
SingleOwner ==
    /\ warmed \cap (comp \cup batch \cup run) = {}
    /\ comp \cap (batch \cup run) = {}
    /\ batch \cap run = {}

\* A session some frame still owns for use has not been released behind its
\* back: neither one of an earlier node nor the one being built with.
NoReleaseWhileOwned ==
    /\ \A s \in comp \cup batch \cup run : released[s] = 0
    /\ pc \in {"phase2", "build"} => released[node] = 0

\* A run that ends by itself, whatever failed on the way, has asked for the
\* release of every session whose id it got to know, so that what is left at
\* the coordinator is only what it could not know of or was refused.
NoLeak ==
    pc = "ended" /\ ~Killed =>
        /\ \A s \in acquired : released[s] > 0
        /\ live \subseteq lost \cup missed

\* A run that reports done or need_input has released each of its sessions
\* exactly once, and nothing else.
ExactlyOnceOnSuccess ==
    pc = "ended" /\ outcome \in {"done", "need_input"} =>
        \A s \in Node : released[s] = IF s \in acquired THEN 1 ELSE 0

\* Two release requests for one session happen only for the node whose build
\* request failed; a session that reached a guard never gets a second one.
SecondReleaseOnlyAtFailure ==
    \A s \in Node : released[s] > 1 => s = node /\ outcome \in {"error", "crashed"}

\* A run that stops on a question has not touched the project's files.
NeedInputLeavesFiles == outcome = "need_input" => disk = "untouched"

\* The inductive invariant behind the properties above.
BeforeCommit == {"resolve", "node", "warm", "phase2", "build", "absorb", "layer", "merge", "write"}
AfterTake == {"save", "commands", "boundary"}

\* Who can own sessions where.
OwnersByPlace ==
    /\ ~Killed =>
         /\ warmed = IF pc \in {"phase2", "build", "clean"} THEN {node} ELSE {}
         /\ pc \in {"resolve", "merge", "write", "metadata"} \cup AfterTake => comp = {}
         /\ pc \in AfterTake => batch = {}
         /\ pc \in BeforeCommit \cup {"clean", "metadata"} => run = {}
         /\ pc = "ended" => Owned = {}
    /\ cleans > 0 => pc \in {"clean", "ended"}
    /\ pc = "clean" => cleans > 0

\* A session's release count tells who is responsible for it.
CountsByOwner ==
    /\ Owned \subseteq acquired
    /\ \A s \in Node : s \notin acquired => released[s] = 0
    /\ \A s \in acquired \ Owned : released[s] > 0
    /\ pc = "clean" => released[node] + cleans <= 2

\* The session of the current node is new, and what exists at the coordinator
\* is owned, unknown to the run, refused, or being created.
SessionsSoFar ==
    /\ \A s \in acquired : s <= node
    /\ pc \in {"resolve", "node", "warm"} => node \notin acquired
    /\ exec \in {"created", "ok"} => pc = "warm" \/ Killed
    /\ live \subseteq Owned \cup lost \cup missed
                     \cup (IF exec \in {"created", "ok"} THEN {node} ELSE {})

OutcomeByPlace ==
    /\ pc \in BeforeCommit \cup {"metadata", "save", "commands"} => outcome = "running"
    /\ pc \in {"clean", "unwind"} => outcome = "error"
    /\ pc = "boundary" => outcome \in {"done", "need_input"}
    /\ pc = "ended" => outcome # "running"
    /\ Killed => pc = "ended"
    /\ pc \in BeforeCommit => disk = "untouched"

IInv ==
    /\ TypeOK
    /\ SingleOwner
    /\ NoReleaseWhileOwned
    /\ SecondReleaseOnlyAtFailure
    /\ NeedInputLeavesFiles
    /\ OwnersByPlace
    /\ CountsByOwner
    /\ SessionsSoFar
    /\ OutcomeByPlace

\* Under the guards this is a lease: see SessionLease.
LeaseOf == [s \in Node |-> CASE s \in Owned -> "held"
                             [] s \in acquired \ Owned -> "returned"
                             [] OTHER -> "none"]
StatusOf == CASE pc # "ended" -> "running"
              [] pc = "ended" /\ Killed -> "killed"
              [] OTHER -> "finished"
Lease == INSTANCE SessionLease WITH Session <- Node, lease <- LeaseOf, status <- StatusOf
LeaseSpec == Lease!Spec

\* A headless run ends: no thread waits for one that waits for it.
HeadlessRunEnds == headless => <>(pc = "ended")

=============================================================================
