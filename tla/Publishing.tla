----------------------------- MODULE Publishing -----------------------------
(***************************************************************************)
(* "build" and "push" (src/cyanprint/src/main.rs): images are built with   *)
(* docker buildx, which puts each in the image registry under its name and *)
(* a tag, and a version that names its images is posted to the template    *)
(* registry.  Commands run at the same time, on one project: the names of  *)
(* the images come from its cyan.yaml.                                     *)
(***************************************************************************)
EXTENDS Processes

CONSTANT Tag   \* tags of images

VARIABLES
    cmd,      \* the command of each process
    config,   \* the images cyan.yaml configures
    phase,    \* where each process is
    todo,     \* the images it has yet to build
    failed,   \* "build" has counted a failure
    stored,   \* whose build is stored for each image and tag
    versions  \* the versions that have been published

publishVars == <<cmd, config, phase, todo, failed, stored, versions>>

Image == {"template", "blob", "processor", "plugin", "resolver"}

BuildOrder == [template |-> 1, blob |-> 2, processor |-> 3, plugin |-> 4, resolver |-> 5]
IsNext(i, images) == i \in images /\ \A j \in images : BuildOrder[i] <= BuildOrder[j]

Command ==
    [what : {"build", "push", "none"}, kind : Image \cup {"group"}, build : BOOLEAN,
     images : BOOLEAN, dry : BOOLEAN, tag : Tag]

\* The images of what is pushed.
ImagesOf(kind) ==
    CASE kind = "template" -> {"template", "blob"}
      [] kind = "group"    -> {}
      [] OTHER             -> {kind}

PublishInit ==
    /\ phase = [p \in Proc |-> IF cmd[p].what = "none" THEN "ok" ELSE "args"]
    /\ todo = [p \in Proc |-> {}]
    /\ failed = [p \in Proc |-> FALSE]
    /\ stored = [x \in Image \X Tag |-> Earlier]
    /\ versions = {}

-----------------------------------------------------------------------------
Phase(p, to) == phase' = [phase EXCEPT ![p] = to]
PublishEnded(p) == phase[p] \in {"ok", "error"}

\* The images of the command that its version names.
Named(c) == {<<i, c.tag>> : i \in ImagesOf(c.kind)}

\* After the images: a dry run ends here.
AfterImages(p) == IF cmd[p].dry THEN "ok" ELSE "config"

\* --build and names of images exclude one another, and one is needed; a group
\* has no images, and takes no notice of --dry-run.
CheckArguments(p) ==
    /\ phase[p] = "args"
    /\ LET c == cmd[p] IN
         Phase(p, IF c.what = "build" THEN "prepare"
                  ELSE IF c.kind = "group" THEN "config"
                  ELSE IF c.build = c.images THEN "error"
                  ELSE IF c.build THEN "prepare" ELSE AfterImages(p))
    /\ UNCHANGED <<cmd, config, todo, failed, stored, versions>> /\ NoFault

\* cyan.yaml has a build section with an image in it.
HasImages == config # {}

\* The folder, the checks of Docker, and the build section.
Prepare(p) ==
    /\ phase[p] = "prepare"
    /\ IF ~HasImages
         THEN Phase(p, "error") /\ UNCHANGED todo
         ELSE /\ Phase(p, "images")
              /\ todo' = [todo EXCEPT ![p] =
                    IF cmd[p].what = "build" THEN config ELSE ImagesOf(cmd[p].kind)]
    /\ UNCHANGED <<cmd, config, failed, stored, versions>> /\ NoFault

\* buildx builds the image and pushes it; a dry run only says so.
BuildImage(p) ==
    /\ phase[p] = "images"
    /\ \E i \in config :
          /\ IsNext(i, todo[p])
          /\ todo' = [todo EXCEPT ![p] = @ \ {i}]
          /\ stored' = IF cmd[p].dry THEN stored ELSE [stored EXCEPT ![<<i, cmd[p].tag>>] = p]
    /\ UNCHANGED <<cmd, config, phase, failed, versions>> /\ NoFault

\* What is pushed needs an image that is not configured.
NotConfigured(p) ==
    /\ phase[p] = "images"
    /\ \E i \in todo[p] \ config : IsNext(i, todo[p])
    /\ Phase(p, "error")
    /\ UNCHANGED <<cmd, config, todo, failed, stored, versions>> /\ NoFault

\* Mutant: push goes on with the next image as "build" does.
CountFailure(p) ==
    /\ phase[p] = "images" /\ ~cmd[p].dry
    /\ failed' = [failed EXCEPT ![p] = TRUE]
    /\ \E i \in config : IsNext(i, todo[p]) /\ todo' = [todo EXCEPT ![p] = @ \ {i}]
    /\ Fault /\ UNCHANGED <<cmd, config, phase, stored, versions>>

\* A build fails: "build" counts it and goes on, push stops.
ImageFails(p) ==
    /\ phase[p] = "images" /\ ~cmd[p].dry /\ todo[p] # {}
    /\ IF cmd[p].what = "build"
         THEN /\ failed' = [failed EXCEPT ![p] = TRUE]
              /\ \E i \in config : IsNext(i, todo[p]) /\ todo' = [todo EXCEPT ![p] = @ \ {i}]
              /\ UNCHANGED phase
         ELSE Phase(p, "error") /\ UNCHANGED <<failed, todo>>
    /\ Fault /\ UNCHANGED <<cmd, config, stored, versions>>

ImagesDone(p) ==
    /\ phase[p] = "images" /\ todo[p] = {}
    /\ Phase(p, IF cmd[p].what = "push" THEN AfterImages(p)
                ELSE IF failed[p] THEN "error" ELSE "ok")
    /\ UNCHANGED <<cmd, config, todo, failed, stored, versions>> /\ NoFault

\* cyan.yaml is read again, with the readme it names; only now is it seen
\* whether the references in it can be parsed.
ReadForPush(p) ==
    /\ phase[p] = "config"
    /\ Phase(p, "post")
    /\ UNCHANGED <<cmd, config, todo, failed, stored, versions>> /\ NoFault

\* The answer of the registry arrives and can be read, or not.
Answered(p) ==
    \/ Phase(p, "ok") /\ NoFault
    \/ Phase(p, "error") /\ Fault

\* The registry has the version, whatever becomes of its answer.
Post(p) ==
    /\ phase[p] = "post"
    /\ versions' = versions \cup {[by |-> p, images |-> Named(cmd[p])]}
    /\ Answered(p)
    /\ UNCHANGED <<cmd, config, todo, failed, stored>>

\* A check, a file or the registry refuses, or the process is killed.
PublishFails(p) ==
    /\ ~PublishEnded(p)
    /\ Phase(p, "error")
    /\ Fault /\ UNCHANGED <<cmd, config, todo, failed, stored, versions>>

PublishStep(p) ==
    \/ CheckArguments(p) \/ Prepare(p)
    \/ BuildImage(p) \/ NotConfigured(p) \/ ImagesDone(p)
    \/ ReadForPush(p) \/ Post(p)

PublishNext == \E p \in Proc : PublishStep(p) \/ ImageFails(p) \/ PublishFails(p)

-----------------------------------------------------------------------------
PublishTypeOK ==
    /\ cmd \in [Proc -> Command] /\ config \subseteq Image
    /\ phase \in [Proc -> {"args", "prepare", "images", "config", "post", "ok", "error"}]
    /\ todo \in [Proc -> SUBSET Image] /\ failed \in [Proc -> BOOLEAN]
    /\ stored \in [Image \X Tag -> Proc \cup {Earlier}]
    /\ versions \subseteq [by : Proc, images : SUBSET (Image \X Tag)]

\* Whose build of an image a command may find in place of its own.
SameTag(p) == {q \in Proc : cmd[q].tag = cmd[p].tag}

\* A version that "push --build" publishes has every image it names: this
\* command has built it, unless another one has since put its own under the
\* same tag; and "build" reports success for nothing less.
VersionsAreWhole ==
    /\ \A v \in versions :
          cmd[v.by].build => \A x \in v.images : stored[x] \in SameTag(v.by)
    /\ \A p \in Proc :
          cmd[p].what = "build" /\ ~cmd[p].dry /\ phase[p] = "ok" =>
            \A i \in config : stored[<<i, cmd[p].tag>>] \in SameTag(p)

\* A dry run stores no image, and publishes no version; but see
\* NoVersionInDryRun for a group.
DryRunTouchesNothing ==
    /\ \A x \in DOMAIN stored : stored[x] # Earlier => ~cmd[stored[x]].dry
    /\ \A v \in versions : cmd[v.by].dry => cmd[v.by].kind = "group"

\* "--dry-run: Show commands without executing".
NoVersionInDryRun == \A v \in versions : ~cmd[v.by].dry

\* The images of a version come from one build.
ImagesOfOneBuild ==
    \A v \in versions : cmd[v.by].build => \A x \in v.images : stored[x] = v.by
=============================================================================
