----------------------------- MODULE OutputCache ----------------------------
(***************************************************************************)
(* The output cache on disk, CacheStore, as several processes use it at    *)
(* once: runs that look a key up and, on a miss, execute the template and  *)
(* store what it produced, and `cyanprint cache clear`.  Nothing locks the *)
(* directory: every step below is one file operation, a process may be     *)
(* killed between any two, and any write may fail.                         *)
(*                                                                         *)
(* A file is named after a key, or is a digest-named file of somebody else *)
(* in a directory that the cache was pointed at.  Its content is what a    *)
(* process stored, or one of the bad ones: `garbled` fails the checksum,   *)
(* `poisoned` passes it but its archive does not unpack, `foreign` is not  *)
(* an entry at all.  Temporary files, which no operation looks at, are not *)
(* in the model.  CacheContract says what its users may rely on.           *)
(***************************************************************************)
EXTENDS Naturals, FiniteSets

CONSTANTS Process, Key, Foreign,   \* names of the cache's and of other files
          MaxCrashes               \* bound: processes killed

Name == Key \cup Foreign
Absent == "absent"
Bad == {"garbled", "poisoned", "foreign"}
Earlier == "earlier"   \* stored by a run that is over
Stored == Process \cup {Earlier}
Content == Stored \cup Bad \cup {Absent}

ASSUME NameAssumption == Key \cap Foreign = {} /\ MaxCrashes \in Nat
ASSUME ContentAssumption == Process \cap (Bad \cup {Absent, Earlier}) = {}

VARIABLES
    dir,       \* whether the cache directory exists
    marker,    \* CACHEDIR.TAG: absent, torn, ours or others
    files,     \* the content of each digest-named file
    step,
    op,        \* what a process does: clear, or use with a key
    found,     \* what a run's lookup read
    outcome,    \* hit, executed, cleared, skipped (also reported as success), error
    todo,      \* the names a clear has still to remove
    before,    \* the files when a clear began
    crashes

disk == <<dir, marker, files>>
storeVars == <<disk, step, op, found, outcome, todo, before, crashes>>

NoFiles == [n \in Name |-> Absent]
Clear == [kind |-> "clear", key |-> CHOOSE k \in Key : TRUE]
Use(k) == [kind |-> "use", key |-> k]

-----------------------------------------------------------------------------
(***************************************************************************)
(* The directory may be new, the cache's, or one that is used for          *)
(* something else, with or without a tag of its own.                       *)
(***************************************************************************)
Directories ==
    {[d |-> FALSE, m |-> "absent", f |-> NoFiles]}
    \cup {[d |-> TRUE, m |-> "ours", f |-> f] :
            f \in [Key -> {Absent, Earlier, "garbled", "poisoned"}]}
    \cup {[d |-> TRUE, m |-> m, f |-> NoFiles] : m \in {"absent", "others"}}

StoreInit ==
    /\ \E x \in Directories :
         /\ dir = x.d /\ marker = x.m
         /\ files = [n \in Name |->
                       IF n \in Key THEN x.f[n]
                       ELSE IF x.d /\ x.m # "ours" THEN "foreign" ELSE Absent]
    /\ step = [p \in Process |-> "start"]
    /\ op \in [Process -> {Clear} \cup {Use(k) : k \in Key}]
    /\ found = [p \in Process |-> Absent]
    /\ outcome = [p \in Process |-> "none"]
    /\ todo = [p \in Process |-> {}]
    /\ before = [p \in Process |-> NoFiles]
    /\ crashes = 0

\* Process p, at step l, goes on to step m.
Step(p, l, m) == step[p] = l /\ step' = [step EXCEPT ![p] = m]

\* Process p is done, with outcome r.
Ends(p, l, r) == Step(p, l, "done") /\ outcome' = [outcome EXCEPT ![p] = r]

KeyOf(p) == op[p].key

-----------------------------------------------------------------------------
(***************************************************************************)
(* A run.                                                                  *)
(***************************************************************************)
\* Mutant: the checksum is not compared.
DecodeUnchecked(c) == IF c \in {Absent, "foreign"} THEN Absent ELSE c

\* CacheStore::decode: what is no entry reads as a miss.
Decode(c) == IF c \in Stored \cup {"poisoned"} THEN c ELSE Absent

Lookup(p) ==
    /\ op[p].kind = "use"
    /\ Step(p, "start", "looked_up")
    /\ found' = [found EXCEPT ![p] = Decode(files[KeyOf(p)])]
    /\ UNCHANGED <<disk, op, outcome, todo, before, crashes>>

\* The archive unpacks and is served.
Serve(p) ==
    /\ found[p] \notin {Absent, "poisoned"}
    /\ Ends(p, "looked_up", "hit")
    /\ UNCHANGED <<disk, op, found, todo, before, crashes>>

Evict(p) == files' = [files EXCEPT ![KeyOf(p)] = Absent]

\* The archive does not unpack: the entry is removed, whichever it is by now,
\* unless that fails.
EvictPoisoned(p) ==
    /\ found[p] = "poisoned"
    /\ Step(p, "looked_up", "execute")
    /\ Evict(p) \/ UNCHANGED files
    /\ UNCHANGED <<dir, marker, op, found, outcome, todo, before, crashes>>

Miss(p) ==
    /\ found[p] = Absent
    /\ Step(p, "looked_up", "execute")
    /\ UNCHANGED <<disk, op, found, outcome, todo, before, crashes>>

\* The template is executed, its archive unpacks; put begins with ensure_dir.
EnsureDir(p) ==
    /\ Step(p, "execute", "ensure_marker")
    /\ dir' = TRUE
    /\ UNCHANGED <<marker, files, op, found, outcome, todo, before, crashes>>

\* ensure_marker: fs::write creates the file, then fills it.
EnsureMarker(p) ==
    /\ Step(p, "ensure_marker", IF marker = "absent" THEN "create_marker" ELSE "write_entry")
    /\ UNCHANGED <<disk, op, found, outcome, todo, before, crashes>>

CreateMarker(p) ==
    /\ Step(p, "create_marker", "write_marker")
    /\ marker' = "torn"
    /\ UNCHANGED <<dir, files, op, found, outcome, todo, before, crashes>>

WriteMarker(p) ==
    /\ Step(p, "write_marker", "write_entry")
    /\ marker' = "ours"
    /\ UNCHANGED <<dir, files, op, found, outcome, todo, before, crashes>>

\* The temporary file, written and synced, is renamed.
Persist(p) == files' = [files EXCEPT ![KeyOf(p)] = p]

WriteEntry(p) ==
    /\ Ends(p, "write_entry", "executed")
    /\ Persist(p)
    /\ UNCHANGED <<dir, marker, op, found, todo, before, crashes>>

\* put swallows a failure of any of its steps.
PutFails(p) ==
    /\ step[p] \in {"execute", "ensure_marker", "create_marker", "write_marker", "write_entry"}
    /\ Ends(p, step[p], "executed")
    /\ UNCHANGED <<disk, op, found, todo, before, crashes>>

-----------------------------------------------------------------------------
(***************************************************************************)
(* cache clear.                                                            *)
(***************************************************************************)
IsOwned == marker = "ours"

ClearBegins(p) ==
    /\ op[p].kind = "clear"
    /\ before' = [before EXCEPT ![p] = files]
    /\ IF dir /\ IsOwned
         THEN /\ Step(p, "start", "clear")
              /\ todo' = [todo EXCEPT ![p] = {n \in Name : files[n] # Absent}]
              /\ UNCHANGED outcome
         ELSE /\ Ends(p, "start", "skipped")
              /\ UNCHANGED todo
    /\ UNCHANGED <<disk, op, found, crashes>>

\* Mutant: a failure ends the clear, but not as an error.
RemoveFailsEnds(p) == Ends(p, "clear", "cleared")

RemoveFails(p) == Ends(p, "clear", "error")

\* A file that is gone before is_file is skipped; one that goes between is_file
\* and remove_file fails the command, as any other failure of remove_file does.
ClearNext(p) ==
    /\ op[p].kind = "clear"
    /\ \E n \in todo[p] :
          /\ todo' = [todo EXCEPT ![p] = @ \ {n}]
          /\ \/ /\ files[n] = Absent
                /\ step[p] = "clear" /\ UNCHANGED <<step, outcome, files>>
             \/ RemoveFails(p) /\ UNCHANGED files
             \/ /\ files[n] # Absent
                /\ step[p] = "clear" /\ UNCHANGED <<step, outcome>>
                /\ files' = [files EXCEPT ![n] = Absent]
    /\ UNCHANGED <<dir, marker, op, found, before, crashes>>

ClearEnds(p) ==
    /\ todo[p] = {}
    /\ Ends(p, "clear", "cleared")
    /\ UNCHANGED <<disk, op, found, todo, before, crashes>>

-----------------------------------------------------------------------------
Crash(p) ==
    /\ crashes < MaxCrashes
    /\ step[p] \notin {"start", "done"}
    /\ step' = [step EXCEPT ![p] = "crashed"]
    /\ crashes' = crashes + 1
    /\ UNCHANGED <<disk, op, found, outcome, todo, before>>

StoreOver == (\A p \in Process : step[p] \in {"done", "crashed"}) /\ UNCHANGED storeVars

RunStep(p) ==
    \/ Lookup(p) \/ Serve(p) \/ EvictPoisoned(p) \/ Miss(p) \/ EnsureDir(p)
    \/ EnsureMarker(p) \/ CreateMarker(p) \/ WriteMarker(p) \/ WriteEntry(p) \/ PutFails(p)

ClearStep(p) == ClearBegins(p) \/ ClearNext(p) \/ ClearEnds(p)

StoreNext == (\E p \in Process : RunStep(p) \/ ClearStep(p) \/ Crash(p)) \/ StoreOver

StoreSpec == StoreInit /\ [][StoreNext]_storeVars

-----------------------------------------------------------------------------
\* Every variable has its type.
TypeOK ==
    /\ dir \in BOOLEAN /\ marker \in {"absent", "torn", "ours", "others"}
    /\ files \in [Name -> Content]
    /\ step \in [Process -> {"start", "looked_up", "execute", "ensure_marker", "create_marker",
                           "write_marker", "write_entry", "clear", "done", "crashed"}]
    /\ op \in [Process -> {Clear} \cup {Use(k) : k \in Key}]
    /\ found \in [Process -> Stored \cup {"poisoned", Absent}]
    /\ outcome \in [Process -> {"none", "hit", "executed", "cleared", "skipped", "error"}]
    /\ todo \in [Process -> SUBSET Name]
    /\ before \in [Process -> [Name -> Content]]
    /\ crashes \in 0..MaxCrashes

\* A run is served only what some run stored whole under the same key, whoever
\* else writes, removes or is killed meanwhile.
ServedWasStored ==
    \A p \in Process : outcome[p] = "hit" =>
        \/ found[p] = Earlier
        \/ found[p] \in Process /\ op[found[p]] = op[p] /\ step[found[p]] = "done"

\* The store keeps its contract, with files as entries as long as they are whole:
\* removing them late, twice, or in place of others is never more than a drop.
Whole(c) == IF c \in Stored THEN c ELSE Absent

StateOf(p) ==
    CASE step[p] = "start" -> "new"
      [] step[p] = "clear" -> "clearing"
      [] step[p] = "crashed" -> "killed"
      [] step[p] = "done" ->
            CASE outcome[p] = "hit" -> "served"
              [] outcome[p] = "executed" -> "made"
              [] outcome[p] = "cleared" -> "cleared"
              [] OTHER -> "refused"
      [] OTHER -> "answered"

AskedBy(p) == IF op[p].kind = "use" /\ step[p] # "start" THEN KeyOf(p) ELSE Absent

DueFor(p) == [k \in Key |-> IF outcome[p] = "skipped" THEN Absent ELSE Whole(before[p][k])]

Contract ==
    INSTANCE CacheContract WITH
        Client <- Process, Nothing <- Absent,
        entries <- [k \in Key |-> Whole(files[k])],
        state <- [p \in Process |-> StateOf(p)],
        asked <- [p \in Process |-> AskedBy(p)],
        answer <- [p \in Process |-> Whole(found[p])],
        due <- [p \in Process |-> DueFor(p)]
CacheSpec == Contract!Spec

\* A directory that is not the cache's own is never cleared, even if it has
\* files that are named like entries.
ForeignFilesSurvive ==
    \A p \in Process, n \in Foreign :
        before[p][n] = "foreign" => files[n] = "foreign"

\* Where the promise does hold: a directory that has somebody else's tag keeps it,
\* and its files, whoever uses or clears it.
TaggedFilesSurvive ==
    [][marker = "others" => marker' = "others" /\ \A n \in Foreign : files'[n] = files[n]]_storeVars

\* A clear that went through the directory and met no error has removed every
\* entry that was there when it began.
Gone(p) == \A k \in Key : before[p][k] # Absent => files[k] # before[p][k]

ClearRemovesAll == \A p \in Process : outcome[p] = "cleared" => Gone(p)

\* When `cache clear` reports success in a directory that nobody else tagged, no
\* entry that was there when it began is there any more.
SuccessMeansCleared ==
    marker # "others" =>
        \A p \in Process : outcome[p] \in {"cleared", "skipped"} => Gone(p)
=============================================================================
