------------------------------ MODULE BrainSync ------------------------------
(***************************************************************************)
(* A team's shared brain: on every machine a directory of markdown files,  *)
(* in a bucket one immutable object per version of a file and a manifest   *)
(* that says which versions are current.  `sync' merges three ways (what   *)
(* was last agreed, the files, the manifest) and swaps the manifest if     *)
(* nobody else has, up to five times; `pull_if_stale', which every lookup  *)
(* runs first, applies the half of the merge that touches no local edit.   *)
(*                                                                         *)
(* Contents are numbers, a person's edit being the next one; a file that   *)
(* exists in the beginning is 0.  A hash is its content.  A directory, the *)
(* manifest's entries and the base are functions from paths to contents,   *)
(* a path that is absent not being in the domain.  The manifest's          *)
(* generation stands for its ETag, 0 for no manifest.                      *)
(***************************************************************************)
EXTENDS Naturals, Sequences

CONSTANTS
    Machines,       \* brain directories, each with a user of its own
    Entries,        \* the files people write
    Procs, At,      \* processes that sync or look up, and on which machine
    Attempts,       \* MAX_ATTEMPTS
    MaxEvents,      \* bound on what people write and delete and on faults, together
    MaxFaults,      \* bound on failed calls and killed processes
    Faults,         \* subset of {"fail", "kill", "torn"}
    Calls,          \* process -> what it runs: "sync", "index" or "lookup"
    SameSecond,     \* may a retry fall into the second of the attempt before?
    Races           \* may a person write a file that a sync is about to replace?

ASSUME ProcsAssumption == At \in [Procs -> Machines]
ASSUME BoundsAssumption == /\ Attempts \in Nat \ {0}
                           /\ {MaxEvents, MaxFaults} \subseteq Nat
                           /\ {SameSecond, Races} \subseteq BOOLEAN
                           /\ Faults \subseteq {"fail", "kill", "torn"}
                           /\ Calls \in [Procs -> SUBSET {"sync", "index", "lookup"}]

VARIABLES
    remote,     \* manifest.json: its generation and entries
    objects,    \* the entry objects in the bucket: <<path, content>>
    disk,       \* machine -> its .md files
    state,      \* machine -> .sync-state.json: generation, base, whole or torn
    stale,      \* machine -> has a sync changed files since the last rebuild?
    clock,      \* the second in which the last conflict copy was made
    run,        \* process -> the call it is in
    edits,      \* how often people wrote or deleted, faults so far
    owed,       \* ghost: contents written, and by nobody replaced or deleted since
    gone        \* ghost: contents that were in the manifest and are not any more

vars == <<remote, objects, disk, state, stale, clock, run, edits, owed, gone>>

-----------------------------------------------------------------------------
(* Files *)

Empty == [p \in {} |-> 0]
With(f, p, v) == [q \in DOMAIN f \union {p} |-> IF q = p THEN v ELSE f[q]]
Without(f, P) == [q \in DOMAIN f \ P |-> f[q]]
Contents(f) == {f[p] : p \in DOMAIN f}

\* A path, and that of the copy which keeps machine m's side of a conflict;
\* `second' is the one in the copy's name.
Path(e) == <<e>>
CopyOf(p, m, second) == p \o <<m, second>>

\* plan_sync: what each path needs, by base b, files l and manifest r.
\* `Have' is a path's content as a set: empty if it is absent.
Have(f, p) == IF p \in DOMAIN f THEN {f[p]} ELSE {}

\* Mutant of PlanSync: a deletion there beats an edit here.
PlanDeleteWins(b, l, r) ==
    LET paths == DOMAIN b \union DOMAIN l \union DOMAIN r
        differ == {p \in paths : Have(l, p) # Have(r, p)}
        untouched == {p \in differ : Have(l, p) = Have(b, p)}
        ours == {p \in differ \ untouched : Have(r, p) = Have(b, p)}
        both == differ \ (untouched \union ours)
    IN  [pulls        |-> untouched \intersect DOMAIN r,
         delete_local |-> (untouched \union both) \ DOMAIN r,
         pushes       |-> ours \intersect DOMAIN l,
         delete_remote |-> ours \ DOMAIN l,
         resurrect_pulls |-> both \ DOMAIN l,
         conflicts    |-> both \intersect DOMAIN l \intersect DOMAIN r,
         agreed       |-> paths \ differ]

PlanSync(b, l, r) ==
    LET paths == DOMAIN b \union DOMAIN l \union DOMAIN r
        differ == {p \in paths : Have(l, p) # Have(r, p)}
        untouched == {p \in differ : Have(l, p) = Have(b, p)}
        ours == {p \in differ \ untouched : Have(r, p) = Have(b, p)}
        both == differ \ (untouched \union ours)
    IN  [pulls        |-> untouched \intersect DOMAIN r,
         delete_local |-> untouched \ DOMAIN r,
         pushes       |-> (ours \intersect DOMAIN l) \union (both \ DOMAIN r),
         delete_remote |-> ours \ DOMAIN l,
         resurrect_pulls |-> both \ DOMAIN l,
         conflicts    |-> both \intersect DOMAIN l \intersect DOMAIN r,
         agreed       |-> paths \ differ]

-----------------------------------------------------------------------------
(* A call's progress: what it read, and what of its plan is left to do.    *)
(* `second' is the one whose conflict copies it makes, 0 before the first. *)

Idle == [pc |-> "idle", call |-> "lookup", attempt |-> 0, gen |-> 0, man |-> Empty,
         base |-> Empty, down |-> {}, del |-> {}, conf |-> {}, push |-> {}, drop |-> {},
         writes |-> FALSE, changed |-> FALSE, second |-> 0]

Init ==
    /\ \E shared \in SUBSET Entries :
         LET tree == [p \in {Path(e) : e \in shared} |-> 0]
             gen == IF shared = {} THEN 0 ELSE 1
         IN  /\ remote = [gen |-> gen, entries |-> tree]
             /\ objects = {<<p, 0>> : p \in DOMAIN tree}
             /\ disk = [m \in Machines |-> tree]
             /\ state = [m \in Machines |-> [gen |-> gen, base |-> tree, whole |-> TRUE]]
    /\ stale = [m \in Machines |-> FALSE]
    /\ clock = 0
    /\ run = [q \in Procs |-> Idle]
    /\ edits = [made |-> 0, faults |-> 0]
    /\ owed = Contents(remote.entries) /\ gone = {}

On(q) == disk[At[q]]
Running(q, pc) == run[q].pc = pc
Syncs(q) == run[q].call # "lookup"
Downloaded(q) == run[q].down = {} /\ run[q].del = {}
Applied(q) == Downloaded(q) /\ run[q].conf = {}

\* What an error does: `index' prints it and rebuilds all the same, the other
\* calls return it.
Bail(q) == run' = [run EXCEPT ![q] = IF @.call = "index" THEN [Idle EXCEPT !.pc = "rebuild"]
                                                         ELSE Idle]
SetDisk(q, files) == /\ disk' = [disk EXCEPT ![At[q]] = files]
                     /\ stale' = [stale EXCEPT ![At[q]] = TRUE]

Start(q, call) ==
    /\ Running(q, "idle") /\ call \in Calls[q]
    /\ run' = [run EXCEPT ![q].call = call, ![q].pc = IF call = "lookup" THEN "load" ELSE "get"]
    /\ UNCHANGED <<remote, objects, disk, state, stale, edits, owed, gone, clock>>

\* A lookup reads its state first: the ETag makes the GET conditional.
LoadState(q) ==
    /\ Running(q, "load")
    /\ LET s == state[At[q]] IN
         IF s.whole THEN run' = [run EXCEPT ![q].pc = "get", ![q].gen = s.gen, ![q].base = s.base]
                    ELSE Bail(q)
    /\ UNCHANGED <<remote, objects, disk, state, stale, edits, owed, gone, clock>>

\* Mutant of GetManifest: a sync stops as well when the manifest is the one it knows.
GetIfModified(q) ==
    /\ Running(q, "get")
    /\ LET known == IF Syncs(q) THEN state[At[q]].gen ELSE run[q].gen IN
         run' = [run EXCEPT ![q] = IF known = remote.gen /\ remote.gen # 0 THEN Idle
                                   ELSE [@ EXCEPT !.pc = "plan", !.gen = remote.gen,
                                                  !.man = remote.entries]]
    /\ UNCHANGED <<remote, objects, disk, state, stale, edits, owed, gone, clock>>

\* NotModified: the lookup stamps last_check and writes back what it loaded.
GetManifest(q) ==
    /\ Running(q, "get")
    /\ run' = [run EXCEPT ![q].gen = remote.gen, ![q].man = remote.entries,
                          ![q].pc = IF ~Syncs(q) /\ run[q].gen = remote.gen /\ remote.gen # 0
                                    THEN "unmodified" ELSE "plan"]
    /\ UNCHANGED <<remote, objects, disk, state, stale, edits, owed, gone, clock>>

\* scan_local and plan_sync.  A sync loads its state only here.
PlanOfSync(q) ==
    /\ Running(q, "plan") /\ Syncs(q)
    /\ LET plan == PlanSync(state[At[q]].base, On(q), run[q].man) IN
         IF state[At[q]].whole
         THEN run' = [run EXCEPT ![q].pc = "apply",
                                 ![q].down = plan.pulls \union plan.resurrect_pulls,
                                 ![q].del = plan.delete_local, ![q].conf = plan.conflicts,
                                 ![q].push = plan.pushes, ![q].drop = plan.delete_remote,
                                 ![q].writes = plan.pushes \union plan.delete_remote # {}]
         ELSE Bail(q)
    /\ UNCHANGED <<remote, objects, disk, state, stale, edits, owed, gone, clock>>

\* A lookup takes of its plan what touches no edit, and notes in the base that it
\* will save what already agrees.
PlanOfLookup(q) ==
    /\ Running(q, "plan") /\ ~Syncs(q)
    /\ LET plan == PlanSync(run[q].base, On(q), run[q].man)
           here == plan.agreed \intersect DOMAIN On(q)
           base == [p \in (DOMAIN run[q].base \ plan.agreed) \union here
                      |-> IF p \in here THEN On(q)[p] ELSE run[q].base[p]]
       IN  run' = [run EXCEPT ![q].pc = "apply", ![q].base = base,
                              ![q].down = plan.pulls, ![q].del = plan.delete_local]
    /\ UNCHANGED <<remote, objects, disk, state, stale, edits, owed, gone, clock>>

\* download_entry: the object, moved over the file whatever the file holds now.
Download(q, p) ==
    /\ Running(q, "apply") /\ p \in run[q].down
    /\ LET v == run[q].man[p] IN
         IF <<p, v>> \in objects
         THEN /\ SetDisk(q, With(On(q), p, v))
              /\ run' = [run EXCEPT ![q].down = @ \ {p}, ![q].changed = TRUE,
                                    ![q].base = IF Syncs(q) THEN @ ELSE With(@, p, v)]
         ELSE Bail(q) /\ UNCHANGED <<disk, stale>>
    /\ UNCHANGED <<remote, objects, state, edits, owed, gone, clock>>

DeleteLocal(q, p) ==
    /\ Running(q, "apply") /\ run[q].down = {} /\ p \in run[q].del
    /\ SetDisk(q, Without(On(q), {p}))
    /\ run' = [run EXCEPT ![q].del = @ \ {p}, ![q].changed = TRUE,
                          ![q].base = IF Syncs(q) THEN @ ELSE Without(@, {p})]
    /\ UNCHANGED <<remote, objects, state, edits, owed, gone, clock>>

\* A conflict: the local file is renamed to its conflict copy, over whatever has
\* that name, and the remote's version downloaded next.  Several conflicts of an
\* attempt share its second.
SetAside(q, p) ==
    /\ Running(q, "apply") /\ Downloaded(q) /\ p \in run[q].conf
    /\ IF p \notin DOMAIN On(q)
       THEN Bail(q) /\ UNCHANGED <<disk, stale, clock>>
       ELSE LET second == IF run[q].second = 0 THEN clock + 1 ELSE run[q].second
                copy == CopyOf(p, At[q], second)
            IN  /\ SetDisk(q, With(Without(On(q), {p}), copy, On(q)[p]))
                /\ clock' = IF run[q].second = 0 THEN second ELSE clock
                /\ run' = [run EXCEPT ![q].conf = @ \ {p}, ![q].down = {p}, ![q].second = second,
                                      ![q].push = @ \union {copy}, ![q].writes = TRUE,
                                      ![q].changed = TRUE]
    /\ UNCHANGED <<remote, objects, state, edits, owed, gone>>

\* Mutant of Upload: a path that is in the manifest counts as uploaded.
UploadOnce(q, p) ==
    /\ Running(q, "apply") /\ Applied(q) /\ p \in run[q].push /\ p \in DOMAIN On(q)
    /\ objects' = IF p \in DOMAIN run[q].man THEN objects ELSE objects \union {<<p, On(q)[p]>>}
    /\ run' = [run EXCEPT ![q].push = @ \ {p}, ![q].man = With(@, p, On(q)[p])]
    /\ UNCHANGED <<remote, disk, state, stale, edits, owed, gone, clock>>

\* The file is read again to be pushed: what is there now.
Upload(q, p) ==
    /\ Running(q, "apply") /\ Applied(q) /\ p \in run[q].push
    /\ IF p \notin DOMAIN On(q)
       THEN Bail(q) /\ UNCHANGED objects
       ELSE LET v == On(q)[p] IN
            /\ objects' = objects \union {<<p, v>>}
            /\ run' = [run EXCEPT ![q].push = @ \ {p}, ![q].man = With(@, p, v)]
    /\ UNCHANGED <<remote, disk, state, stale, edits, owed, gone, clock>>

\* put_if_match.  A lost swap is tried again from a fresh manifest, 50 to 250 ms
\* later: `now' may or may not be another second.
Swap(q) ==
    /\ Running(q, "apply") /\ Applied(q) /\ run[q].push = {} /\ run[q].writes
    /\ IF run[q].gen = remote.gen
       THEN LET entries == Without(run[q].man, run[q].drop) IN
            /\ remote' = [gen |-> remote.gen + 1, entries |-> entries]
            /\ gone' = gone \union (Contents(remote.entries) \ Contents(entries))
            /\ run' = [run EXCEPT ![q].pc = "save", ![q].man = entries, ![q].gen = @ + 1]
       ELSE /\ UNCHANGED <<remote, gone>>
            /\ IF run[q].attempt + 1 = Attempts THEN Bail(q)
               ELSE \E second \in {0} \union (IF SameSecond THEN {run[q].second} ELSE {}) :
                      run' = [run EXCEPT ![q].pc = "get", ![q].attempt = @ + 1,
                                         ![q].drop = {}, ![q].second = second]
    /\ UNCHANGED <<objects, disk, state, stale, edits, owed, clock>>

\* The end of a sync: base is what the manifest says now.  The end of a lookup:
\* base is what it loaded, with what it changed.
Saving(q) == \/ Running(q, "save") \/ Running(q, "unmodified")
             \/ Running(q, "apply") /\ Applied(q) /\ run[q].push = {} /\ ~run[q].writes

Save(q) ==
    /\ Saving(q)
    /\ state' = [state EXCEPT ![At[q]] =
                   [gen |-> run[q].gen, whole |-> TRUE,
                    base |-> IF Syncs(q) THEN run[q].man ELSE run[q].base]]
    /\ run' = [run EXCEPT ![q] = IF @.call = "index" \/ @.changed
                                 THEN [Idle EXCEPT !.pc = "rebuild"] ELSE Idle]
    /\ UNCHANGED <<remote, objects, disk, stale, edits, owed, gone, clock>>

\* BrainIndex::rebuild, by the caller.
Rebuild(q) ==
    /\ Running(q, "rebuild")
    /\ stale' = [stale EXCEPT ![At[q]] = FALSE]
    /\ run' = [run EXCEPT ![q] = Idle]
    /\ UNCHANGED <<remote, objects, disk, state, edits, owed, gone, clock>>

Step(q) == \/ LoadState(q) \/ GetManifest(q) \/ PlanOfSync(q) \/ PlanOfLookup(q)
           \/ Swap(q) \/ Save(q) \/ Rebuild(q)
           \/ \E p \in run[q].down : Download(q, p)
           \/ \E p \in run[q].del : DeleteLocal(q, p)
           \/ \E p \in run[q].conf : SetAside(q, p)
           \/ \E p \in run[q].push : Upload(q, p)

-----------------------------------------------------------------------------
(* Faults: a call of the bucket fails, or only its answer is lost, as in    *)
(* `save' that of the swap; the process is killed; it is killed in the     *)
(* middle of writing its state, which is written in place.                 *)

Fault(kind) == /\ kind \in Faults /\ edits.faults < MaxFaults
               /\ edits.made + edits.faults < MaxEvents
               /\ edits' = [edits EXCEPT !.faults = @ + 1]

CallFails(q) ==
    /\ Fault("fail") /\ (Running(q, "get") \/ Running(q, "apply") \/ Running(q, "save"))
    /\ Bail(q)
    /\ UNCHANGED <<remote, objects, disk, state, stale, owed, gone, clock>>

Killed(q) ==
    /\ Fault("kill") /\ ~Running(q, "idle")
    /\ run' = [run EXCEPT ![q] = Idle]
    /\ UNCHANGED <<remote, objects, disk, state, stale, owed, gone, clock>>

TornSave(q) ==
    /\ Fault("torn") /\ Saving(q)
    /\ state' = [state EXCEPT ![At[q]].whole = FALSE]
    /\ run' = [run EXCEPT ![q] = Idle]
    /\ UNCHANGED <<remote, objects, disk, stale, owed, gone, clock>>

-----------------------------------------------------------------------------
(* People and agents write and delete files, also while a sync runs.       *)

Edit == /\ edits.made + edits.faults < MaxEvents
        /\ edits' = [edits EXCEPT !.made = @ + 1]

\* Is a sync about to replace or delete the file?
AboutToChange(m, p) == \E q \in Procs : At[q] = m /\ p \in run[q].down \union run[q].del

Write(m, p) ==
    /\ Edit /\ (Races \/ ~AboutToChange(m, p))
    /\ disk' = [disk EXCEPT ![m] = With(@, p, edits.made + 1)]
    /\ owed' = (owed \ Have(disk[m], p)) \union {edits.made + 1}
    /\ UNCHANGED <<remote, objects, state, stale, run, gone, clock>>

Remove(m, p) ==
    /\ Edit /\ (Races \/ ~AboutToChange(m, p)) /\ p \in DOMAIN disk[m]
    /\ disk' = [disk EXCEPT ![m] = Without(@, {p})]
    /\ owed' = owed \ Have(disk[m], p)
    /\ UNCHANGED <<remote, objects, state, stale, run, gone, clock>>

Someone == \E m \in Machines : \/ \E p \in DOMAIN disk[m] \union {Path(e) : e \in Entries} : Write(m, p)
                               \/ \E p \in DOMAIN disk[m] : Remove(m, p)

Next == \/ \E q \in Procs : \/ \E call \in Calls[q] : Start(q, call)
                            \/ Step(q) \/ CallFails(q) \/ Killed(q) \/ TornSave(q)
        \/ Someone

Spec == Init /\ [][Next]_vars

\* A call that runs goes on; a process that may sync does so again and again,
\* however many lookups come between.
Fairness == \A q \in Procs : WF_vars(Step(q)) /\ SF_vars(\E call \in {"sync", "index"} : Start(q, call))
FairSpec == Spec /\ Fairness

-----------------------------------------------------------------------------
(* Properties *)

\* What somebody wrote and nobody has replaced or deleted since is on a machine
\* or current in the bucket, whatever is merged in whatever order
NothingLost ==
    \A v \in owed : v \in Contents(remote.entries) \/ \E m \in Machines : v \in Contents(disk[m])

\* The manifest never names an object that is not in the bucket
EntriesBacked == \A p \in DOMAIN remote.entries : <<p, remote.entries[p]>> \in objects

\* What somebody wrote and nobody has replaced or deleted since can be read on a
\* machine or fetched from the bucket (mod.rs: "no data loss")
NothingDropped == NothingLost /\ EntriesBacked

Converged == \A m \in Machines : disk[m] = remote.entries
Converges == <>[](Converged \/ \E m \in Machines : ~state[m].whole)

\* When nothing runs the index shows what is on the disk
IndexFollows == \A m \in Machines : (\A q \in Procs : At[q] = m => Running(q, "idle")) => ~stale[m]

\* What has left the manifest, replaced or deleted, does not come back
NothingReturns == gone \intersect Contents(remote.entries) = {}
==============================================================================
