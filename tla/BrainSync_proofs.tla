--------------------------- MODULE BrainSync_proofs ---------------------------
(* What holds of the merge and of the bucket for every set of machines,      *)
(* processes, entries and calls, and every bound.                            *)
EXTENDS BrainSync, TLAPS

(* The plan gives every path one action, or finds that it agrees.            *)
THEOREM PlanCovers ==
    ASSUME NEW b, NEW l, NEW r, NEW p \in DOMAIN b \union DOMAIN l \union DOMAIN r
    PROVE  LET plan == PlanSync(b, l, r)
           IN  \/ p \in plan.pulls \/ p \in plan.delete_local
               \/ p \in plan.pushes \/ p \in plan.delete_remote
               \/ p \in plan.resurrect_pulls \/ p \in plan.conflicts
               \/ p \in plan.agreed
  BY DEF PlanSync

(* pull_if_stale applies `pulls' and `delete_local' only: they never touch a *)
(* file that differs from what was last agreed (mod.rs:64).                  *)
THEOREM LookupSparesEdits ==
    ASSUME NEW b, NEW l, NEW r, NEW p \in DOMAIN l,
           \/ p \in PlanSync(b, l, r).pulls
           \/ p \in PlanSync(b, l, r).delete_local
    PROVE  p \in DOMAIN b /\ l[p] = b[p]
  BY DEF PlanSync, Have

(* What was edited here, and does not agree with the manifest, is pushed or  *)
(* set aside, never overwritten.                                             *)
THEOREM EditsAreKept ==
    ASSUME NEW b, NEW l, NEW r, NEW p \in DOMAIN l,
           p \in DOMAIN b => l[p] # b[p],
           p \in DOMAIN r => l[p] # r[p]
    PROVE  /\ p \in PlanSync(b, l, r).pushes \/ p \in PlanSync(b, l, r).conflicts
           /\ p \notin PlanSync(b, l, r).pulls \union PlanSync(b, l, r).resurrect_pulls
           /\ p \notin PlanSync(b, l, r).delete_local
  BY DEF PlanSync, Have

-----------------------------------------------------------------------------
(* The manifest names only objects that are in the bucket because every      *)
(* manifest a process has in hand does: it begins as a copy of the remote    *)
(* one, and gains an entry only after the upload.                            *)

Backed(entries) == \A p \in DOMAIN entries : <<p, entries[p]>> \in objects

Fields == {"pc", "call", "attempt", "gen", "man", "base", "down", "del", "conf",
           "push", "drop", "writes", "changed", "second"}
RunShape == /\ run = [q \in Procs |-> run[q]]
            /\ \A q \in Procs : run[q] = [f \in Fields |-> run[q][f]]

InHand == \A q \in Procs : Backed(run[q].man)

IInv == RunShape /\ EntriesBacked /\ InHand

LEMMA BackedEmpty == Backed(Empty)
  BY DEF Backed, Empty

LEMMA BackedWithout ==
    ASSUME NEW entries, NEW P, Backed(entries)
    PROVE  Backed(Without(entries, P))
  BY DEF Backed, Without

LEMMA BackedGrows ==
    ASSUME NEW entries, Backed(entries), objects \subseteq objects'
    PROVE  \A p \in DOMAIN entries : <<p, entries[p]>> \in objects'
  BY DEF Backed

LEMMA IdleShape == Idle = [f \in Fields |-> Idle[f]] /\ Idle.man = Empty
  BY DEF Idle, Fields

(* An action that leaves the bucket alone, and of whose processes one goes on  *)
(* with a manifest that is backed, keeps the invariant.                        *)
LEMMA GoesOn ==
    ASSUME IInv, UNCHANGED <<remote, objects>>,
           NEW q \in Procs, NEW next,
           next = [f \in Fields |-> next[f]], Backed(next.man),
           run' = [run EXCEPT ![q] = next]
    PROVE  IInv'
  <1>1. run' = [p \in Procs |-> IF p = q THEN next ELSE run[p]]
    BY DEF IInv, RunShape
  <1>2. RunShape'
    BY <1>1 DEF IInv, RunShape
  <1>3. InHand'
    BY <1>1 DEF IInv, InHand, Backed
  <1>4. EntriesBacked'
    BY DEF IInv, EntriesBacked
  <1>5. QED
    BY <1>2, <1>3, <1>4 DEF IInv

LEMMA InitInv == Init => IInv
  <1>1. ASSUME Init PROVE RunShape
    <2>1. run = [q \in Procs |-> Idle]
      BY <1>1 DEF Init
    <2>2. QED
      BY <2>1, IdleShape DEF RunShape
  <1>2. ASSUME Init PROVE InHand
    BY <1>2, IdleShape, BackedEmpty DEF Init, InHand
  <1>3. ASSUME Init PROVE EntriesBacked
    <2>1. PICK shared \in SUBSET Entries :
            LET tree == [p \in {Path(e) : e \in shared} |-> 0]
                gen == IF shared = {} THEN 0 ELSE 1
            IN  /\ remote = [gen |-> gen, entries |-> tree]
                /\ objects = {<<p, 0>> : p \in DOMAIN tree}
      BY <1>3, Zenon DEF Init
    <2> DEFINE paths == {Path(e) : e \in shared}
    <2>2. remote.entries = [p \in paths |-> 0] /\ objects = {<<p, 0>> : p \in paths}
      BY <2>1
    <2>3. QED
      BY <2>2 DEF EntriesBacked
  <1>4. QED
    BY <1>1, <1>2, <1>3 DEF IInv

LEMMA BailKeeps ==
    ASSUME IInv, NEW q \in Procs, Bail(q), UNCHANGED <<remote, objects>>
    PROVE  IInv'
  <1>1. PICK next \in {Idle, [Idle EXCEPT !.pc = "rebuild"]} : run' = [run EXCEPT ![q] = next]
    BY DEF Bail
  <1>2. next = [f \in Fields |-> next[f]] /\ next.man = Empty
    BY <1>1 DEF Idle, Fields
  <1>3. QED
    BY <1>1, <1>2, BackedEmpty, GoesOn

LEMMA StartKeeps ==
    ASSUME IInv, NEW q \in Procs, NEW call, Start(q, call)
    PROVE  IInv'
  <1> DEFINE next == [run[q] EXCEPT !.call = call, !.pc = IF call = "lookup" THEN "load" ELSE "get"]
  <1>1. next = [f \in Fields |-> next[f]] /\ next.man = run[q].man
    BY DEF IInv, RunShape, Fields
  <1>2. run' = [run EXCEPT ![q] = next]
    BY DEF Start
  <1> HIDE DEF next
  <1>3. QED
    BY <1>1, <1>2, GoesOn DEF Start, IInv, InHand

LEMMA LoadStateKeeps == ASSUME IInv, NEW q \in Procs, LoadState(q) PROVE IInv'
  <1>1. CASE Bail(q)
    BY <1>1, BailKeeps DEF LoadState
  <1>2. CASE run' = [run EXCEPT ![q].pc = "get", ![q].gen = state[At[q]].gen,
                                ![q].base = state[At[q]].base]
    <2> DEFINE next == [run[q] EXCEPT !.pc = "get", !.gen = state[At[q]].gen,
                                      !.base = state[At[q]].base]
    <2>1. next = [f \in Fields |-> next[f]] /\ next.man = run[q].man
      BY DEF IInv, RunShape, Fields
    <2>2. run' = [run EXCEPT ![q] = next]
      BY <1>2
    <2> HIDE DEF next
    <2>3. QED
      BY <2>1, <2>2, GoesOn DEF LoadState, IInv, InHand
  <1>3. QED
    BY <1>1, <1>2 DEF LoadState

LEMMA GetManifestKeeps == ASSUME IInv, NEW q \in Procs, GetManifest(q) PROVE IInv'
  <1> DEFINE pc == IF ~Syncs(q) /\ run[q].gen = remote.gen /\ remote.gen # 0
                   THEN "unmodified" ELSE "plan"
             next == [run[q] EXCEPT !.gen = remote.gen, !.man = remote.entries, !.pc = pc]
  <1>1. next = [f \in Fields |-> next[f]] /\ next.man = remote.entries
    BY DEF IInv, RunShape, Fields
  <1>2. run' = [run EXCEPT ![q] = next]
    BY DEF GetManifest
  <1>3. Backed(remote.entries)
    BY DEF IInv, EntriesBacked, Backed
  <1> HIDE DEF next
  <1>4. QED
    BY <1>1, <1>2, <1>3, GoesOn DEF GetManifest

LEMMA PlanOfSyncKeeps == ASSUME IInv, NEW q \in Procs, PlanOfSync(q) PROVE IInv'
  <1> DEFINE plan == PlanSync(state[At[q]].base, On(q), run[q].man)
             down == plan.pulls \union plan.resurrect_pulls
             writes == plan.pushes \union plan.delete_remote # {}
             next == [run[q] EXCEPT !.pc = "apply", !.down = down, !.del = plan.delete_local,
                                    !.conf = plan.conflicts, !.push = plan.pushes,
                                    !.drop = plan.delete_remote, !.writes = writes]
  <1>1. CASE ~state[At[q]].whole
    BY <1>1, BailKeeps DEF PlanOfSync
  <1>2. CASE state[At[q]].whole
    <2>0. run' = [run EXCEPT ![q] = next]
      BY <1>2, ZenonT(30) DEF PlanOfSync
    <2> HIDE DEF plan, down, writes
    <2>1. next = [f \in Fields |-> next[f]] /\ next.man = run[q].man
      BY DEF IInv, RunShape, Fields
    <2> HIDE DEF next
    <2>2. QED
      BY <2>0, <2>1, GoesOn DEF PlanOfSync, IInv, InHand
  <1>3. QED
    BY <1>1, <1>2

LEMMA PlanOfLookupKeeps == ASSUME IInv, NEW q \in Procs, PlanOfLookup(q) PROVE IInv'
  <1> DEFINE plan == PlanSync(run[q].base, On(q), run[q].man)
             here == plan.agreed \intersect DOMAIN On(q)
             base == [p \in (DOMAIN run[q].base \ plan.agreed) \union here
                        |-> IF p \in here THEN On(q)[p] ELSE run[q].base[p]]
             next == [run[q] EXCEPT !.pc = "apply", !.base = base, !.down = plan.pulls,
                                    !.del = plan.delete_local]
  <1>1. run' = [run EXCEPT ![q] = next]
    BY DEF PlanOfLookup
  <1> HIDE DEF plan, base
  <1>2. next = [f \in Fields |-> next[f]] /\ next.man = run[q].man
    BY DEF IInv, RunShape, Fields
  <1> HIDE DEF next
  <1>3. QED
    BY <1>1, <1>2, GoesOn DEF PlanOfLookup, IInv, InHand

LEMMA DownloadKeeps == ASSUME IInv, NEW q \in Procs, NEW p, Download(q, p) PROVE IInv'
  <1> DEFINE base == IF Syncs(q) THEN run[q].base ELSE With(run[q].base, p, run[q].man[p])
             next == [run[q] EXCEPT !.down = run[q].down \ {p}, !.changed = TRUE, !.base = base]
  <1>1. CASE <<p, run[q].man[p]>> \notin objects
    BY <1>1, BailKeeps DEF Download
  <1>2. CASE <<p, run[q].man[p]>> \in objects
    <2>1. run' = [run EXCEPT ![q] = next]
      BY <1>2 DEF Download
    <2> HIDE DEF base
    <2>2. next = [f \in Fields |-> next[f]] /\ next.man = run[q].man
      BY DEF IInv, RunShape, Fields
    <2> HIDE DEF next
    <2>3. QED
      BY <2>1, <2>2, GoesOn DEF Download, IInv, InHand
  <1>3. QED
    BY <1>1, <1>2

LEMMA DeleteLocalKeeps == ASSUME IInv, NEW q \in Procs, NEW p, DeleteLocal(q, p) PROVE IInv'
  <1> DEFINE base == IF Syncs(q) THEN run[q].base ELSE Without(run[q].base, {p})
             next == [run[q] EXCEPT !.del = run[q].del \ {p}, !.changed = TRUE, !.base = base]
  <1>1. run' = [run EXCEPT ![q] = next]
    BY DEF DeleteLocal
  <1> HIDE DEF base
  <1>2. next = [f \in Fields |-> next[f]] /\ next.man = run[q].man
    BY DEF IInv, RunShape, Fields
  <1> HIDE DEF next
  <1>3. QED
    BY <1>1, <1>2, GoesOn DEF DeleteLocal, IInv, InHand

LEMMA SetAsideKeeps == ASSUME IInv, NEW q \in Procs, NEW p, SetAside(q, p) PROVE IInv'
  <1> DEFINE second == IF run[q].second = 0 THEN clock + 1 ELSE run[q].second
             push == run[q].push \union {CopyOf(p, At[q], second)}
             next == [run[q] EXCEPT !.conf = run[q].conf \ {p}, !.down = {p}, !.second = second,
                                    !.push = push, !.writes = TRUE, !.changed = TRUE]
  <1>1. CASE p \notin DOMAIN On(q)
    BY <1>1, BailKeeps DEF SetAside
  <1>2. CASE p \in DOMAIN On(q)
    <2>1. run' = [run EXCEPT ![q] = next]
      BY <1>2 DEF SetAside
    <2> HIDE DEF push, second
    <2>2. next = [f \in Fields |-> next[f]] /\ next.man = run[q].man
      BY DEF IInv, RunShape, Fields
    <2> HIDE DEF next
    <2>3. QED
      BY <2>1, <2>2, GoesOn DEF SetAside, IInv, InHand
  <1>3. QED
    BY <1>1, <1>2

(* The one step that adds an object, and after it the entry that names it.   *)
LEMMA UploadKeeps == ASSUME IInv, NEW q \in Procs, NEW p, Upload(q, p) PROVE IInv'
  <1> DEFINE v == On(q)[p]
             man == With(run[q].man, p, v)
             next == [run[q] EXCEPT !.push = run[q].push \ {p}, !.man = man]
  <1>1. CASE p \notin DOMAIN On(q)
    BY <1>1, BailKeeps DEF Upload
  <1>2. CASE p \in DOMAIN On(q)
    <2>1. /\ run' = [run EXCEPT ![q] = next]
          /\ objects' = objects \union {<<p, v>>}
          /\ remote' = remote
      BY <1>2 DEF Upload
    <2>2. \A x \in DOMAIN man : <<x, man[x]>> \in objects'
      BY <2>1 DEF With, IInv, InHand, Backed
    <2> HIDE DEF man, v
    <2>3. next = [f \in Fields |-> next[f]] /\ next.man = man
      BY DEF IInv, RunShape, Fields
    <2> HIDE DEF next
    <2>4. run' = [x \in Procs |-> IF x = q THEN next ELSE run[x]]
      BY <2>1 DEF IInv, RunShape
    <2>5. RunShape'
      BY <2>3, <2>4 DEF IInv, RunShape
    <2>6. InHand'
      BY <2>1, <2>2, <2>3, <2>4 DEF IInv, InHand, Backed
    <2>7. EntriesBacked'
      BY <2>1 DEF IInv, EntriesBacked
    <2>8. QED
      BY <2>5, <2>6, <2>7 DEF IInv
  <1>3. QED
    BY <1>1, <1>2

(* The swap publishes a manifest that was in hand, without what was deleted. *)
LEMMA SwapKeeps == ASSUME IInv, NEW q \in Procs, Swap(q) PROVE IInv'
  <1>1. CASE run[q].gen = remote.gen
    <2> DEFINE entries == Without(run[q].man, run[q].drop)
               next == [run[q] EXCEPT !.pc = "save", !.man = entries, !.gen = run[q].gen + 1]
    <2>1. /\ run' = [run EXCEPT ![q] = next]
          /\ remote' = [gen |-> remote.gen + 1, entries |-> entries]
          /\ objects' = objects
      BY <1>1 DEF Swap
    <2>2. Backed(entries)
      BY BackedWithout DEF IInv, InHand
    <2> HIDE DEF entries
    <2>3. next = [f \in Fields |-> next[f]] /\ next.man = entries
      BY DEF IInv, RunShape, Fields
    <2> HIDE DEF next
    <2>4. run' = [x \in Procs |-> IF x = q THEN next ELSE run[x]]
      BY <2>1 DEF IInv, RunShape
    <2>5. RunShape'
      BY <2>3, <2>4 DEF IInv, RunShape
    <2>6. InHand'
      BY <2>1, <2>2, <2>3, <2>4 DEF IInv, InHand, Backed
    <2>7. EntriesBacked'
      BY <2>1, <2>2 DEF EntriesBacked, Backed
    <2>8. QED
      BY <2>5, <2>6, <2>7 DEF IInv
  <1>2. CASE run[q].gen # remote.gen
    <2>1. CASE Bail(q)
      BY <1>2, <2>1, BailKeeps DEF Swap
    <2>2. CASE \E second \in {0} \union (IF SameSecond THEN {run[q].second} ELSE {}) :
                 run' = [run EXCEPT ![q].pc = "get", ![q].attempt = @ + 1,
                                    ![q].drop = {}, ![q].second = second]
      <3>1. PICK second : run' = [run EXCEPT ![q].pc = "get", ![q].attempt = @ + 1,
                                             ![q].drop = {}, ![q].second = second]
        BY <2>2
      <3> DEFINE next == [run[q] EXCEPT !.pc = "get", !.attempt = run[q].attempt + 1,
                                        !.drop = {}, !.second = second]
      <3>2. next = [f \in Fields |-> next[f]] /\ next.man = run[q].man
        BY DEF IInv, RunShape, Fields
      <3>3. run' = [run EXCEPT ![q] = next]
        BY <3>1
      <3> HIDE DEF next
      <3>4. QED
        BY <1>2, <3>2, <3>3, GoesOn DEF Swap, IInv, InHand
    <2>3. QED
      BY <1>2, <2>1, <2>2 DEF Swap
  <1>3. QED
    BY <1>1, <1>2

LEMMA EndKeeps == ASSUME IInv, NEW q \in Procs, Save(q) \/ Rebuild(q) \/ Killed(q) \/ TornSave(q)
                  PROVE  IInv'
  <1>1. PICK next \in {Idle, [Idle EXCEPT !.pc = "rebuild"]} : run' = [run EXCEPT ![q] = next]
    BY DEF Save, Rebuild, Killed, TornSave
  <1>2. next = [f \in Fields |-> next[f]] /\ next.man = Empty
    BY <1>1 DEF Idle, Fields
  <1>3. UNCHANGED <<remote, objects>>
    BY DEF Save, Rebuild, Killed, TornSave
  <1>4. QED
    BY <1>1, <1>2, <1>3, BackedEmpty, GoesOn

LEMMA StepKeeps == ASSUME IInv, NEW q \in Procs, Step(q) PROVE IInv'
  BY LoadStateKeeps, GetManifestKeeps, PlanOfSyncKeeps, PlanOfLookupKeeps, SwapKeeps, EndKeeps,
     DownloadKeeps, DeleteLocalKeeps, SetAsideKeeps, UploadKeeps DEF Step

LEMMA UnchangedKeeps == ASSUME IInv, UNCHANGED <<remote, objects, run>> PROVE IInv'
  BY DEF IInv, RunShape, EntriesBacked, InHand, Backed

LEMMA NextKeeps == IInv /\ [Next]_vars => IInv'
  <1> SUFFICES ASSUME IInv, [Next]_vars PROVE IInv'
    OBVIOUS
  <1>1. ASSUME NEW q \in Procs, NEW call, Start(q, call) PROVE IInv'
    BY <1>1, StartKeeps
  <1>2. ASSUME NEW q \in Procs, Step(q) PROVE IInv'
    BY <1>2, StepKeeps
  <1>3. ASSUME NEW q \in Procs, CallFails(q) PROVE IInv'
    BY <1>3, BailKeeps DEF CallFails
  <1>4. ASSUME NEW q \in Procs, Killed(q) \/ TornSave(q) PROVE IInv'
    BY <1>4, EndKeeps
  <1>5. CASE Someone
    BY <1>5, UnchangedKeeps DEF Someone, Write, Remove
  <1>6. CASE UNCHANGED vars
    BY <1>6, UnchangedKeeps DEF vars
  <1>7. QED
    BY <1>1, <1>2, <1>3, <1>4, <1>5, <1>6 DEF Next

(* However many machines, processes, edits and faults: whoever reads the      *)
(* manifest finds every object it names (mod.rs:209, "immutable entry objects *)
(* first, then the manifest CAS").                                            *)
THEOREM ManifestBacked == Spec => []EntriesBacked
  <1>1. IInv => EntriesBacked
    BY DEF IInv
  <1>2. QED
    BY <1>1, InitInv, NextKeeps, PTL DEF Spec

-----------------------------------------------------------------------------
(* Nothing is lost, as long as a machine runs one call at a time, a retry     *)
(* falls into another second, and nobody writes a file that a running sync    *)
(* is about to replace: without any of the three it is not so.  What is owed  *)
(* is followed through what a call has in hand: what it last agreed is        *)
(* current in the manifest and in the files, and what it is about to replace  *)
(* or drop is not owed.                                                       *)

Alone == \A p, q \in Procs : At[p] = At[q] => p = q

\* Where f has one of the contents o, g has the same.
HasAt(f, p, v) == p \in DOMAIN f /\ f[p] = v
Follows(o, f, g) == \A p \in DOMAIN f : f[p] \in o => HasAt(g, p, f[p])

\* A path of a person, or of a conflict copy that was made by now.
Parts == Entries \union Machines \union Nat
OldAt(p, now) == p \in Seq(Parts) /\ Len(p) > 0 /\ (Len(p) # 1 => p[Len(p)] \in 0..now)
Old(p) == OldAt(p, clock)
Used(p) == \/ \E m \in Machines : p \in DOMAIN disk[m]
           \/ p \in DOMAIN remote.entries
           \/ \E q \in Procs : p \in DOMAIN run[q].man

\* What a directory, a manifest or a base can be: old contents at old paths.
SoundAt(f, made, now) == \A p \in DOMAIN f : f[p] \in 0..made /\ OldAt(p, now)
Sound(f) == SoundAt(f, edits.made, clock)

Shape ==
  /\ RunShape
  /\ disk = [m \in Machines |-> disk[m]]
  /\ state = [m \in Machines |-> [gen |-> state[m].gen, whole |-> state[m].whole,
                                  base |-> state[m].base]]
  /\ edits = [made |-> edits.made, faults |-> edits.faults]
  /\ edits.made \in Nat /\ clock \in Nat /\ remote.gen \in Nat

RemoteInv == Sound(remote.entries)
\* What a machine last agreed, and is owed, is current and still in its files.
MachineInv(m) ==
  /\ Sound(disk[m]) /\ Sound(state[m].base)
  /\ state[m].gen \in Nat
  /\ Follows(owed, state[m].base, remote.entries)
  /\ Follows(owed, state[m].base, disk[m])

\* Which fields of a call are set where, and which calls set them.
Rests(q) ==
  /\ run[q].pc = "idle" => run[q] = Idle
  /\ run[q].pc # "apply" => /\ run[q].down = {} /\ run[q].del = {}
                            /\ run[q].conf = {} /\ run[q].push = {}
  /\ run[q].pc \notin {"apply", "save"} => run[q].second = 0
  /\ run[q].pc \in {"load", "unmodified"} => ~Syncs(q)
LooksOnly(q) ==
  /\ ~Syncs(q) => run[q].conf = {} /\ run[q].push = {} /\ run[q].drop = {} /\ run[q].writes = FALSE
  /\ Syncs(q) => run[q].base = Empty
RunSound(q) ==
  /\ Sound(run[q].man) /\ Sound(run[q].base)
  /\ run[q].gen \in Nat
  /\ run[q].pc \in {"plan", "apply"} => run[q].gen <= remote.gen

\* What is owed of the manifest in hand is current, until the call adds to it.
ManInv(q) ==
  run[q].pc \in {"plan", "save"} \/ (run[q].pc = "apply" /\ run[q].writes = FALSE) =>
    Follows(owed, run[q].man, remote.entries)
\* The same of the base a lookup has in hand, which the files have as well.
BaseInv(q) == Follows(owed, run[q].base, remote.entries) /\ Follows(owed, run[q].base, On(q))
\* The merge has a base that the manifest follows: nothing owed looks deleted.
PlanInv(q) ==
  run[q].pc = "plan" => /\ Follows(owed, state[At[q]].base, run[q].man)
                        /\ Follows(owed, run[q].base, run[q].man)
\* What a sync is about to call agreed is in the files, or will be.
ApplyInv(q) ==
  /\ run[q].pc = "apply" /\ Syncs(q) =>
       \A p \in DOMAIN run[q].man : run[q].man[p] \in owed =>
         HasAt(On(q), p, run[q].man[p]) \/ p \in run[q].down \union run[q].conf
  /\ run[q].pc = "save" => Follows(owed, run[q].man, On(q))
\* It replaces and drops nothing that is owed from the manifest,
PushInv(q) ==
  run[q].pc = "apply" =>
    /\ \A p \in run[q].push \union run[q].drop :
         p \in DOMAIN run[q].man => run[q].man[p] \notin owed
    /\ run[q].push \intersect run[q].drop = {}
    /\ run[q].drop \subseteq DOMAIN run[q].man
    /\ run[q].writes = FALSE => run[q].push = {} /\ run[q].drop = {}
\* has all of it that is owed if the swap will succeed,
CurrentInv(q) ==
  run[q].pc \in {"plan", "apply"} /\ run[q].gen = remote.gen =>
    Follows(owed, remote.entries, run[q].man)
\* and downloads over no file that is owed, nor deletes one.
DownInv(q) ==
  /\ \A p \in run[q].down \union run[q].del : p \in DOMAIN On(q) => On(q)[p] \notin owed
  /\ run[q].down \intersect run[q].del = {} /\ run[q].down \intersect run[q].conf = {}
  /\ run[q].down \union run[q].conf \subseteq DOMAIN run[q].man
\* A file in conflict is not what was agreed; the name of its copy is free.
ConfInv(q) ==
  \A p \in run[q].conf : p \in DOMAIN On(q) /\ On(q)[p] \in owed =>
    ~HasAt(state[At[q]].base, p, On(q)[p])
CopyInv(q) ==
  /\ run[q].second \in 0..clock
  /\ run[q].second # 0 => \A p \in run[q].conf : ~Used(CopyOf(p, At[q], run[q].second))

CallInv(q) ==
  /\ Rests(q) /\ LooksOnly(q) /\ RunSound(q) /\ ManInv(q) /\ BaseInv(q) /\ PlanInv(q)
  /\ ApplyInv(q) /\ PushInv(q) /\ CurrentInv(q) /\ DownInv(q) /\ ConfInv(q) /\ CopyInv(q)

LossInv ==
  /\ Shape /\ NothingLost /\ RemoteInv
  /\ \A m \in Machines : MachineInv(m)
  /\ \A q \in Procs : CallInv(q)

LEMMA FollowsOn ==
    ASSUME NEW o, NEW f, NEW g, NEW h, Follows(o, f, g), Follows(o, g, h)
    PROVE  Follows(o, f, h)
  BY DEF Follows, HasAt

LEMMA FollowsEmpty == ASSUME NEW o, NEW g PROVE Follows(o, Empty, g)
  BY DEF Follows, Empty

(* The name of a conflict copy tells its path, its machine and its second.   *)
LEMMA CopyIs ==
    ASSUME NEW p \in Seq(Parts), NEW m \in Machines, NEW k \in Nat
    PROVE  /\ CopyOf(p, m, k) \in Seq(Parts)
           /\ Len(CopyOf(p, m, k)) = Len(p) + 2
           /\ CopyOf(p, m, k)[Len(p) + 1] = m /\ CopyOf(p, m, k)[Len(p) + 2] = k
           /\ \A i \in 1..Len(p) : CopyOf(p, m, k)[i] = p[i]
  <1>1. <<m, k>> \in Seq(Parts) /\ Len(<<m, k>>) = 2 /\ <<m, k>>[1] = m /\ <<m, k>>[2] = k
    BY DEF Parts
  <1> QED
    BY <1>1 DEF CopyOf

LEMMA CopyApart ==
    ASSUME NEW p \in Seq(Parts), NEW m \in Machines, NEW k \in Nat,
           NEW r \in Seq(Parts), NEW n \in Machines, NEW l \in Nat
    PROVE  CopyOf(p, m, k) = CopyOf(r, n, l) => p = r /\ m = n /\ k = l
  <1> DEFINE c == CopyOf(p, m, k)
             d == CopyOf(r, n, l)
  <1>1. /\ Len(c) = Len(p) + 2 /\ c[Len(p) + 1] = m /\ c[Len(p) + 2] = k
        /\ \A i \in 1..Len(p) : c[i] = p[i]
    <2>1. Len(c) = Len(p) + 2
      BY CopyIs
    <2>2. c[Len(p) + 1] = m
      BY CopyIs
    <2>3. c[Len(p) + 2] = k
      BY CopyIs
    <2>4. \A i \in 1..Len(p) : c[i] = p[i]
      BY CopyIs
    <2> QED
      BY <2>1, <2>2, <2>3, <2>4
  <1>2. /\ Len(d) = Len(r) + 2 /\ d[Len(r) + 1] = n /\ d[Len(r) + 2] = l
        /\ \A i \in 1..Len(r) : d[i] = r[i]
    <2>1. Len(d) = Len(r) + 2
      BY CopyIs
    <2>2. d[Len(r) + 1] = n
      BY CopyIs
    <2>3. d[Len(r) + 2] = l
      BY CopyIs
    <2>4. \A i \in 1..Len(r) : d[i] = r[i]
      BY CopyIs
    <2> QED
      BY <2>1, <2>2, <2>3, <2>4
  <1> HIDE DEF c, d
  <1>3. Len(p) \in Nat /\ Len(r) \in Nat
    OBVIOUS
  <1>4. ASSUME c = d PROVE p = r /\ m = n /\ k = l
    <2>1. Len(p) = Len(r)
      BY <1>1, <1>2, <1>3, <1>4
    <2>2. m = n /\ k = l /\ \A i \in 1..Len(p) : p[i] = r[i]
      BY <1>1, <1>2, <1>4, <2>1
    <2> QED
      BY <2>1, <2>2
  <1> QED
    BY <1>4 DEF c, d

LEMMA CopyOld ==
    ASSUME NEW p \in Seq(Parts), NEW m \in Machines, NEW k \in Nat, NEW now
    PROVE  CopyOf(p, m, k) \in Seq(Parts) /\ (OldAt(CopyOf(p, m, k), now) <=> k \in 0..now)
  <1> DEFINE c == CopyOf(p, m, k)
  <1>1. c \in Seq(Parts)
    BY CopyIs
  <1>2. Len(c) = Len(p) + 2
    BY CopyIs
  <1>3. c[Len(p) + 2] = k
    BY CopyIs
  <1> HIDE DEF c
  <1>4. Len(p) \in Nat
    OBVIOUS
  <1>5. OldAt(c, now) <=> k \in 0..now
    BY <1>1, <1>2, <1>3, <1>4 DEF OldAt
  <1> QED
    BY <1>1, <1>5 DEF c

LEMMA FollowsItself == ASSUME NEW o, NEW f PROVE Follows(o, f, f)
  BY DEF Follows, HasAt

(* What the plan does with a path, by where the contents are.                *)
LEMMA PlanFacts ==
    ASSUME NEW b, NEW l, NEW r, NEW plan, plan = PlanSync(b, l, r)
    PROVE  LET down == plan.pulls \union plan.resurrect_pulls
               out == plan.pushes \union plan.delete_remote
           IN  /\ down \union plan.conflicts \union plan.delete_remote \subseteq DOMAIN r
               /\ down \intersect plan.delete_local = {} /\ down \intersect plan.conflicts = {}
               /\ plan.pushes \intersect plan.delete_remote = {}
               /\ \A p \in (down \union plan.delete_local) \intersect DOMAIN l :
                    HasAt(b, p, l[p]) /\ ~HasAt(r, p, l[p])
               /\ \A p \in out \intersect DOMAIN r : HasAt(b, p, r[p]) /\ ~HasAt(l, p, r[p])
               /\ \A p \in plan.conflicts : p \in DOMAIN l => ~HasAt(b, p, l[p])
               /\ \A p \in DOMAIN r : \/ HasAt(l, p, r[p])
                                      \/ p \in down \union plan.conflicts \union out
               /\ \A p \in plan.agreed \intersect DOMAIN l : HasAt(r, p, l[p])
  <1> DEFINE down == plan.pulls \union plan.resurrect_pulls
             out == plan.pushes \union plan.delete_remote
  <1>1. /\ down \union plan.conflicts \union plan.delete_remote \subseteq DOMAIN r
        /\ down \intersect plan.delete_local = {} /\ down \intersect plan.conflicts = {}
        /\ plan.pushes \intersect plan.delete_remote = {}
    BY DEF PlanSync, Have
  <1>2. ASSUME NEW p \in (down \union plan.delete_local) \intersect DOMAIN l
        PROVE  HasAt(b, p, l[p]) /\ ~HasAt(r, p, l[p])
    BY <1>2 DEF PlanSync, Have, HasAt
  <1>3. ASSUME NEW p \in out \intersect DOMAIN r
        PROVE  HasAt(b, p, r[p]) /\ ~HasAt(l, p, r[p])
    BY <1>3 DEF PlanSync, Have, HasAt
  <1>4. ASSUME NEW p \in plan.conflicts, p \in DOMAIN l PROVE ~HasAt(b, p, l[p])
    BY <1>4 DEF PlanSync, Have, HasAt
  <1>5. ASSUME NEW p \in DOMAIN r
        PROVE  HasAt(l, p, r[p]) \/ p \in down \union plan.conflicts \union out
    BY <1>5 DEF PlanSync, Have, HasAt
  <1>6. ASSUME NEW p \in plan.agreed \intersect DOMAIN l PROVE HasAt(r, p, l[p])
    BY <1>6 DEF PlanSync, Have, HasAt
  <1> HIDE DEF down, out
  <1>7. QED
    BY <1>1, <1>2, <1>3, <1>4, <1>5, <1>6 DEF down, out

-----------------------------------------------------------------------------
(* A step of one process leaves what the others rely on.                     *)

Frame(q) ==
  /\ owed' = owed /\ edits'.made = edits.made
  /\ \A x \in Procs : x # q => run'[x] = run[x]
  /\ \A m \in Machines : m # At[q] => disk'[m] = disk[m] /\ state'[m] = state[m]
  /\ clock' \in Nat /\ clock <= clock' /\ remote'.gen \in Nat
  /\ \/ remote' = remote
     \/ remote'.gen = remote.gen + 1 /\ Follows(owed, remote.entries, remote'.entries)
\* New paths are conflict copies of q's machine.
NewPaths(q) == \A p : Used(p)' => \/ Used(p)
                                  \/ \E r \in Seq(Parts), k \in Nat : p = CopyOf(r, At[q], k)
Kept(q) == \A p \in DOMAIN On(q) : On(q)[p] \in owed =>
             On(q)[p] \in Contents(remote'.entries) \union Contents(disk'[At[q]])

LEMMA SoundStays ==
    ASSUME NEW f, NEW made \in Nat, NEW now \in Nat, SoundAt(f, made, now),
           NEW mades \in Nat, NEW later \in Nat, made <= mades, now <= later
    PROVE  SoundAt(f, mades, later)
  BY DEF SoundAt, OldAt

LEMMA OthersGo ==
    ASSUME Alone, LossInv, NEW q \in Procs, Frame(q), NewPaths(q),
           NEW x \in Procs, x # q
    PROVE  CallInv(x)'
  <1>1. /\ run'[x] = run[x] /\ owed' = owed /\ On(x)' = On(x) /\ state'[At[x]] = state[At[x]]
        /\ clock \in Nat /\ clock' \in Nat /\ clock <= clock'
        /\ edits.made \in Nat /\ edits'.made = edits.made /\ At[x] \in Machines /\ At[x] # At[q]
    BY ProcsAssumption DEF Frame, Alone, On, LossInv, Shape
  <1>2. Follows(owed, remote.entries, remote'.entries) /\ remote'.gen \in Nat
        /\ remote.gen \in Nat
        /\ (remote'.gen = remote.gen + 1 \/ remote' = remote)
    BY FollowsItself DEF Frame, LossInv, Shape
  <1>3. CallInv(x)
    BY DEF LossInv
  <1>4. Rests(x)' /\ LooksOnly(x)'
    BY <1>1, <1>3 DEF CallInv, Rests, LooksOnly, Syncs
  <1>5. RunSound(x)'
    <2>1. SoundAt(run[x].man, edits.made, clock) /\ SoundAt(run[x].base, edits.made, clock)
      BY <1>3 DEF CallInv, RunSound, Sound
    <2>2. SoundAt(run[x].man, edits.made, clock') /\ SoundAt(run[x].base, edits.made, clock')
      BY <1>1, <2>1, SoundStays
    <2> QED
      BY <1>1, <1>2, <1>3, <2>2 DEF CallInv, RunSound, Sound
  <1>6. ManInv(x)'
    BY <1>1, <1>2, <1>3, FollowsOn DEF CallInv, ManInv
  <1>7. BaseInv(x)'
    BY <1>1, <1>2, <1>3, FollowsOn DEF CallInv, BaseInv
  <1>8. PlanInv(x)' /\ ApplyInv(x)' /\ PushInv(x)' /\ DownInv(x)' /\ ConfInv(x)'
    BY <1>1, <1>3 DEF CallInv, PlanInv, ApplyInv, PushInv, DownInv, ConfInv, Syncs
  <1>9. CurrentInv(x)'
    BY <1>1, <1>2, <1>3 DEF CallInv, CurrentInv, RunSound
  <1>10. CopyInv(x)'
    <2>1. run[x].second \in 0..clock'
      BY <1>1, <1>3 DEF CallInv, CopyInv
    <2>2. ASSUME run[x].second # 0, NEW p \in run[x].conf,
                 NEW c, c = CopyOf(p, At[x], run[x].second), Used(c)'
          PROVE  FALSE
      <3>1. ~Used(c)
        BY <1>3, <2>2 DEF CallInv, CopyInv
      <3>2. PICK r \in Seq(Parts), k \in Nat : c = CopyOf(r, At[q], k)
        BY <2>2, <3>1 DEF NewPaths
      <3>3. p \in Seq(Parts)
        BY <1>3 DEF CallInv, DownInv, RunSound, Sound, SoundAt, OldAt
      <3>4. run[x].second \in Nat /\ At[q] \in Machines
        BY <1>1, <1>3, ProcsAssumption DEF CallInv, CopyInv
      <3>5. CopyOf(p, At[x], run[x].second) = CopyOf(r, At[q], k) => At[x] = At[q]
        BY <1>1, <3>3, <3>4, CopyApart
      <3> QED
        BY <1>1, <2>2, <3>2, <3>5
    <2> QED
      BY <1>1, <2>1, <2>2 DEF CopyInv
  <1> QED
    BY <1>4, <1>5, <1>6, <1>7, <1>8, <1>9, <1>10 DEF CallInv

LEMMA Goes ==
    ASSUME Alone, LossInv, NEW q \in Procs, Frame(q), NewPaths(q), Kept(q),
           Shape', RemoteInv', MachineInv(At[q])', CallInv(q)'
    PROVE  LossInv'
  <1>1. \A x \in Procs : CallInv(x)'
    BY OthersGo
  <1>2. /\ owed' = owed /\ clock \in Nat /\ clock' \in Nat /\ clock <= clock'
        /\ edits.made \in Nat /\ edits'.made = edits.made
    BY DEF Frame, LossInv, Shape
  <1>3. Follows(owed, remote.entries, remote'.entries)
    BY FollowsItself DEF Frame
  <1>4. ASSUME NEW m \in Machines, m # At[q] PROVE MachineInv(m)'
    <2>1. MachineInv(m) /\ disk'[m] = disk[m] /\ state'[m] = state[m]
      BY <1>4 DEF LossInv, Frame
    <2>2. SoundAt(disk[m], edits.made, clock') /\ SoundAt(state[m].base, edits.made, clock')
      BY <1>2, <2>1, SoundStays DEF MachineInv, Sound
    <2>3. Follows(owed, state[m].base, remote'.entries)
      BY <1>3, <2>1, FollowsOn DEF MachineInv
    <2> QED
      BY <1>2, <2>1, <2>2, <2>3 DEF MachineInv, Sound
  <1>5. NothingLost'
    <2>1. ASSUME NEW v \in owed
          PROVE  v \in Contents(remote'.entries) \/ \E m \in Machines : v \in Contents(disk'[m])
      <3>1. CASE v \in Contents(remote.entries)
        BY <1>3, <3>1 DEF Follows, HasAt, Contents
      <3>2. CASE \E m \in Machines : v \in Contents(disk[m])
        <4>1. PICK m \in Machines : v \in Contents(disk[m])
          BY <3>2
        <4>2. CASE m = At[q]
          BY <4>1, <4>2, ProcsAssumption DEF Kept, On, Contents
        <4>3. CASE m # At[q]
          BY <4>1, <4>3 DEF Frame
        <4> QED
          BY <4>2, <4>3
      <3> QED
        BY <3>1, <3>2 DEF LossInv, NothingLost
    <2> QED
      BY <1>2, <2>1 DEF NothingLost
  <1> QED
    BY <1>1, <1>4, <1>5 DEF LossInv

LEMMA Turn ==
    ASSUME RunShape, NEW q \in Procs, NEW next, next = [f \in Fields |-> next[f]],
           run' = [run EXCEPT ![q] = next]
    PROVE  RunShape' /\ run'[q] = next /\ \A x \in Procs : x # q => run'[x] = run[x]
  <1>1. run' = [p \in Procs |-> IF p = q THEN next ELSE run[p]]
    BY DEF RunShape
  <1>2. QED
    BY <1>1 DEF RunShape

(* A step that changes no file, no manifest and no state file.               *)
LEMMA Stays ==
    ASSUME Alone, LossInv, NEW q \in Procs, UNCHANGED <<remote, disk, state, owed, clock>>,
           edits' = [made |-> edits.made, faults |-> edits'.faults],
           RunShape', \A x \in Procs : x # q => run'[x] = run[x],
           \A p \in DOMAIN run'[q].man : Used(p), CallInv(q)'
    PROVE  LossInv'
  <1>1. Frame(q)
    BY DEF Frame, LossInv, Shape
  <1>2. NewPaths(q)
    <2>1. ASSUME NEW p, Used(p)' PROVE Used(p)
      BY <2>1 DEF Used
    <2> QED
      BY <2>1 DEF NewPaths
  <1>3. Kept(q)
    BY DEF Kept, Contents, On
  <1>4. Shape'
    BY DEF LossInv, Shape
  <1>5. RemoteInv' /\ MachineInv(At[q])'
    BY ProcsAssumption DEF LossInv, Shape, RemoteInv, MachineInv, Sound
  <1> QED
    BY <1>1, <1>2, <1>3, <1>4, <1>5, Goes

(* A call that has yet to read, or is over.                                  *)
Blank == {Idle, [Idle EXCEPT !.pc = "rebuild"], [Idle EXCEPT !.call = "lookup", !.pc = "load"],
          [Idle EXCEPT !.call = "sync", !.pc = "get"], [Idle EXCEPT !.call = "index", !.pc = "get"]}

LEMMA SoundEmpty == ASSUME NEW made, NEW now PROVE SoundAt(Empty, made, now)
  BY DEF SoundAt, Empty

LEMMA BlankIs ==
    ASSUME NEW b \in Blank
    PROVE  /\ b = [f \in Fields |-> b[f]] /\ b.pc \in {"idle", "load", "get", "rebuild"}
           /\ b.pc = "idle" => b = Idle
           /\ b.pc = "load" => b.call = "lookup"
           /\ b.man = Empty /\ b.base = Empty /\ b.gen = 0 /\ b.second = 0 /\ b.writes = FALSE
           /\ b.down = {} /\ b.del = {} /\ b.conf = {} /\ b.push = {} /\ b.drop = {}
  <1>1. CASE b = Idle
    BY <1>1 DEF Idle, Fields
  <1>2. CASE b = [Idle EXCEPT !.pc = "rebuild"]
    BY <1>2 DEF Idle, Fields
  <1>3. CASE b = [Idle EXCEPT !.call = "lookup", !.pc = "load"]
    BY <1>3 DEF Idle, Fields
  <1>4. CASE b = [Idle EXCEPT !.call = "sync", !.pc = "get"]
    BY <1>4 DEF Idle, Fields
  <1>5. CASE b = [Idle EXCEPT !.call = "index", !.pc = "get"]
    BY <1>5 DEF Idle, Fields
  <1> QED
    BY <1>1, <1>2, <1>3, <1>4, <1>5 DEF Blank

LEMMA BlankHolds ==
    ASSUME clock' \in Nat, NEW q \in Procs, run'[q] \in Blank
    PROVE  CallInv(q)'
  <1> DEFINE b == run'[q]
  <1>1. /\ b.pc \in {"idle", "load", "get", "rebuild"}
        /\ b.pc = "idle" => b = Idle
        /\ b.pc = "load" => b.call = "lookup"
        /\ b.man = Empty /\ b.base = Empty /\ b.gen = 0 /\ b.second = 0 /\ b.writes = FALSE
        /\ b.down = {} /\ b.del = {} /\ b.conf = {} /\ b.push = {} /\ b.drop = {}
    BY BlankIs
  <1>2. Rests(q)' /\ LooksOnly(q)'
    BY <1>1 DEF Rests, LooksOnly, Syncs
  <1>3. RunSound(q)'
    BY <1>1, SoundEmpty DEF RunSound, Sound
  <1>4. ManInv(q)' /\ PlanInv(q)' /\ ApplyInv(q)' /\ PushInv(q)' /\ CurrentInv(q)'
    BY <1>1 DEF ManInv, PlanInv, ApplyInv, PushInv, CurrentInv
  <1>5. BaseInv(q)'
    BY <1>1, FollowsEmpty DEF BaseInv
  <1>6. DownInv(q)' /\ ConfInv(q)' /\ CopyInv(q)'
    BY <1>1 DEF DownInv, ConfInv, CopyInv
  <1> QED
    BY <1>2, <1>3, <1>4, <1>5, <1>6 DEF CallInv

LEMMA Ends ==
    ASSUME Alone, LossInv, NEW q \in Procs, UNCHANGED <<remote, disk, state, owed, clock>>,
           edits' = [made |-> edits.made, faults |-> edits'.faults],
           NEW next \in Blank, run' = [run EXCEPT ![q] = next]
    PROVE  LossInv'
  <1>1. next = [f \in Fields |-> next[f]] /\ next.man = Empty
    BY BlankIs
  <1>2. RunShape' /\ run'[q] = next /\ \A x \in Procs : x # q => run'[x] = run[x]
    BY <1>1, Turn DEF LossInv, Shape
  <1>3. CallInv(q)'
    BY <1>2, BlankHolds DEF LossInv, Shape
  <1>4. \A p \in DOMAIN run'[q].man : Used(p)
    BY <1>1, <1>2 DEF Empty
  <1> QED
    BY <1>2, <1>3, <1>4, Stays

LEMMA BailIs == ASSUME NEW q, Bail(q) PROVE \E next \in Blank : run' = [run EXCEPT ![q] = next]
  BY DEF Bail, Blank

LEMMA BailLoses ==
    ASSUME Alone, LossInv, NEW q \in Procs, Bail(q), UNCHANGED <<remote, disk, state, owed, clock>>,
           edits' = [made |-> edits.made, faults |-> edits'.faults]
    PROVE  LossInv'
  BY BailIs, Ends

LEMMA StartLoses ==
    ASSUME Alone, LossInv, NEW q \in Procs, NEW call \in Calls[q], Start(q, call)
    PROVE  LossInv'
  <1>1. run[q] = Idle
    BY DEF Start, Running, LossInv, CallInv, Rests
  <1>2. call \in {"sync", "index", "lookup"}
    BY BoundsAssumption
  <1> DEFINE next == [Idle EXCEPT !.call = call, !.pc = IF call = "lookup" THEN "load" ELSE "get"]
  <1>3. next \in Blank
    <2>1. CASE call = "sync"
      BY <2>1 DEF Blank
    <2>2. CASE call = "index"
      BY <2>2 DEF Blank
    <2>3. CASE call = "lookup"
      BY <2>3 DEF Blank
    <2> QED
      BY <1>2, <2>1, <2>2, <2>3
  <1>4. run' = [run EXCEPT ![q] = next]
    BY <1>1 DEF Start
  <1>5. edits' = [made |-> edits.made, faults |-> edits'.faults]
    BY DEF Start, LossInv, Shape
  <1> HIDE DEF next
  <1> QED
    BY <1>3, <1>4, <1>5, Ends DEF Start

LEMMA LoadStateLoses == ASSUME Alone, LossInv, NEW q \in Procs, LoadState(q) PROVE LossInv'
  <1>0. UNCHANGED <<remote, disk, state, owed, clock>>
        /\ edits' = [made |-> edits.made, faults |-> edits'.faults]
    BY DEF LoadState, LossInv, Shape
  <1>1. CASE Bail(q)
    BY <1>0, <1>1, BailLoses
  <1>2. CASE run' = [run EXCEPT ![q].pc = "get", ![q].gen = state[At[q]].gen,
                                ![q].base = state[At[q]].base]
    <2> DEFINE next == [run[q] EXCEPT !.pc = "get", !.gen = state[At[q]].gen,
                                      !.base = state[At[q]].base]
    <2>0. run[q] = [f \in Fields |-> run[q][f]]
      BY DEF LossInv, Shape, RunShape
    <2>1. next = [f \in Fields |-> next[f]]
      BY <2>0 DEF Fields
    <2>2. run' = [run EXCEPT ![q] = next]
      BY <1>2
    <2>3. /\ next.pc = "get" /\ next.call = run[q].call /\ next.gen = state[At[q]].gen
          /\ next.man = run[q].man /\ next.base = state[At[q]].base
          /\ next.down = run[q].down /\ next.del = run[q].del /\ next.conf = run[q].conf
          /\ next.push = run[q].push /\ next.drop = run[q].drop
          /\ next.writes = run[q].writes /\ next.second = run[q].second
      BY <2>0 DEF Fields
    <2> HIDE DEF next
    <2>4. RunShape' /\ run'[q] = next /\ \A x \in Procs : x # q => run'[x] = run[x]
      BY <2>1, <2>2, Turn DEF LossInv, Shape
    <2>5. CallInv(q) /\ run[q].pc = "load" /\ ~Syncs(q) /\ MachineInv(At[q])
      BY ProcsAssumption DEF LossInv, CallInv, Rests, LoadState, Running
    <2>6. CallInv(q)'
      <3>1. Rests(q)' /\ LooksOnly(q)'
        BY <2>3, <2>4, <2>5 DEF CallInv, Rests, LooksOnly, Syncs
      <3>2. RunSound(q)' /\ BaseInv(q)'
        BY <1>0, <2>3, <2>4, <2>5 DEF CallInv, RunSound, BaseInv, MachineInv, Sound, On
      <3>3. ManInv(q)' /\ PlanInv(q)' /\ ApplyInv(q)' /\ PushInv(q)' /\ CurrentInv(q)'
        BY <2>3, <2>4 DEF ManInv, PlanInv, ApplyInv, PushInv, CurrentInv
      <3>4. DownInv(q)' /\ ConfInv(q)' /\ CopyInv(q)'
        BY <1>0, <2>3, <2>4, <2>5 DEF CallInv, LooksOnly, Rests, DownInv, ConfInv, CopyInv
      <3> QED
        BY <3>1, <3>2, <3>3, <3>4 DEF CallInv
    <2>7. \A p \in DOMAIN run'[q].man : Used(p)
      BY <2>3, <2>4 DEF Used
    <2> QED
      BY <1>0, <2>4, <2>6, <2>7, Stays
  <1>3. QED
    BY <1>1, <1>2 DEF LoadState

LEMMA GetManifestLoses == ASSUME Alone, LossInv, NEW q \in Procs, GetManifest(q) PROVE LossInv'
  <1>0. UNCHANGED <<remote, disk, state, owed, clock>>
        /\ edits' = [made |-> edits.made, faults |-> edits'.faults]
    BY DEF GetManifest, LossInv, Shape
  <1> DEFINE pc == IF ~Syncs(q) /\ run[q].gen = remote.gen /\ remote.gen # 0
                   THEN "unmodified" ELSE "plan"
             next == [run[q] EXCEPT !.gen = remote.gen, !.man = remote.entries, !.pc = pc]
  <1>1. run' = [run EXCEPT ![q] = next]
    BY DEF GetManifest
  <1>2. pc \in {"unmodified", "plan"} /\ (pc = "unmodified" => ~Syncs(q))
    OBVIOUS
  <1> HIDE DEF pc
  <1>3. run[q] = [f \in Fields |-> run[q][f]]
    BY DEF LossInv, Shape, RunShape
  <1>4. next = [f \in Fields |-> next[f]]
    BY <1>3 DEF Fields
  <1>5. /\ next.pc = pc /\ next.call = run[q].call /\ next.gen = remote.gen
        /\ next.man = remote.entries /\ next.base = run[q].base
        /\ next.down = run[q].down /\ next.del = run[q].del /\ next.conf = run[q].conf
        /\ next.push = run[q].push /\ next.drop = run[q].drop
        /\ next.writes = run[q].writes /\ next.second = run[q].second
    BY <1>3 DEF Fields
  <1> HIDE DEF next
  <1>6. RunShape' /\ run'[q] = next /\ \A x \in Procs : x # q => run'[x] = run[x]
    BY <1>1, <1>4, Turn DEF LossInv, Shape
  <1>7. CallInv(q) /\ run[q].pc = "get" /\ MachineInv(At[q]) /\ RemoteInv /\ remote.gen \in Nat
    BY ProcsAssumption DEF LossInv, Shape, GetManifest, Running
  <1>8. CallInv(q)'
    <2>1. Rests(q)' /\ LooksOnly(q)'
      BY <1>2, <1>5, <1>6, <1>7 DEF CallInv, Rests, LooksOnly, Syncs
    <2>2. RunSound(q)' /\ BaseInv(q)'
      BY <1>0, <1>5, <1>6, <1>7 DEF CallInv, RunSound, BaseInv, Sound, RemoteInv, On
    <2>3. ManInv(q)' /\ CurrentInv(q)'
      BY <1>0, <1>5, <1>6, FollowsItself DEF ManInv, CurrentInv
    <2>4. PlanInv(q)'
      BY <1>0, <1>5, <1>6, <1>7 DEF PlanInv, CallInv, BaseInv, MachineInv
    <2>5. ApplyInv(q)' /\ PushInv(q)'
      BY <1>2, <1>5, <1>6 DEF ApplyInv, PushInv
    <2>6. DownInv(q)' /\ ConfInv(q)' /\ CopyInv(q)'
      BY <1>0, <1>5, <1>6, <1>7 DEF CallInv, Rests, DownInv, ConfInv, CopyInv
    <2> QED
      BY <2>1, <2>2, <2>3, <2>4, <2>5, <2>6 DEF CallInv
  <1>9. \A p \in DOMAIN run'[q].man : Used(p)
    BY <1>5, <1>6 DEF Used
  <1> QED
    BY <1>0, <1>6, <1>8, <1>9, Stays

LEMMA ShapeOf ==
    ASSUME LossInv, NEW q \in Procs
    PROVE  /\ run[q] = [f \in Fields |-> run[q][f]] /\ RunShape
           /\ CallInv(q) /\ MachineInv(At[q]) /\ RemoteInv /\ At[q] \in Machines
           /\ remote.gen \in Nat /\ clock \in Nat /\ edits.made \in Nat
  BY ProcsAssumption DEF LossInv, Shape, RunShape

LEMMA PlanOfSyncLoses == ASSUME Alone, LossInv, NEW q \in Procs, PlanOfSync(q) PROVE LossInv'
  <1>0. UNCHANGED <<remote, disk, state, owed, clock>>
        /\ edits' = [made |-> edits.made, faults |-> edits'.faults]
    BY DEF PlanOfSync, LossInv, Shape
  <1>1. CASE ~state[At[q]].whole
    BY <1>0, <1>1, BailLoses DEF PlanOfSync
  <1>2. CASE state[At[q]].whole
    <2> DEFINE plan == PlanSync(state[At[q]].base, On(q), run[q].man)
               down == plan.pulls \union plan.resurrect_pulls
               out == plan.pushes \union plan.delete_remote
               writes == out # {}
               next == [run[q] EXCEPT !.pc = "apply", !.down = down, !.del = plan.delete_local,
                                      !.conf = plan.conflicts, !.push = plan.pushes,
                                      !.drop = plan.delete_remote, !.writes = writes]
    <2>1. run' = [run EXCEPT ![q] = next]
      BY <1>2, ZenonT(30) DEF PlanOfSync
    <2>2. /\ down \union plan.conflicts \union plan.delete_remote \subseteq DOMAIN run[q].man
          /\ down \intersect plan.delete_local = {} /\ down \intersect plan.conflicts = {}
          /\ plan.pushes \intersect plan.delete_remote = {}
          /\ \A p \in (down \union plan.delete_local) \intersect DOMAIN On(q) :
               HasAt(state[At[q]].base, p, On(q)[p]) /\ ~HasAt(run[q].man, p, On(q)[p])
          /\ \A p \in out \intersect DOMAIN run[q].man :
               HasAt(state[At[q]].base, p, run[q].man[p]) /\ ~HasAt(On(q), p, run[q].man[p])
          /\ \A p \in plan.conflicts : p \in DOMAIN On(q) => ~HasAt(state[At[q]].base, p, On(q)[p])
          /\ \A p \in DOMAIN run[q].man : \/ HasAt(On(q), p, run[q].man[p])
                                          \/ p \in down \union plan.conflicts \union out
      BY PlanFacts
    <2> HIDE DEF plan
    <2>3. run[q] = [f \in Fields |-> run[q][f]] /\ RunShape
      BY ShapeOf
    <2> HIDE DEF down, writes
    <2>4. next = [f \in Fields |-> next[f]]
      BY <2>3 DEF Fields
    <2>5. /\ next.pc = "apply" /\ next.call = run[q].call /\ next.gen = run[q].gen
          /\ next.man = run[q].man /\ next.base = run[q].base
          /\ next.down = down /\ next.del = plan.delete_local /\ next.conf = plan.conflicts
          /\ next.push = plan.pushes /\ next.drop = plan.delete_remote
          /\ next.writes = writes /\ next.second = run[q].second
      BY <2>3 DEF Fields
    <2>6. writes = FALSE => plan.pushes = {} /\ plan.delete_remote = {}
      BY DEF writes
    <2> HIDE DEF next, out
    <2>7. RunShape' /\ run'[q] = next /\ \A x \in Procs : x # q => run'[x] = run[x]
      BY <2>1, <2>3, <2>4, Turn
    <2>8. CallInv(q) /\ MachineInv(At[q]) /\ run[q].pc = "plan" /\ Syncs(q)
      BY ShapeOf DEF PlanOfSync, Running
    <2>9. On(q)' = On(q)
      BY <1>0 DEF On
    <2>10. CallInv(q)'
      <3>1. Rests(q)' /\ LooksOnly(q)'
        BY <2>5, <2>7, <2>8 DEF CallInv, Rests, LooksOnly, Syncs
      <3>2. RunSound(q)' /\ BaseInv(q)' /\ ManInv(q)'
        BY <1>0, <2>5, <2>7, <2>8, <2>9 DEF CallInv, RunSound, BaseInv, ManInv, Sound
      <3>3. PlanInv(q)' /\ CurrentInv(q)'
        BY <1>0, <2>5, <2>7, <2>8 DEF CallInv, PlanInv, CurrentInv
      <3>4. \A p \in out : p \in DOMAIN run[q].man => run[q].man[p] \notin owed
        BY <2>2, <2>8, <2>9 DEF MachineInv, Follows, HasAt, On
      <3>5. ApplyInv(q)'
        BY <1>0, <2>2, <2>5, <2>7, <2>9, <3>4 DEF ApplyInv
      <3>6. PushInv(q)'
        BY <1>0, <2>2, <2>5, <2>6, <2>7, <3>4 DEF PushInv, out
      <3>7. \A p \in down \union plan.delete_local : p \in DOMAIN On(q) => On(q)[p] \notin owed
        BY <2>2, <2>8 DEF CallInv, PlanInv, Follows, HasAt
      <3>8. DownInv(q)' /\ ConfInv(q)'
        BY <1>0, <2>2, <2>5, <2>7, <2>9, <3>7 DEF DownInv, ConfInv
      <3>9. CopyInv(q)'
        BY <1>0, <2>5, <2>7, <2>8 DEF CallInv, Rests, CopyInv
      <3> QED
        BY <3>1, <3>2, <3>3, <3>5, <3>6, <3>8, <3>9 DEF CallInv
    <2>11. \A p \in DOMAIN run'[q].man : Used(p)
      BY <2>5, <2>7 DEF Used
    <2> QED
      BY <1>0, <2>7, <2>10, <2>11, Stays
  <1>3. QED
    BY <1>1, <1>2

LEMMA PlanOfLookupLoses == ASSUME Alone, LossInv, NEW q \in Procs, PlanOfLookup(q) PROVE LossInv'
  <1>0. UNCHANGED <<remote, disk, state, owed, clock>>
        /\ edits' = [made |-> edits.made, faults |-> edits'.faults]
    BY DEF PlanOfLookup, LossInv, Shape
  <1> DEFINE plan == PlanSync(run[q].base, On(q), run[q].man)
             here == plan.agreed \intersect DOMAIN On(q)
             base == [p \in (DOMAIN run[q].base \ plan.agreed) \union here
                        |-> IF p \in here THEN On(q)[p] ELSE run[q].base[p]]
             next == [run[q] EXCEPT !.pc = "apply", !.base = base, !.down = plan.pulls,
                                    !.del = plan.delete_local]
  <1>1. run' = [run EXCEPT ![q] = next]
    BY DEF PlanOfLookup
  <1>2. /\ plan.pulls \subseteq DOMAIN run[q].man /\ plan.pulls \intersect plan.delete_local = {}
        /\ \A p \in (plan.pulls \union plan.delete_local) \intersect DOMAIN On(q) :
             HasAt(run[q].base, p, On(q)[p]) /\ ~HasAt(run[q].man, p, On(q)[p])
        /\ \A p \in here : HasAt(run[q].man, p, On(q)[p])
    BY PlanFacts
  <1> HIDE DEF plan
  <1>3. \A p \in DOMAIN base : \/ p \in here /\ base[p] = On(q)[p]
                               \/ p \in DOMAIN run[q].base /\ base[p] = run[q].base[p]
    OBVIOUS
  <1>4. run[q] = [f \in Fields |-> run[q][f]] /\ RunShape
    BY ShapeOf
  <1> HIDE DEF base
  <1>5. next = [f \in Fields |-> next[f]]
    BY <1>4 DEF Fields
  <1>6. /\ next.pc = "apply" /\ next.call = run[q].call /\ next.gen = run[q].gen
        /\ next.man = run[q].man /\ next.base = base
        /\ next.down = plan.pulls /\ next.del = plan.delete_local /\ next.conf = run[q].conf
        /\ next.push = run[q].push /\ next.drop = run[q].drop
        /\ next.writes = run[q].writes /\ next.second = run[q].second
    BY <1>4 DEF Fields
  <1> HIDE DEF next
  <1>7. RunShape' /\ run'[q] = next /\ \A x \in Procs : x # q => run'[x] = run[x]
    BY <1>1, <1>4, <1>5, Turn
  <1>8. CallInv(q) /\ MachineInv(At[q]) /\ run[q].pc = "plan" /\ ~Syncs(q)
    BY ShapeOf DEF PlanOfLookup, Running
  <1>9. On(q)' = On(q)
    BY <1>0 DEF On
  <1>10. CallInv(q)'
    <2>1. Rests(q)' /\ LooksOnly(q)'
      BY <1>6, <1>7, <1>8 DEF CallInv, Rests, LooksOnly, Syncs
    <2>2. Follows(owed, run[q].man, remote.entries)
      BY <1>8 DEF CallInv, ManInv
    <2>3. Sound(base)
      BY <1>3, <1>8 DEF CallInv, RunSound, MachineInv, Sound, SoundAt, On
    <2>4. Follows(owed, base, remote.entries) /\ Follows(owed, base, On(q))
      BY <1>2, <1>3, <1>8, <2>2 DEF CallInv, BaseInv, Follows, HasAt
    <2>5. RunSound(q)' /\ BaseInv(q)' /\ ManInv(q)'
      BY <1>0, <1>6, <1>7, <1>8, <1>9, <2>2, <2>3, <2>4 DEF CallInv, RunSound, BaseInv, ManInv, Sound
    <2>6. PlanInv(q)' /\ CurrentInv(q)'
      BY <1>0, <1>6, <1>7, <1>8 DEF CallInv, PlanInv, CurrentInv
    <2>7. ApplyInv(q)' /\ PushInv(q)'
      BY <1>6, <1>7, <1>8 DEF ApplyInv, PushInv, CallInv, LooksOnly, Syncs
    <2>8. \A p \in plan.pulls \union plan.delete_local : p \in DOMAIN On(q) => On(q)[p] \notin owed
      BY <1>2, <1>8 DEF CallInv, PlanInv, Follows, HasAt
    <2>9. DownInv(q)' /\ ConfInv(q)'
      BY <1>0, <1>2, <1>6, <1>7, <1>8, <1>9, <2>8 DEF CallInv, LooksOnly, DownInv, ConfInv
    <2>10. CopyInv(q)'
      BY <1>0, <1>6, <1>7, <1>8 DEF CallInv, Rests, CopyInv
    <2> QED
      BY <2>1, <2>5, <2>6, <2>7, <2>9, <2>10 DEF CallInv
  <1>11. \A p \in DOMAIN run'[q].man : Used(p)
    BY <1>6, <1>7 DEF Used
  <1> QED
    BY <1>0, <1>7, <1>10, <1>11, Stays

(* The files of one machine change.                                          *)
LEMMA DiskIs ==
    ASSUME LossInv, NEW m \in Machines, NEW files, disk' = [disk EXCEPT ![m] = files]
    PROVE  /\ disk' = [n \in Machines |-> disk'[n]] /\ disk'[m] = files
           /\ \A n \in Machines : n # m => disk'[n] = disk[n]
  <1>1. disk = [n \in Machines |-> disk[n]]
    BY DEF LossInv, Shape
  <1>2. disk' = [n \in Machines |-> IF n = m THEN files ELSE disk[n]]
    BY <1>1
  <1> QED
    BY <1>2

LEMMA DownloadLoses == ASSUME Alone, LossInv, NEW q \in Procs, NEW p, Download(q, p) PROVE LossInv'
  <1> DEFINE v == run[q].man[p]
             files == With(On(q), p, v)
             base == IF Syncs(q) THEN run[q].base ELSE With(run[q].base, p, v)
             next == [run[q] EXCEPT !.down = run[q].down \ {p}, !.changed = TRUE, !.base = base]
  <1>0. edits' = [made |-> edits.made, faults |-> edits'.faults]
        /\ UNCHANGED <<remote, state, edits, owed, clock>>
    BY DEF Download, LossInv, Shape
  <1>1. CASE <<p, v>> \notin objects
    BY <1>0, <1>1, BailLoses DEF Download
  <1>2. CASE <<p, v>> \in objects
    <2>1. run' = [run EXCEPT ![q] = next] /\ disk' = [disk EXCEPT ![At[q]] = files]
      BY <1>2 DEF Download, SetDisk
    <2>2. /\ DOMAIN files = DOMAIN On(q) \union {p} /\ files[p] = v
          /\ \A x \in DOMAIN On(q) : x # p => files[x] = On(q)[x]
      BY DEF With
    <2>3. \/ Syncs(q) /\ base = run[q].base
          \/ /\ ~Syncs(q) /\ DOMAIN base = DOMAIN run[q].base \union {p} /\ base[p] = v
             /\ \A x \in DOMAIN run[q].base : x # p => base[x] = run[q].base[x]
      BY DEF With
    <2> HIDE DEF files, base, v
    <2>4. /\ run[q] = [f \in Fields |-> run[q][f]] /\ RunShape
          /\ CallInv(q) /\ MachineInv(At[q]) /\ RemoteInv /\ At[q] \in Machines
          /\ remote.gen \in Nat /\ clock \in Nat /\ edits.made \in Nat
          /\ run[q].pc = "apply" /\ p \in run[q].down
      BY ShapeOf DEF Download, Running
    <2>5. next = [f \in Fields |-> next[f]]
      BY <2>4 DEF Fields
    <2>6. /\ next.pc = run[q].pc /\ next.call = run[q].call /\ next.gen = run[q].gen
          /\ next.man = run[q].man /\ next.base = base
          /\ next.down = run[q].down \ {p} /\ next.del = run[q].del /\ next.conf = run[q].conf
          /\ next.push = run[q].push /\ next.drop = run[q].drop
          /\ next.writes = run[q].writes /\ next.second = run[q].second
      BY <2>4 DEF Fields
    <2> HIDE DEF next
    <2>7. RunShape' /\ run'[q] = next /\ \A x \in Procs : x # q => run'[x] = run[x]
      BY <2>1, <2>4, <2>5, Turn
    <2>8. /\ disk' = [n \in Machines |-> disk'[n]] /\ disk'[At[q]] = files /\ On(q)' = files
          /\ \A n \in Machines : n # At[q] => disk'[n] = disk[n]
      BY <2>1, <2>4, DiskIs DEF On
    <2>9. /\ p \in DOMAIN run[q].man /\ (p \in DOMAIN On(q) => On(q)[p] \notin owed)
          /\ p \notin run[q].del /\ p \notin run[q].conf /\ p \notin run[q].down \ {p}
      BY <2>4 DEF CallInv, DownInv
    <2>10. v \in 0..edits.made /\ Old(p)
      BY <2>4, <2>9 DEF CallInv, RunSound, Sound, SoundAt, Old, v
    <2>11. Frame(q)
      BY <1>0, <2>4, <2>7, <2>8 DEF Frame
    <2>12. \A x : Used(x)' => Used(x)
      <3>1. ASSUME NEW x, NEW m \in Machines, x \in DOMAIN disk'[m] PROVE Used(x)
        BY <2>2, <2>8, <2>9, <3>1 DEF Used, On
      <3>2. ASSUME NEW x, NEW y \in Procs, x \in DOMAIN run'[y].man PROVE Used(x)
        BY <2>6, <2>7, <3>2 DEF Used
      <3> QED
        BY <1>0, <3>1, <3>2 DEF Used
    <2>13. Kept(q)
      BY <2>2, <2>8, <2>9 DEF Kept, Contents
    <2>14. Shape'
      BY <1>0, <2>7, <2>8 DEF LossInv, Shape
    <2>15. MachineInv(At[q])'
      <3>1. Sound(files)
        BY <2>2, <2>4, <2>10 DEF MachineInv, Sound, SoundAt, On, Old
      <3>2. Follows(owed, state[At[q]].base, files)
        BY <2>2, <2>4, <2>9 DEF MachineInv, Follows, HasAt, On
      <3> QED
        BY <1>0, <2>4, <2>8, <3>1, <3>2 DEF MachineInv, Sound
    <2>16. CallInv(q)'
      <3>1. Rests(q)' /\ LooksOnly(q)'
        BY <2>3, <2>4, <2>6, <2>7 DEF CallInv, Rests, LooksOnly, Syncs
      <3>2. Sound(base)
        BY <2>3, <2>4, <2>10 DEF CallInv, RunSound, Sound, SoundAt, Old
      <3>3. RunSound(q)' /\ ManInv(q)'
        BY <1>0, <2>4, <2>6, <2>7, <3>2 DEF CallInv, RunSound, ManInv, Sound
      <3>4. Follows(owed, base, remote.entries) /\ Follows(owed, base, files)
        <4>1. CASE Syncs(q)
          BY <2>3, <2>4, <4>1, FollowsEmpty DEF CallInv, LooksOnly
        <4>2. CASE ~Syncs(q)
          <5>1. v \in owed => HasAt(remote.entries, p, v)
            BY <2>4, <2>9, <4>2 DEF CallInv, LooksOnly, ManInv, Follows, v
          <5> QED
            BY <2>2, <2>3, <2>4, <4>2, <5>1 DEF CallInv, BaseInv, Follows, HasAt
        <4> QED
          BY <4>1, <4>2
      <3>5. BaseInv(q)'
        BY <1>0, <2>6, <2>7, <2>8, <3>4 DEF BaseInv
      <3>6. PlanInv(q)' /\ PushInv(q)' /\ CurrentInv(q)'
        BY <1>0, <2>4, <2>6, <2>7 DEF CallInv, PlanInv, PushInv, CurrentInv
      <3>7. ApplyInv(q)'
        <4>1. ASSUME Syncs(q), NEW x \in DOMAIN run[q].man, run[q].man[x] \in owed
              PROVE  HasAt(files, x, run[q].man[x]) \/ x \in next.down \union next.conf
          <5>1. CASE x = p
            BY <2>2, <5>1 DEF HasAt, v
          <5>2. CASE x # p
            BY <2>2, <2>4, <2>6, <4>1, <5>2 DEF CallInv, ApplyInv, HasAt
          <5> QED
            BY <5>1, <5>2
        <4> QED
          BY <1>0, <2>4, <2>6, <2>7, <2>8, <4>1 DEF ApplyInv, Syncs
      <3>8. DownInv(q)'
        <4>1. ASSUME NEW x \in next.down \union next.del, x \in DOMAIN files PROVE files[x] \notin owed
          BY <2>2, <2>4, <2>6, <2>9, <4>1 DEF CallInv, DownInv
        <4> QED
          BY <1>0, <2>4, <2>6, <2>7, <2>8, <4>1 DEF CallInv, DownInv
      <3>9. ConfInv(q)'
        <4>1. ASSUME NEW x \in run[q].conf, x \in DOMAIN files
              PROVE  x \in DOMAIN On(q) /\ files[x] = On(q)[x]
          BY <2>2, <2>9, <4>1
        <4> QED
          BY <1>0, <2>4, <2>6, <2>7, <2>8, <4>1 DEF CallInv, ConfInv
      <3>10. CopyInv(q)'
        BY <1>0, <2>4, <2>6, <2>7, <2>12 DEF CallInv, CopyInv
      <3> QED
        BY <3>1, <3>3, <3>5, <3>6, <3>7, <3>8, <3>9, <3>10 DEF CallInv
    <2>17. NewPaths(q) /\ RemoteInv'
      BY <1>0, <2>4, <2>12 DEF NewPaths, RemoteInv, Sound
    <2> QED
      BY <2>11, <2>13, <2>14, <2>15, <2>16, <2>17, Goes
  <1>3. QED
    BY <1>1, <1>2

LEMMA DeleteLocalLoses ==
    ASSUME Alone, LossInv, NEW q \in Procs, NEW p, DeleteLocal(q, p) PROVE LossInv'
  <1> DEFINE files == Without(On(q), {p})
             base == IF Syncs(q) THEN run[q].base ELSE Without(run[q].base, {p})
             next == [run[q] EXCEPT !.del = run[q].del \ {p}, !.changed = TRUE, !.base = base]
  <1>0. edits' = [made |-> edits.made, faults |-> edits'.faults]
        /\ UNCHANGED <<remote, state, edits, owed, clock>>
    BY DEF DeleteLocal, LossInv, Shape
  <1>1. run' = [run EXCEPT ![q] = next] /\ disk' = [disk EXCEPT ![At[q]] = files]
    BY DEF DeleteLocal, SetDisk
  <1>2. /\ DOMAIN files = DOMAIN On(q) \ {p}
        /\ \A x \in DOMAIN files : files[x] = On(q)[x]
    BY DEF Without
  <1>3. /\ Syncs(q) => base = run[q].base
        /\ \A x \in DOMAIN base : x \in DOMAIN run[q].base /\ base[x] = run[q].base[x]
                                  /\ (x = p => Syncs(q))
    BY DEF Without
  <1> HIDE DEF files, base
  <1>4. /\ run[q] = [f \in Fields |-> run[q][f]] /\ RunShape
        /\ CallInv(q) /\ MachineInv(At[q]) /\ RemoteInv /\ At[q] \in Machines
        /\ remote.gen \in Nat /\ clock \in Nat /\ edits.made \in Nat
        /\ run[q].pc = "apply" /\ p \in run[q].del
    BY ShapeOf DEF DeleteLocal, Running
  <1>5. next = [f \in Fields |-> next[f]]
    BY <1>4 DEF Fields
  <1>6. /\ next.pc = run[q].pc /\ next.call = run[q].call /\ next.gen = run[q].gen
        /\ next.man = run[q].man /\ next.base = base
        /\ next.down = run[q].down /\ next.del = run[q].del \ {p} /\ next.conf = run[q].conf
        /\ next.push = run[q].push /\ next.drop = run[q].drop
        /\ next.writes = run[q].writes /\ next.second = run[q].second
    BY <1>4 DEF Fields
  <1> HIDE DEF next
  <1>7. RunShape' /\ run'[q] = next /\ \A x \in Procs : x # q => run'[x] = run[x]
    BY <1>1, <1>4, <1>5, Turn
  <1>8. /\ disk' = [n \in Machines |-> disk'[n]] /\ disk'[At[q]] = files /\ On(q)' = files
        /\ \A n \in Machines : n # At[q] => disk'[n] = disk[n]
    BY <1>1, <1>4, DiskIs DEF On
  <1>9. p \in DOMAIN On(q) => On(q)[p] \notin owed
    BY <1>4 DEF CallInv, DownInv
  <1>10. Frame(q)
    BY <1>0, <1>4, <1>7, <1>8 DEF Frame
  <1>11. \A x : Used(x)' => Used(x)
    <2>1. ASSUME NEW x, NEW m \in Machines, x \in DOMAIN disk'[m] PROVE Used(x)
      BY <1>2, <1>8, <2>1 DEF Used, On
    <2>2. ASSUME NEW x, NEW y \in Procs, x \in DOMAIN run'[y].man PROVE Used(x)
      BY <1>6, <1>7, <2>2 DEF Used
    <2> QED
      BY <1>0, <2>1, <2>2 DEF Used
  <1>12. Kept(q)
    BY <1>2, <1>8, <1>9 DEF Kept, Contents
  <1>13. Shape'
    BY <1>0, <1>7, <1>8 DEF LossInv, Shape
  <1>14. \A o : o = owed => \A f : Follows(o, f, On(q)) => Follows(o, f, files)
    BY <1>2, <1>9 DEF Follows, HasAt
  <1>15. MachineInv(At[q])'
    <2>1. Sound(files)
      BY <1>2, <1>4 DEF MachineInv, Sound, SoundAt, On
    <2>2. Follows(owed, state[At[q]].base, files)
      BY <1>4, <1>14 DEF MachineInv, On
    <2> QED
      BY <1>0, <1>4, <1>8, <2>1, <2>2 DEF MachineInv, Sound
  <1>16. CallInv(q)'
    <2>1. Rests(q)' /\ LooksOnly(q)'
      BY <1>3, <1>4, <1>6, <1>7 DEF CallInv, Rests, LooksOnly, Syncs
    <2>2. Sound(base)
      BY <1>3, <1>4 DEF CallInv, RunSound, Sound, SoundAt
    <2>3. RunSound(q)' /\ ManInv(q)'
      BY <1>0, <1>4, <1>6, <1>7, <2>2 DEF CallInv, RunSound, ManInv, Sound
    <2>4. Follows(owed, base, remote.entries) /\ Follows(owed, base, files)
      BY <1>3, <1>4, <1>14 DEF CallInv, BaseInv, Follows, HasAt
    <2>5. BaseInv(q)'
      BY <1>0, <1>6, <1>7, <1>8, <2>4 DEF BaseInv
    <2>6. PlanInv(q)' /\ PushInv(q)' /\ CurrentInv(q)'
      BY <1>0, <1>4, <1>6, <1>7 DEF CallInv, PlanInv, PushInv, CurrentInv
    <2>7. ApplyInv(q)'
      <3>1. ASSUME Syncs(q), NEW x \in DOMAIN run[q].man, run[q].man[x] \in owed
            PROVE  HasAt(files, x, run[q].man[x]) \/ x \in next.down \union next.conf
        BY <1>2, <1>4, <1>6, <1>9, <3>1 DEF CallInv, ApplyInv, HasAt
      <3> QED
        BY <1>0, <1>4, <1>6, <1>7, <1>8, <3>1 DEF ApplyInv, Syncs
    <2>8. DownInv(q)'
      <3>1. ASSUME NEW x \in next.down \union next.del, x \in DOMAIN files PROVE files[x] \notin owed
        BY <1>2, <1>4, <1>6, <3>1 DEF CallInv, DownInv
      <3> QED
        BY <1>0, <1>4, <1>6, <1>7, <1>8, <3>1 DEF CallInv, DownInv
    <2>9. ConfInv(q)'
      BY <1>0, <1>2, <1>4, <1>6, <1>7, <1>8 DEF CallInv, ConfInv
    <2>10. CopyInv(q)'
      BY <1>0, <1>4, <1>6, <1>7, <1>11 DEF CallInv, CopyInv
    <2> QED
      BY <2>1, <2>3, <2>5, <2>6, <2>7, <2>8, <2>9, <2>10 DEF CallInv
  <1>17. NewPaths(q) /\ RemoteInv'
    BY <1>0, <1>4, <1>11 DEF NewPaths, RemoteInv, Sound
  <1> QED
    BY <1>10, <1>12, <1>13, <1>15, <1>16, <1>17, Goes

(* A conflict copy of a second that is still to come, or of one in which no   *)
(* other was made of that path, has a name that nothing has.                 *)
LEMMA CopyIsNew ==
    ASSUME LossInv, NEW q \in Procs, NEW p \in run[q].conf, NEW second,
           second = (IF run[q].second = 0 THEN clock + 1 ELSE run[q].second)
    PROVE  /\ second \in Nat /\ p \in Seq(Parts) /\ CopyOf(p, At[q], second) \in Seq(Parts)
           /\ ~Used(CopyOf(p, At[q], second))
  <1>1. CallInv(q) /\ At[q] \in Machines /\ clock \in Nat
    BY ShapeOf
  <1>2. second \in Nat
    BY <1>1 DEF CallInv, CopyInv
  <1>3. p \in Seq(Parts)
    BY <1>1 DEF CallInv, DownInv, RunSound, Sound, SoundAt, OldAt
  <1>4. /\ CopyOf(p, At[q], second) \in Seq(Parts)
        /\ OldAt(CopyOf(p, At[q], second), clock) => second \in 0..clock
    BY <1>1, <1>2, <1>3, CopyOld
  <1>5. CASE run[q].second # 0
    BY <1>1, <1>2, <1>3, <1>4, <1>5 DEF CallInv, CopyInv
  <1>6. CASE run[q].second = 0
    <2>1. ASSUME NEW c, c = CopyOf(p, At[q], second), Used(c) PROVE FALSE
      <3>1. OldAt(c, clock)
        <4>1. ASSUME NEW m \in Machines, c \in DOMAIN disk[m] PROVE OldAt(c, clock)
          BY <4>1 DEF LossInv, MachineInv, Sound, SoundAt
        <4>2. ASSUME c \in DOMAIN remote.entries PROVE OldAt(c, clock)
          BY <4>2 DEF LossInv, RemoteInv, Sound, SoundAt
        <4>3. ASSUME NEW x \in Procs, c \in DOMAIN run[x].man PROVE OldAt(c, clock)
          BY <4>3 DEF LossInv, CallInv, RunSound, Sound, SoundAt
        <4> QED
          BY <2>1, <4>1, <4>2, <4>3 DEF Used
      <3>2. second \in 0..clock
        BY <1>4, <2>1, <3>1
      <3> QED
        BY <1>1, <1>6, <3>2
    <2> QED
      BY <1>2, <1>3, <1>4, <2>1
  <1> QED
    BY <1>5, <1>6

LEMMA SetAsideLoses ==
    ASSUME Alone, LossInv, NEW q \in Procs, NEW p, SetAside(q, p) PROVE LossInv'
  <1>0. edits' = [made |-> edits.made, faults |-> edits'.faults]
        /\ UNCHANGED <<remote, state, edits, owed>>
    BY DEF SetAside, LossInv, Shape
  <1>1. CASE p \notin DOMAIN On(q)
    BY <1>0, <1>1, BailLoses DEF SetAside
  <1>2. CASE p \in DOMAIN On(q)
    <2> DEFINE second == IF run[q].second = 0 THEN clock + 1 ELSE run[q].second
               copy == CopyOf(p, At[q], second)
               files == With(Without(On(q), {p}), copy, On(q)[p])
               push == run[q].push \union {copy}
               next == [run[q] EXCEPT !.conf = run[q].conf \ {p}, !.down = {p}, !.second = second,
                                      !.push = push, !.writes = TRUE, !.changed = TRUE]
    <2>1. /\ run' = [run EXCEPT ![q] = next] /\ disk' = [disk EXCEPT ![At[q]] = files]
          /\ clock' = IF run[q].second = 0 THEN second ELSE clock
      BY <1>2 DEF SetAside, SetDisk
    <2>2. /\ p \in run[q].conf /\ run[q].pc = "apply" /\ run[q].down = {} /\ run[q].del = {}
      BY DEF SetAside, Running, Downloaded
    <2>3. /\ run[q] = [f \in Fields |-> run[q][f]] /\ RunShape
          /\ CallInv(q) /\ MachineInv(At[q]) /\ RemoteInv /\ At[q] \in Machines
          /\ remote.gen \in Nat /\ clock \in Nat /\ edits.made \in Nat
      BY ShapeOf
    <2>4. second \in Nat /\ p \in Seq(Parts) /\ copy \in Seq(Parts) /\ ~Used(copy)
      BY <2>2, CopyIsNew
    <2>5. second \in 1..clock' /\ clock' \in Nat /\ clock <= clock' /\ (run[q].second = 0 => second > clock)
      BY <2>1, <2>3, <2>4 DEF CallInv, CopyInv
    <2>6. OldAt(copy, clock')
      <3>1. OldAt(CopyOf(p, At[q], second), clock') <=> second \in 0..clock'
        BY <2>3, <2>4, CopyOld
      <3> QED
        BY <2>5, <3>1
    <2>7. /\ DOMAIN files = (DOMAIN On(q) \ {p}) \union {copy} /\ files[copy] = On(q)[p]
          /\ \A x \in DOMAIN On(q) : x # p /\ x # copy => files[x] = On(q)[x]
      BY DEF With, Without
    <2>8. \A x \in run[q].conf : x # p => CopyOf(x, At[q], second) # copy
      <3>1. ASSUME NEW x \in run[q].conf, CopyOf(x, At[q], second) = copy PROVE x = p
        <4>1. x \in Seq(Parts)
          BY <2>4, CopyIsNew
        <4>2. CopyOf(x, At[q], second) = CopyOf(p, At[q], second) => x = p
          BY <2>3, <2>4, <4>1, CopyApart
        <4> QED
          BY <3>1, <4>2
      <3> QED
        BY <3>1
    <2>9. \A x \in run[q].conf : ~Used(CopyOf(x, At[q], second))
      BY CopyIsNew
    <2> HIDE DEF second, copy, files
    <2>10. /\ p \in DOMAIN run[q].man /\ copy \notin DOMAIN On(q) /\ copy \notin DOMAIN run[q].man
           /\ copy # p /\ copy \notin run[q].conf /\ copy \notin run[q].drop
      BY <1>2, <2>2, <2>3, <2>4 DEF CallInv, DownInv, PushInv, Used, On
    <2> HIDE DEF push
    <2>11. next = [f \in Fields |-> next[f]]
      BY <2>3 DEF Fields
    <2>12. /\ next.pc = run[q].pc /\ next.call = run[q].call /\ next.gen = run[q].gen
           /\ next.man = run[q].man /\ next.base = run[q].base
           /\ next.down = {p} /\ next.del = run[q].del /\ next.conf = run[q].conf \ {p}
           /\ next.push = push /\ next.drop = run[q].drop
           /\ next.writes = TRUE /\ next.second = second
      BY <2>3 DEF Fields
    <2> HIDE DEF next
    <2>13. RunShape' /\ run'[q] = next /\ \A x \in Procs : x # q => run'[x] = run[x]
      BY <2>1, <2>3, <2>11, Turn
    <2>14. /\ disk' = [n \in Machines |-> disk'[n]] /\ disk'[At[q]] = files /\ On(q)' = files
           /\ \A n \in Machines : n # At[q] => disk'[n] = disk[n]
      BY <2>1, <2>3, DiskIs DEF On
    <2>15. Frame(q)
      BY <1>0, <2>3, <2>5, <2>13, <2>14 DEF Frame
    <2>16. \A x : Used(x)' => Used(x) \/ x = copy
      <3>1. ASSUME NEW x, NEW m \in Machines, x \in DOMAIN disk'[m] PROVE Used(x) \/ x = copy
        BY <2>3, <2>7, <2>14, <3>1 DEF Used, On
      <3>2. ASSUME NEW x, NEW y \in Procs, x \in DOMAIN run'[y].man PROVE Used(x)
        BY <2>12, <2>13, <3>2 DEF Used
      <3> QED
        BY <1>0, <3>1, <3>2 DEF Used
    <2>17. NewPaths(q)
      BY <2>4, <2>16 DEF NewPaths, copy
    <2>18. Kept(q)
      BY <2>7, <2>10, <2>14 DEF Kept, Contents
    <2>19. Shape'
      BY <1>0, <2>5, <2>13, <2>14 DEF LossInv, Shape
    <2>20. /\ SoundAt(On(q), edits.made, clock') /\ SoundAt(state[At[q]].base, edits.made, clock')
           /\ SoundAt(run[q].man, edits.made, clock') /\ SoundAt(run[q].base, edits.made, clock')
           /\ SoundAt(remote.entries, edits.made, clock')
      BY <2>3, <2>5, SoundStays DEF CallInv, RunSound, MachineInv, RemoteInv, Sound, On
    <2>21. MachineInv(At[q])'
      <3>1. SoundAt(files, edits.made, clock')
        BY <1>2, <2>6, <2>7, <2>20 DEF SoundAt
      <3>2. Follows(owed, state[At[q]].base, files)
        <4>1. ASSUME NEW x \in DOMAIN state[At[q]].base, state[At[q]].base[x] \in owed
              PROVE  HasAt(files, x, state[At[q]].base[x])
          <5>1. HasAt(On(q), x, state[At[q]].base[x])
            BY <2>3, <4>1 DEF MachineInv, Follows, On
          <5>2. x # p
            BY <2>2, <2>3, <4>1, <5>1 DEF CallInv, ConfInv, HasAt
          <5> QED
            BY <2>7, <2>10, <5>1, <5>2 DEF HasAt
        <4> QED
          BY <4>1 DEF Follows
      <3> QED
        BY <1>0, <2>3, <2>14, <2>20, <3>1, <3>2 DEF MachineInv, Sound
    <2>22. CallInv(q)'
      <3>1. Syncs(q) /\ run[q].base = Empty
        BY <2>2, <2>3 DEF CallInv, LooksOnly
      <3>2. Rests(q)' /\ LooksOnly(q)'
        BY <2>2, <2>3, <2>12, <2>13, <3>1 DEF Rests, LooksOnly, Syncs
      <3>3. RunSound(q)'
        BY <1>0, <2>3, <2>12, <2>13, <2>20 DEF CallInv, RunSound, Sound
      <3>4. BaseInv(q)' /\ ManInv(q)' /\ PlanInv(q)'
        BY <2>2, <2>12, <2>13, <3>1, FollowsEmpty DEF BaseInv, ManInv, PlanInv
      <3>5. ApplyInv(q)'
        <4>1. ASSUME NEW x \in DOMAIN run[q].man, run[q].man[x] \in owed
              PROVE  HasAt(files, x, run[q].man[x]) \/ x \in next.down \union next.conf
          BY <2>2, <2>3, <2>7, <2>10, <2>12, <3>1, <4>1 DEF CallInv, ApplyInv, HasAt
        <4> QED
          BY <1>0, <2>2, <2>12, <2>13, <2>14, <4>1 DEF ApplyInv
      <3>6. PushInv(q)'
        BY <1>0, <2>2, <2>3, <2>10, <2>12, <2>13 DEF CallInv, PushInv, push
      <3>7. CurrentInv(q)'
        BY <1>0, <2>3, <2>12, <2>13 DEF CallInv, CurrentInv
      <3>8. DownInv(q)'
        BY <2>2, <2>3, <2>7, <2>10, <2>12, <2>13, <2>14 DEF CallInv, DownInv
      <3>9. ConfInv(q)'
        <4>1. ASSUME NEW x \in next.conf, x \in DOMAIN files
              PROVE  x \in run[q].conf /\ x \in DOMAIN On(q) /\ files[x] = On(q)[x]
          BY <2>7, <2>10, <2>12, <4>1
        <4> QED
          BY <1>0, <2>3, <2>13, <2>14, <4>1 DEF CallInv, ConfInv
      <3>10. CopyInv(q)'
        <4>1. ASSUME NEW x \in next.conf, NEW c, c = CopyOf(x, At[q], second), Used(c)' PROVE FALSE
          BY <2>8, <2>9, <2>12, <2>16, <4>1
        <4> QED
          BY <2>5, <2>12, <2>13, <4>1 DEF CopyInv
      <3> QED
        BY <3>2, <3>3, <3>4, <3>5, <3>6, <3>7, <3>8, <3>9, <3>10 DEF CallInv
    <2>23. RemoteInv'
      BY <1>0, <2>20 DEF RemoteInv, Sound
    <2> QED
      BY <2>15, <2>17, <2>18, <2>19, <2>21, <2>22, <2>23, Goes
  <1>3. QED
    BY <1>1, <1>2

LEMMA UploadLoses == ASSUME Alone, LossInv, NEW q \in Procs, NEW p, Upload(q, p) PROVE LossInv'
  <1>0. UNCHANGED <<remote, disk, state, owed, clock>>
        /\ edits' = [made |-> edits.made, faults |-> edits'.faults] /\ edits' = edits
    BY DEF Upload, LossInv, Shape
  <1>1. CASE p \notin DOMAIN On(q)
    BY <1>0, <1>1, BailLoses DEF Upload
  <1>2. CASE p \in DOMAIN On(q)
    <2> DEFINE v == On(q)[p]
               man == With(run[q].man, p, v)
               next == [run[q] EXCEPT !.push = run[q].push \ {p}, !.man = man]
    <2>1. run' = [run EXCEPT ![q] = next]
      BY <1>2 DEF Upload
    <2>2. /\ DOMAIN man = DOMAIN run[q].man \union {p} /\ man[p] = On(q)[p]
          /\ \A x \in DOMAIN run[q].man : x # p => man[x] = run[q].man[x]
      BY DEF With
    <2> HIDE DEF v, man
    <2>3. /\ run[q] = [f \in Fields |-> run[q][f]] /\ RunShape
          /\ CallInv(q) /\ MachineInv(At[q]) /\ RemoteInv /\ At[q] \in Machines
      BY ShapeOf
    <2>4. /\ run[q].pc = "apply" /\ p \in run[q].push
          /\ run[q].down = {} /\ run[q].del = {} /\ run[q].conf = {}
      BY DEF Upload, Running, Applied, Downloaded
    <2>5. next = [f \in Fields |-> next[f]]
      BY <2>3 DEF Fields
    <2>6. /\ next.pc = run[q].pc /\ next.call = run[q].call /\ next.gen = run[q].gen
          /\ next.man = man /\ next.base = run[q].base
          /\ next.down = run[q].down /\ next.del = run[q].del /\ next.conf = run[q].conf
          /\ next.push = run[q].push \ {p} /\ next.drop = run[q].drop
          /\ next.writes = run[q].writes /\ next.second = run[q].second
      BY <2>3 DEF Fields
    <2> HIDE DEF next
    <2>7. RunShape' /\ run'[q] = next /\ \A x \in Procs : x # q => run'[x] = run[x]
      BY <2>1, <2>3, <2>5, Turn
    <2>8. Syncs(q) /\ run[q].writes # FALSE /\ On(q)' = On(q)
      BY <1>0, <2>3, <2>4 DEF CallInv, LooksOnly, PushInv, On
    <2>9. CallInv(q)'
      <3>1. Rests(q)' /\ LooksOnly(q)'
        BY <2>3, <2>4, <2>6, <2>7, <2>8 DEF CallInv, Rests, LooksOnly, Syncs
      <3>2. Sound(man)
        BY <1>2, <2>2, <2>3 DEF CallInv, RunSound, MachineInv, Sound, SoundAt, On
      <3>3. RunSound(q)'
        BY <1>0, <2>3, <2>6, <2>7, <3>2 DEF CallInv, RunSound, Sound
      <3>4. ManInv(q)' /\ BaseInv(q)' /\ PlanInv(q)'
        BY <1>0, <2>3, <2>4, <2>6, <2>7, <2>8 DEF CallInv, ManInv, BaseInv, PlanInv
      <3>5. \A x \in DOMAIN man : man[x] \in owed => HasAt(On(q), x, man[x])
        BY <1>2, <2>2, <2>3, <2>4, <2>8 DEF CallInv, ApplyInv, HasAt
      <3>6. ApplyInv(q)'
        BY <1>0, <2>4, <2>6, <2>7, <2>8, <3>5 DEF ApplyInv
      <3>7. PushInv(q)'
        BY <1>0, <2>2, <2>3, <2>4, <2>6, <2>7, <2>8 DEF CallInv, PushInv
      <3>8. CurrentInv(q)'
        <4>1. ASSUME run[q].gen = remote.gen, NEW x \in DOMAIN remote.entries,
                     remote.entries[x] \in owed
              PROVE  HasAt(man, x, remote.entries[x])
          <5>1. HasAt(run[q].man, x, remote.entries[x])
            BY <2>3, <2>4, <4>1 DEF CallInv, CurrentInv, Follows
          <5>2. x # p
            BY <2>3, <2>4, <4>1, <5>1 DEF CallInv, PushInv, HasAt
          <5> QED
            BY <2>2, <5>1, <5>2 DEF HasAt
        <4> QED
          BY <1>0, <2>6, <2>7, <4>1 DEF CurrentInv, Follows
      <3>9. DownInv(q)' /\ ConfInv(q)' /\ CopyInv(q)'
        BY <1>0, <2>3, <2>4, <2>6, <2>7 DEF CallInv, DownInv, ConfInv, CopyInv
      <3> QED
        BY <3>1, <3>3, <3>4, <3>6, <3>7, <3>8, <3>9 DEF CallInv
    <2>10. \A x \in DOMAIN run'[q].man : Used(x)
      BY <1>2, <2>2, <2>3, <2>6, <2>7 DEF Used, On
    <2> QED
      BY <1>0, <2>7, <2>9, <2>10, Stays
  <1>3. QED
    BY <1>1, <1>2

(* The swap: what the manifest held of what is owed, the new one holds.      *)
LEMMA SwapLoses == ASSUME Alone, ~SameSecond, LossInv, NEW q \in Procs, Swap(q) PROVE LossInv'
  <1>0. UNCHANGED <<disk, state, owed, clock>>
        /\ edits' = [made |-> edits.made, faults |-> edits'.faults] /\ edits' = edits
    BY DEF Swap, LossInv, Shape
  <1>1. /\ run[q] = [f \in Fields |-> run[q][f]] /\ RunShape
        /\ CallInv(q) /\ MachineInv(At[q]) /\ RemoteInv /\ At[q] \in Machines
        /\ remote.gen \in Nat /\ clock \in Nat /\ edits.made \in Nat
    BY ShapeOf
  <1>2. /\ run[q].pc = "apply" /\ run[q].push = {} /\ run[q].writes
        /\ run[q].down = {} /\ run[q].del = {} /\ run[q].conf = {}
    BY DEF Swap, Running, Applied, Downloaded
  <1>3. Syncs(q)
    BY <1>1, <1>2 DEF CallInv, LooksOnly
  <1>4. CASE run[q].gen = remote.gen
    <2> DEFINE entries == Without(run[q].man, run[q].drop)
               next == [run[q] EXCEPT !.pc = "save", !.man = entries, !.gen = run[q].gen + 1]
    <2>1. /\ run' = [run EXCEPT ![q] = next]
          /\ remote' = [gen |-> remote.gen + 1, entries |-> entries]
      BY <1>4 DEF Swap
    <2>2. /\ DOMAIN entries = DOMAIN run[q].man \ run[q].drop
          /\ \A x \in DOMAIN entries : entries[x] = run[q].man[x]
      BY DEF Without
    <2> HIDE DEF entries
    <2>3. next = [f \in Fields |-> next[f]]
      BY <1>1 DEF Fields
    <2>4. /\ next.pc = "save" /\ next.call = run[q].call /\ next.gen = run[q].gen + 1
          /\ next.man = entries /\ next.base = run[q].base
          /\ next.down = run[q].down /\ next.del = run[q].del /\ next.conf = run[q].conf
          /\ next.push = run[q].push /\ next.drop = run[q].drop
          /\ next.writes = run[q].writes /\ next.second = run[q].second
      BY <1>1 DEF Fields
    <2> HIDE DEF next
    <2>5. RunShape' /\ run'[q] = next /\ \A x \in Procs : x # q => run'[x] = run[x]
      BY <1>1, <2>1, <2>3, Turn
    <2>6. remote'.gen = remote.gen + 1 /\ remote'.entries = entries /\ On(q)' = On(q)
      BY <1>0, <2>1 DEF On
    <2>7. Follows(owed, remote.entries, entries)
      BY <1>1, <1>2, <1>4, <2>2 DEF CallInv, CurrentInv, PushInv, Follows, HasAt
    <2>8. Frame(q)
      BY <1>0, <1>1, <2>5, <2>6, <2>7 DEF Frame
    <2>9. \A x : Used(x)' => Used(x)
      <3>1. ASSUME NEW x, x \in DOMAIN entries PROVE Used(x)
        BY <2>2, <3>1 DEF Used
      <3>2. ASSUME NEW x, NEW y \in Procs, x \in DOMAIN run'[y].man PROVE Used(x)
        BY <2>4, <2>5, <3>1, <3>2 DEF Used
      <3> QED
        BY <1>0, <2>6, <3>1, <3>2 DEF Used
    <2>10. NewPaths(q) /\ Kept(q)
      BY <1>0, <2>9 DEF NewPaths, Kept, Contents, On
    <2>11. Shape'
      BY <1>0, <1>1, <2>5, <2>6 DEF LossInv, Shape
    <2>12. Sound(entries)
      BY <1>1, <2>2 DEF CallInv, RunSound, Sound, SoundAt
    <2>13. RemoteInv'
      BY <1>0, <2>6, <2>12 DEF RemoteInv, Sound
    <2>14. MachineInv(At[q])'
      BY <1>0, <1>1, <2>6, <2>7, FollowsOn DEF MachineInv, Sound
    <2>15. CallInv(q)'
      <3>1. Rests(q)' /\ LooksOnly(q)'
        BY <1>1, <1>2, <1>3, <2>4, <2>5 DEF CallInv, Rests, LooksOnly, Syncs
      <3>2. RunSound(q)'
        BY <1>0, <1>1, <2>4, <2>5, <2>12 DEF CallInv, RunSound, Sound
      <3>3. ManInv(q)'
        BY <2>4, <2>5, <2>6, FollowsItself DEF ManInv
      <3>4. BaseInv(q)'
        BY <1>1, <1>3, <2>4, <2>5, FollowsEmpty DEF CallInv, LooksOnly, BaseInv
      <3>5. Follows(owed, entries, On(q))
        BY <1>1, <1>2, <1>3, <2>2 DEF CallInv, ApplyInv, Follows
      <3>6. ApplyInv(q)' /\ PlanInv(q)' /\ PushInv(q)' /\ CurrentInv(q)'
        BY <1>0, <2>4, <2>5, <2>6, <3>5 DEF ApplyInv, PlanInv, PushInv, CurrentInv
      <3>7. DownInv(q)' /\ ConfInv(q)' /\ CopyInv(q)'
        BY <1>0, <1>1, <1>2, <2>4, <2>5 DEF CallInv, DownInv, ConfInv, CopyInv
      <3> QED
        BY <3>1, <3>2, <3>3, <3>4, <3>6, <3>7 DEF CallInv
    <2> QED
      BY <2>8, <2>10, <2>11, <2>13, <2>14, <2>15, Goes
  <1>5. CASE run[q].gen # remote.gen
    <2>1. UNCHANGED <<remote, disk, state, owed, clock>>
      BY <1>0, <1>5 DEF Swap
    <2>2. CASE Bail(q)
      BY <1>0, <2>1, <2>2, BailLoses
    <2>3. CASE run' = [run EXCEPT ![q].pc = "get", ![q].attempt = @ + 1,
                                  ![q].drop = {}, ![q].second = 0]
      <3> DEFINE next == [run[q] EXCEPT !.pc = "get", !.attempt = run[q].attempt + 1,
                                        !.drop = {}, !.second = 0]
      <3>1. next = [f \in Fields |-> next[f]]
        BY <1>1 DEF Fields
      <3>2. /\ next.pc = "get" /\ next.call = run[q].call /\ next.gen = run[q].gen
            /\ next.man = run[q].man /\ next.base = run[q].base
            /\ next.down = run[q].down /\ next.del = run[q].del /\ next.conf = run[q].conf
            /\ next.push = run[q].push /\ next.drop = {}
            /\ next.writes = run[q].writes /\ next.second = 0
        BY <1>1 DEF Fields
      <3>3. run' = [run EXCEPT ![q] = next]
        BY <2>3
      <3> HIDE DEF next
      <3>4. RunShape' /\ run'[q] = next /\ \A x \in Procs : x # q => run'[x] = run[x]
        BY <1>1, <3>1, <3>3, Turn
      <3>5. CallInv(q)'
        <4>1. Rests(q)' /\ LooksOnly(q)'
          BY <1>1, <1>2, <1>3, <3>2, <3>4 DEF CallInv, Rests, LooksOnly, Syncs
        <4>2. RunSound(q)' /\ BaseInv(q)'
          BY <1>0, <1>1, <2>1, <3>2, <3>4 DEF CallInv, RunSound, BaseInv, Sound, On
        <4>3. ManInv(q)' /\ PlanInv(q)' /\ ApplyInv(q)' /\ PushInv(q)' /\ CurrentInv(q)'
          BY <3>2, <3>4 DEF ManInv, PlanInv, ApplyInv, PushInv, CurrentInv
        <4>4. DownInv(q)' /\ ConfInv(q)' /\ CopyInv(q)'
          BY <1>0, <1>1, <1>2, <3>2, <3>4 DEF DownInv, ConfInv, CopyInv
        <4> QED
          BY <4>1, <4>2, <4>3, <4>4 DEF CallInv
      <3>6. \A x \in DOMAIN run'[q].man : Used(x)
        BY <3>2, <3>4 DEF Used
      <3> QED
        BY <1>0, <2>1, <3>4, <3>5, <3>6, Stays
    <2>4. QED
      BY <1>5, <2>2, <2>3 DEF Swap
  <1>6. QED
    BY <1>4, <1>5

LEMMA TornIs ==
    ASSUME NEW s, NEW t, s = [gen |-> s.gen, whole |-> s.whole, base |-> s.base],
           t = [s EXCEPT !.whole = FALSE]
    PROVE  t = [gen |-> t.gen, whole |-> t.whole, base |-> t.base] /\ t.gen = s.gen /\ t.base = s.base
  OBVIOUS

(* The state is written: what it says was agreed is owed nowhere else.       *)
LEMMA SaveLoses ==
    ASSUME Alone, LossInv, NEW q \in Procs, Save(q) \/ TornSave(q) PROVE LossInv'
  <1>0. UNCHANGED <<remote, disk, owed, clock>>
        /\ edits' = [made |-> edits.made, faults |-> edits'.faults] /\ edits'.made = edits.made
    BY DEF Save, TornSave, Fault, LossInv, Shape
  <1>1. /\ run[q] = [f \in Fields |-> run[q][f]] /\ RunShape
        /\ CallInv(q) /\ MachineInv(At[q]) /\ RemoteInv /\ At[q] \in Machines
        /\ remote.gen \in Nat /\ clock \in Nat /\ edits.made \in Nat
    BY ShapeOf
  <1>2. PICK next \in Blank : run' = [run EXCEPT ![q] = next]
    BY DEF Save, TornSave, Blank
  <1>3. next = [f \in Fields |-> next[f]] /\ next.man = Empty
    BY BlankIs
  <1>4. RunShape' /\ run'[q] = next /\ \A x \in Procs : x # q => run'[x] = run[x]
    BY <1>1, <1>2, <1>3, Turn
  <1>5. Saving(q)
    BY DEF Save, TornSave
  <1> DEFINE base == IF Syncs(q) THEN run[q].man ELSE run[q].base
  <1>6. Follows(owed, base, remote.entries) /\ Follows(owed, base, On(q)) /\ Sound(base)
    <2>1. CASE Syncs(q)
      <3>1. Follows(owed, run[q].man, remote.entries)
        BY <1>1, <1>5, <2>1 DEF CallInv, ManInv, Rests, Saving, Running
      <3>2. CASE run[q].pc = "save"
        BY <1>1, <2>1, <3>1, <3>2 DEF CallInv, ApplyInv, RunSound
      <3>3. CASE run[q].pc = "apply" /\ run[q].down = {} /\ run[q].conf = {}
        BY <1>1, <2>1, <3>1, <3>3 DEF CallInv, ApplyInv, RunSound, Follows
      <3> QED
        BY <1>1, <1>5, <2>1, <3>2, <3>3 DEF CallInv, Rests, Saving, Running, Applied, Downloaded
    <2>2. CASE ~Syncs(q)
      BY <1>1, <2>2 DEF CallInv, BaseInv, RunSound
    <2> QED
      BY <2>1, <2>2
  <1> HIDE DEF base
  <1>7. state = [m \in Machines |-> state[m]]
        /\ \A m \in Machines : state[m] = [gen |-> state[m].gen, whole |-> state[m].whole,
                                           base |-> state[m].base]
    BY DEF LossInv, Shape
  <1>8. PICK s : /\ state' = [state EXCEPT ![At[q]] = s]
                 /\ s = [gen |-> s.gen, whole |-> s.whole, base |-> s.base] /\ s.gen \in Nat
                 /\ s.base \in {base, state[At[q]].base}
    <2>1. CASE Save(q)
      <3> DEFINE s == [gen |-> run[q].gen, whole |-> TRUE, base |-> base]
      <3>1. state' = [state EXCEPT ![At[q]] = s]
        BY <2>1 DEF Save, base
      <3>2. s = [gen |-> s.gen, whole |-> s.whole, base |-> s.base] /\ s.gen \in Nat /\ s.base = base
        BY <1>1 DEF CallInv, RunSound
      <3> HIDE DEF s
      <3> QED
        BY <3>1, <3>2
    <2>2. CASE TornSave(q)
      <3> DEFINE s == [state[At[q]] EXCEPT !.whole = FALSE]
      <3>1. state' = [state EXCEPT ![At[q]] = s]
        BY <2>2 DEF TornSave
      <3>2. /\ s = [gen |-> s.gen, whole |-> s.whole, base |-> s.base]
            /\ s.gen = state[At[q]].gen /\ s.base = state[At[q]].base
        BY <1>1, <1>7, TornIs
      <3> HIDE DEF s
      <3> QED
        BY <1>1, <3>1, <3>2 DEF MachineInv
    <2> QED
      BY <2>1, <2>2
  <1>9. state' = [m \in Machines |-> IF m = At[q] THEN s ELSE state[m]]
    BY <1>7, <1>8
  <1>10. /\ state'[At[q]] = s /\ \A m \in Machines : m # At[q] => state'[m] = state[m]
         /\ On(q)' = On(q)
    BY <1>0, <1>1, <1>9 DEF On
  <1>11. state' = [m \in Machines |-> [gen |-> state'[m].gen, whole |-> state'[m].whole,
                                       base |-> state'[m].base]]
    BY <1>7, <1>8, <1>9
  <1>12. Frame(q)
    BY <1>0, <1>1, <1>4, <1>10 DEF Frame
  <1>13. NewPaths(q)
    <2>1. ASSUME NEW x, Used(x)' PROVE Used(x)
      BY <1>0, <1>3, <1>4, <2>1 DEF Used, Empty
    <2> QED
      BY <2>1 DEF NewPaths
  <1>14. Kept(q) /\ RemoteInv'
    BY <1>0, <1>1 DEF Kept, Contents, On, RemoteInv, Sound
  <1>15. Shape'
    BY <1>0, <1>1, <1>4, <1>11 DEF LossInv, Shape
  <1>16. MachineInv(At[q])'
    BY <1>0, <1>1, <1>6, <1>8, <1>10 DEF MachineInv, Sound, On
  <1>17. CallInv(q)'
    BY <1>0, <1>1, <1>4, BlankHolds
  <1> QED
    BY <1>12, <1>13, <1>14, <1>15, <1>16, <1>17, Goes

LEMMA OverLoses ==
    ASSUME Alone, LossInv, NEW q \in Procs, Rebuild(q) \/ CallFails(q) \/ Killed(q) PROVE LossInv'
  <1>1. UNCHANGED <<remote, disk, state, owed, clock>>
        /\ edits' = [made |-> edits.made, faults |-> edits'.faults]
    BY DEF Rebuild, CallFails, Killed, Fault, LossInv, Shape
  <1>2. PICK next \in Blank : run' = [run EXCEPT ![q] = next]
    BY BailIs DEF Rebuild, CallFails, Killed, Blank
  <1> QED
    BY <1>1, <1>2, Ends

LEMMA StepLoses == ASSUME Alone, ~SameSecond, LossInv, NEW q \in Procs, Step(q) PROVE LossInv'
  BY LoadStateLoses, GetManifestLoses, PlanOfSyncLoses, PlanOfLookupLoses, SwapLoses, SaveLoses,
     OverLoses, DownloadLoses, DeleteLocalLoses, SetAsideLoses, UploadLoses DEF Step

(* A person changes one file: what is new is in no manifest and no base, and  *)
(* what they replace is not owed any more.                                    *)
Changes(m, p, files) ==
  /\ UNCHANGED <<remote, state, run, clock>> /\ ~AboutToChange(m, p)
  /\ edits' = [made |-> edits.made + 1, faults |-> edits.faults]
  /\ disk' = [disk EXCEPT ![m] = files]
  /\ OldAt(p, clock) /\ (Used(p) \/ Len(p) = 1)
  /\ \A x \in DOMAIN disk[m] : x # p => x \in DOMAIN files /\ files[x] = disk[m][x]
  /\ \A x \in DOMAIN files : IF x = p THEN files[x] = edits.made + 1 ELSE x \in DOMAIN disk[m]
  /\ \/ owed' = owed \ Have(disk[m], p)
     \/ p \in DOMAIN files /\ owed' = (owed \ Have(disk[m], p)) \union {edits.made + 1}

LEMMA CopyIsLong ==
    ASSUME NEW p \in Seq(Parts), Len(p) > 0, NEW m \in Machines, NEW k \in Nat
    PROVE  Len(CopyOf(p, m, k)) # 1
  <1>1. Len(CopyOf(p, m, k)) = Len(p) + 2
    BY CopyIs
  <1>2. Len(p) \in Nat
    OBVIOUS
  <1> QED
    BY <1>1, <1>2

LEMMA PersonLoses ==
    ASSUME Alone, LossInv, NEW m \in Machines, NEW p, NEW files, Changes(m, p, files)
    PROVE  LossInv'
  <1>0. UNCHANGED <<remote, state, run, clock>> /\ edits'.made = edits.made + 1
    BY DEF Changes
  <1>1. /\ remote.gen \in Nat /\ clock \in Nat /\ edits.made \in Nat /\ RemoteInv
        /\ \A n \in Machines : MachineInv(n)
        /\ \A q \in Procs : CallInv(q) /\ At[q] \in Machines
    BY ProcsAssumption DEF LossInv, Shape
  <1>2. /\ disk' = [n \in Machines |-> disk'[n]] /\ disk'[m] = files
        /\ \A n \in Machines : n # m => disk'[n] = disk[n]
    BY DiskIs DEF Changes
  <1>3. \A v \in 0..edits.made : v \in owed' => v \in owed /\ v \notin Have(disk[m], p)
    BY <1>1 DEF Changes
  <1>4. ASSUME NEW n \in Machines, NEW x \in DOMAIN disk'[n]
        PROVE  \/ n = m /\ x = p /\ disk'[n][x] = edits.made + 1
               \/ ~(n = m /\ x = p) /\ x \in DOMAIN disk[n] /\ disk'[n][x] = disk[n][x]
    BY <1>2, <1>4 DEF Changes
  <1>5. ASSUME NEW n \in Machines, NEW x, NEW v \in 0..edits.made, v \in owed', HasAt(disk[n], x, v)
        PROVE  HasAt(disk'[n], x, v)
    BY <1>2, <1>3, <1>5 DEF Changes, HasAt, Have
  <1>6. ASSUME NEW f, Sound(f), NEW g, Follows(owed, f, g) PROVE Follows(owed', f, g)
    BY <1>3, <1>6 DEF Sound, SoundAt, Follows
  <1>7. ASSUME NEW f, Sound(f), NEW n \in Machines, Follows(owed, f, disk[n])
        PROVE  Follows(owed', f, disk'[n])
    BY <1>3, <1>5, <1>7 DEF Sound, SoundAt, Follows
  <1>8. ASSUME NEW f, SoundAt(f, edits.made, clock) PROVE SoundAt(f, edits'.made, clock')
    BY <1>0, <1>1, <1>8, SoundStays
  <1>9. Shape'
    BY <1>0, <1>2 DEF Changes, LossInv, Shape, RunShape
  <1>10. RemoteInv'
    BY <1>0, <1>1, <1>8 DEF RemoteInv, Sound
  <1>11. ASSUME NEW n \in Machines PROVE MachineInv(n)'
    <2>1. SoundAt(disk'[n], edits'.made, clock')
      BY <1>0, <1>1, <1>4 DEF MachineInv, Sound, SoundAt, OldAt, Changes
    <2>2. Follows(owed', state[n].base, remote.entries) /\ Follows(owed', state[n].base, disk'[n])
      BY <1>1, <1>6, <1>7 DEF MachineInv
    <2>3. SoundAt(state[n].base, edits'.made, clock')
      BY <1>1, <1>8 DEF MachineInv, Sound
    <2> QED
      BY <1>0, <1>1, <2>1, <2>2, <2>3 DEF MachineInv, Sound
  <1>12. NothingLost'
    <2>1. ASSUME NEW v \in owed'
          PROVE  v \in Contents(remote.entries) \/ \E n \in Machines : v \in Contents(disk'[n])
      <3>1. CASE v \in owed /\ v \notin Have(disk[m], p)
        <4>1. CASE v \in Contents(remote.entries)
          BY <4>1
        <4>2. CASE \E n \in Machines : v \in Contents(disk[n])
          <5>0. PICK n \in Machines : v \in Contents(disk[n])
            BY <4>2
          <5>1. PICK x \in DOMAIN disk[n] : v = disk[n][x]
            BY <5>0 DEF Contents
          <5>2. v \in 0..edits.made
            BY <1>1, <5>1 DEF MachineInv, Sound, SoundAt
          <5>3. HasAt(disk'[n], x, v)
            BY <1>5, <5>1, <5>2 DEF HasAt
          <5> QED
            BY <5>3 DEF HasAt, Contents
        <4> QED
          BY <3>1, <4>1, <4>2 DEF LossInv, NothingLost
      <3>2. CASE p \in DOMAIN files /\ v = edits.made + 1
        BY <1>2, <3>2 DEF Changes, Contents
      <3> QED
        BY <2>1, <3>1, <3>2 DEF Changes
    <2> QED
      BY <1>0, <2>1 DEF NothingLost
  <1>13. ASSUME NEW q \in Procs PROVE CallInv(q)'
    <2>0. CallInv(q) /\ At[q] \in Machines /\ Sound(run[q].man) /\ Sound(run[q].base)
      BY <1>1 DEF CallInv, RunSound
    <2>1. Rests(q)' /\ LooksOnly(q)'
      BY <1>0, <2>0 DEF CallInv, Rests, LooksOnly, Syncs
    <2>2. SoundAt(run[q].man, edits'.made, clock') /\ SoundAt(run[q].base, edits'.made, clock')
      BY <1>8, <2>0 DEF Sound
    <2>3. RunSound(q)'
      BY <1>0, <2>0, <2>2 DEF CallInv, RunSound, Sound
    <2>4. ManInv(q)'
      BY <1>0, <1>6, <2>0 DEF CallInv, ManInv
    <2>5. BaseInv(q)'
      BY <1>0, <1>6, <1>7, <2>0 DEF CallInv, BaseInv, On
    <2>6. PlanInv(q)'
      BY <1>0, <1>1, <1>6, <2>0 DEF CallInv, PlanInv, MachineInv
    <2>7. \A x \in DOMAIN run[q].man : run[q].man[x] \in 0..edits.made
      BY <2>0 DEF Sound, SoundAt
    <2>8. ApplyInv(q)'
      <3>1. ASSUME NEW x \in DOMAIN run[q].man, run[q].man[x] \in owed'
            PROVE  run[q].man[x] \in owed
                   /\ (HasAt(On(q), x, run[q].man[x]) => HasAt(disk'[At[q]], x, run[q].man[x]))
        BY <1>3, <1>5, <2>0, <2>7, <3>1 DEF On
      <3>2. ASSUME run[q].pc = "apply", Syncs(q), NEW x \in DOMAIN run[q].man, run[q].man[x] \in owed'
            PROVE  HasAt(disk'[At[q]], x, run[q].man[x]) \/ x \in run[q].down \union run[q].conf
        BY <2>0, <3>1, <3>2 DEF CallInv, ApplyInv
      <3>3. ASSUME run[q].pc = "save" PROVE Follows(owed', run[q].man, disk'[At[q]])
        BY <1>7, <2>0, <3>3 DEF CallInv, ApplyInv, On
      <3> QED
        BY <1>0, <3>2, <3>3 DEF ApplyInv, On, Syncs
    <2>9. PushInv(q)'
      BY <1>0, <1>3, <2>0, <2>7 DEF CallInv, PushInv
    <2>10. CurrentInv(q)'
      BY <1>0, <1>1, <1>6, <2>0 DEF CallInv, CurrentInv, RemoteInv
    <2>11. \A x \in DOMAIN On(q) : On(q)[x] \in 0..edits.made
      BY <1>1, <2>0 DEF MachineInv, Sound, SoundAt, On
    <2>12. DownInv(q)'
      <3>1. ASSUME NEW x \in run[q].down \union run[q].del, x \in DOMAIN disk'[At[q]]
            PROVE  disk'[At[q]][x] \notin owed'
        <4>1. ~(At[q] = m /\ x = p)
          BY <3>1 DEF Changes, AboutToChange
        <4>2. x \in DOMAIN On(q) /\ disk'[At[q]][x] = On(q)[x]
          BY <1>4, <2>0, <3>1, <4>1 DEF On
        <4> QED
          BY <1>3, <2>0, <2>11, <3>1, <4>2 DEF CallInv, DownInv
      <3> QED
        BY <1>0, <2>0, <3>1 DEF CallInv, DownInv, On
    <2>13. ConfInv(q)'
      <3>1. ASSUME NEW x \in run[q].conf, x \in DOMAIN disk'[At[q]], disk'[At[q]][x] \in owed'
            PROVE  ~HasAt(state[At[q]].base, x, disk'[At[q]][x])
        <4>1. CASE disk'[At[q]][x] = edits.made + 1
          BY <1>1, <2>0, <4>1 DEF MachineInv, Sound, SoundAt, HasAt
        <4>2. CASE x \in DOMAIN On(q) /\ disk'[At[q]][x] = On(q)[x]
          BY <1>3, <2>0, <2>11, <3>1, <4>2 DEF CallInv, ConfInv
        <4> QED
          BY <1>4, <2>0, <3>1, <4>1, <4>2 DEF On
      <3> QED
        BY <1>0, <3>1 DEF ConfInv, On
    <2>14. CopyInv(q)'
      <3>1. ASSUME NEW x, Used(x)' PROVE Used(x) \/ x = p
        <4>1. ASSUME NEW n \in Machines, x \in DOMAIN disk'[n] PROVE Used(x) \/ x = p
          BY <1>4, <4>1 DEF Used
        <4> QED
          BY <1>0, <3>1, <4>1 DEF Used
      <3>2. ASSUME NEW x \in run[q].conf, run[q].second # 0, NEW c,
                   c = CopyOf(x, At[q], run[q].second), Used(c)'
            PROVE  FALSE
        <4>1. ~Used(c)
          BY <2>0, <3>2 DEF CallInv, CopyInv
        <4>2. Len(c) = 1
          BY <3>1, <3>2, <4>1 DEF Changes
        <4>3. x \in Seq(Parts) /\ Len(x) > 0 /\ run[q].second \in Nat
          BY <1>1, <2>0, <3>2 DEF CallInv, DownInv, Sound, SoundAt, OldAt, CopyInv
        <4> QED
          BY <2>0, <3>2, <4>2, <4>3, CopyIsLong
      <3> QED
        BY <1>0, <2>0, <3>2 DEF CallInv, CopyInv
    <2> QED
      BY <2>1, <2>3, <2>4, <2>5, <2>6, <2>8, <2>9, <2>10, <2>12, <2>13, <2>14 DEF CallInv
  <1> QED
    BY <1>9, <1>10, <1>11, <1>12, <1>13 DEF LossInv

LEMMA SomeoneLoses == ASSUME Alone, ~Races, LossInv, Someone PROVE LossInv'
  <1>1. /\ edits = [made |-> edits.made, faults |-> edits.faults] /\ clock \in Nat
        /\ \A m \in Machines : MachineInv(m)
    BY DEF LossInv, Shape
  <1>2. ASSUME Edit PROVE edits' = [made |-> edits.made + 1, faults |-> edits.faults]
    BY <1>1, <1>2 DEF Edit
  <1>3. ASSUME NEW m \in Machines, NEW p \in DOMAIN disk[m] PROVE OldAt(p, clock) /\ Used(p)
    BY <1>1, <1>3 DEF MachineInv, Sound, SoundAt, Used
  <1>4. ASSUME NEW e \in Entries PROVE OldAt(Path(e), clock) /\ Len(Path(e)) = 1
    <2>1. Path(e) \in Seq(Parts) /\ Len(Path(e)) = 1
      BY DEF Path, Parts
    <2> QED
      BY <2>1 DEF OldAt
  <1>5. ASSUME NEW m \in Machines, NEW p \in DOMAIN disk[m] \union {Path(e) : e \in Entries},
               Write(m, p)
        PROVE  LossInv'
    <2> DEFINE files == With(disk[m], p, edits.made + 1)
    <2>1. OldAt(p, clock) /\ (Used(p) \/ Len(p) = 1)
      BY <1>3, <1>4
    <2>2. disk' = [disk EXCEPT ![m] = files]
      BY <1>5 DEF Write
    <2>3. /\ DOMAIN files = DOMAIN disk[m] \union {p} /\ files[p] = edits.made + 1
          /\ \A x \in DOMAIN disk[m] : x # p => files[x] = disk[m][x]
      BY DEF With
    <2> HIDE DEF files
    <2>4. Changes(m, p, files)
      BY <1>2, <1>5, <2>1, <2>2, <2>3 DEF Changes, Write
    <2> QED
      BY <2>4, PersonLoses
  <1>6. ASSUME NEW m \in Machines, NEW p \in DOMAIN disk[m], Remove(m, p) PROVE LossInv'
    <2> DEFINE files == Without(disk[m], {p})
    <2>1. OldAt(p, clock) /\ Used(p)
      BY <1>3
    <2>2. disk' = [disk EXCEPT ![m] = files]
      BY <1>6 DEF Remove
    <2>3. /\ DOMAIN files = DOMAIN disk[m] \ {p}
          /\ \A x \in DOMAIN files : files[x] = disk[m][x]
      BY DEF Without
    <2> HIDE DEF files
    <2>4. Changes(m, p, files)
      BY <1>2, <1>6, <2>1, <2>2, <2>3 DEF Changes, Remove
    <2> QED
      BY <2>4, PersonLoses
  <1> QED
    BY <1>5, <1>6 DEF Someone

LEMMA StutterLoses == ASSUME LossInv, UNCHANGED vars PROVE LossInv'
  <1>1. Shape' /\ NothingLost' /\ RemoteInv'
    BY DEF vars, LossInv, Shape, RunShape, NothingLost, RemoteInv, Sound
  <1>2. ASSUME NEW m \in Machines PROVE MachineInv(m)'
    BY DEF vars, LossInv, MachineInv, Sound
  <1>3. ASSUME NEW q \in Procs PROVE CallInv(q)'
    <2>1. CallInv(q)
      BY DEF LossInv
    <2>2. UNCHANGED <<remote, disk, state, clock, run, edits, owed>>
      BY DEF vars
    <2>3. Rests(q)' /\ LooksOnly(q)' /\ RunSound(q)' /\ ManInv(q)' /\ BaseInv(q)' /\ PlanInv(q)'
      BY <2>1, <2>2 DEF CallInv, Rests, LooksOnly, RunSound, ManInv, BaseInv, PlanInv, Syncs, Sound, On
    <2>4. ApplyInv(q)' /\ PushInv(q)' /\ CurrentInv(q)' /\ DownInv(q)' /\ ConfInv(q)' /\ CopyInv(q)'
      BY <2>1, <2>2 DEF CallInv, ApplyInv, PushInv, CurrentInv, DownInv, ConfInv, CopyInv, Syncs, Used, On
    <2> QED
      BY <2>3, <2>4 DEF CallInv
  <1> QED
    BY <1>1, <1>2, <1>3 DEF LossInv

LEMMA InitLoses == Init => LossInv
  <1> SUFFICES ASSUME Init PROVE LossInv
    OBVIOUS
  <1>1. PICK shared \in SUBSET Entries :
          LET tree == [p \in {Path(e) : e \in shared} |-> 0]
              gen == IF shared = {} THEN 0 ELSE 1
          IN  /\ remote = [gen |-> gen, entries |-> tree]
              /\ disk = [m \in Machines |-> tree]
              /\ state = [m \in Machines |-> [gen |-> gen, base |-> tree, whole |-> TRUE]]
    BY Zenon DEF Init
  <1> DEFINE tree == [p \in {Path(e) : e \in shared} |-> 0]
             gen == IF shared = {} THEN 0 ELSE 1
  <1>2. /\ remote.gen = gen /\ remote.entries = tree /\ gen \in Nat
        /\ disk = [m \in Machines |-> tree]
        /\ state = [m \in Machines |-> [gen |-> gen, base |-> tree, whole |-> TRUE]]
    BY <1>1
  <1>3. /\ run = [q \in Procs |-> Idle] /\ edits = [made |-> 0, faults |-> 0]
        /\ clock = 0 /\ owed = Contents(remote.entries)
    BY DEF Init
  <1>4. Sound(tree)
    <2>1. ASSUME NEW e \in Entries PROVE OldAt(Path(e), clock)
      <3>1. Path(e) \in Seq(Parts) /\ Len(Path(e)) = 1
        BY DEF Path, Parts
      <3> QED
        BY <3>1 DEF OldAt
    <2> QED
      BY <1>3, <2>1 DEF Sound, SoundAt
  <1> HIDE DEF tree, gen
  <1>5. Shape
    <2>1. RunShape
      BY <1>3, IdleShape DEF RunShape
    <2> QED
      BY <1>2, <1>3, <2>1 DEF Shape
  <1>6. NothingLost /\ RemoteInv
    BY <1>2, <1>3, <1>4 DEF NothingLost, RemoteInv
  <1>7. ASSUME NEW m \in Machines PROVE MachineInv(m)
    BY <1>2, <1>4, FollowsItself DEF MachineInv
  <1>8. ASSUME NEW q \in Procs PROVE CallInv(q)
    <2>1. run[q] = Idle
      BY <1>3
    <2>2. /\ Idle.pc = "idle" /\ Idle.man = Empty /\ Idle.base = Empty /\ Idle.gen = 0
          /\ Idle.second = 0 /\ Idle.writes = FALSE /\ Idle.down = {} /\ Idle.del = {}
          /\ Idle.conf = {} /\ Idle.push = {} /\ Idle.drop = {}
      BY DEF Idle
    <2>3. Rests(q) /\ LooksOnly(q)
      BY <2>1, <2>2 DEF Rests, LooksOnly, Syncs
    <2>4. RunSound(q) /\ BaseInv(q)
      BY <2>1, <2>2, SoundEmpty, FollowsEmpty DEF RunSound, BaseInv, Sound
    <2>5. ManInv(q) /\ PlanInv(q) /\ ApplyInv(q) /\ PushInv(q) /\ CurrentInv(q)
      BY <2>1, <2>2 DEF ManInv, PlanInv, ApplyInv, PushInv, CurrentInv
    <2>6. DownInv(q) /\ ConfInv(q) /\ CopyInv(q)
      BY <1>3, <2>1, <2>2 DEF DownInv, ConfInv, CopyInv
    <2> QED
      BY <2>3, <2>4, <2>5, <2>6 DEF CallInv
  <1> QED
    BY <1>5, <1>6, <1>7, <1>8 DEF LossInv

LEMMA NextLoses ==
    ASSUME Alone, ~SameSecond, ~Races PROVE LossInv /\ [Next]_vars => LossInv'
  <1> SUFFICES ASSUME LossInv, [Next]_vars PROVE LossInv'
    OBVIOUS
  <1>1. ASSUME NEW q \in Procs, NEW call \in Calls[q], Start(q, call) PROVE LossInv'
    BY <1>1, StartLoses
  <1>2. ASSUME NEW q \in Procs, Step(q) PROVE LossInv'
    BY <1>2, StepLoses
  <1>3. ASSUME NEW q \in Procs, CallFails(q) \/ Killed(q) PROVE LossInv'
    BY <1>3, OverLoses
  <1>4. ASSUME NEW q \in Procs, TornSave(q) PROVE LossInv'
    BY <1>4, SaveLoses
  <1>5. CASE Someone
    BY <1>5, SomeoneLoses
  <1>6. CASE UNCHANGED vars
    BY <1>6, StutterLoses
  <1>7. QED
    BY <1>1, <1>2, <1>3, <1>4, <1>5, <1>6 DEF Next

(* A content that somebody wrote, and nobody has replaced or deleted since, is *)
(* on a machine or to be fetched from the bucket, whatever syncs and lookups run,      *)
(* fail, are killed or tear the state file (mod.rs:151, "no data loss").       *)
THEOREM NothingIsLost ==
    ASSUME Alone, ~SameSecond, ~Races
    PROVE  Spec => []NothingDropped
  <1>1. LossInv /\ [Next]_vars => LossInv'
    BY NextLoses
  <1>2. LossInv => NothingLost
    BY DEF LossInv
  <1>3. NothingLost /\ EntriesBacked => NothingDropped
    BY DEF NothingDropped
  <1>4. QED
    BY <1>1, <1>2, <1>3, InitLoses, ManifestBacked, PTL DEF Spec
==============================================================================
