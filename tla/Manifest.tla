------------------------------ MODULE Manifest ------------------------------
(***************************************************************************)
(* bc-manifest.yaml, the directory of clones beside it, and the commands   *)
(* that read them: `manifest sync`, which clones what is missing, and      *)
(* `manifest validate`, which says whether manifest and clones are in      *)
(* order.  Sync takes the entries one by one; between any two of its steps *)
(* the operator edits the manifest, or makes, changes or removes           *)
(* directories (a second sync is one more who makes directories), and the  *)
(* sync may be killed.  Validate changes nothing and is an operator here,  *)
(* as is what `launch` takes from the manifest (Resolution).               *)
(***************************************************************************)
EXTENDS Resolution

CONSTANTS
  Name,       \* names of directories
  Url,        \* remotes
  GitHub,     \* those of the form of a GitHub URL
  Canonical,  \* per product slug, the names of the form <slug>-<identifier>
  Manifests,  \* what the operator writes into bc-manifest.yaml
  Envs,       \* environments and shop files of a command
  Options     \* command lines

Entry == [name : Name \cup {None}, remote : Url \cup {None}, role : {"bc", None}]

ASSUME NamesAreText == None \notin Name /\ None \notin Url /\ GitHub \subseteq Url \ {Blank}
ASSUME EntriesAreTyped == \A m \in Manifests : m.entries \in Seq(Entry)

\* `shopsystem` is a slug, and no product is of spaces only
ASSUME ProductsAreText ==
  /\ Slugified(Default) = Default
  /\ \A m \in Manifests : LoadedProduct(m) # None => Slugified(LoadedProduct(m)) # None

VARIABLES
  manifest,  \* the file: [file, product, entries]
  root,      \* repos_dir exists
  outer,     \* origin of the repository that repos_dir lies in, or None
  dir,       \* what has a name in it: [kind: absent | file | dir | partial, url]
  pc,        \* the sync: idle, entry, clone, cloning, done, raised
  plan,      \* the entries it has loaded
  k,         \* the entry it is at
  report,    \* what it has said of entries it did not clone, and of extra directories
  clean      \* history: nobody else has touched directories since it began

syncVars == <<pc, plan, k, report>>
vars == <<manifest, outer, root, dir, syncVars, clean>>

Kind == [kind : {"absent", "file", "dir", "partial"}, url : Url \cup {None}]
Absent == [kind |-> "absent", url |-> None]
File   == [kind |-> "file", url |-> None]

\* an entry without a name, or with an empty one, stands for repos_dir itself
At(name) == IF name = None THEN [kind |-> "dir", url |-> None] ELSE dir[name]

IsDir(name) == At(name).kind \in {"dir", "partial"}

\* `git remote get-url origin` looks upwards where there is no repository
OriginOf(name) == IF At(name).url # None THEN At(name).url ELSE outer

Extras(entries) ==
  {n \in Name : IsDir(n) /\ \A i \in DOMAIN entries : entries[i].name # n}

Busy == pc \in {"entry", "clone", "cloning"}

\* the directory a running `git clone` has made
Cloning(n) == pc = "cloning" /\ plan[k].name = n

Init ==
  /\ manifest \in Manifests /\ outer \in GitHub \cup {None}
  /\ root = FALSE /\ dir = [n \in Name |-> Absent]
  /\ pc = "idle" /\ plan = <<>> /\ k = 1 /\ report = {} /\ clean = FALSE

-----------------------------------------------------------------------------
(* validate *)

\* Mutant: remote is not a required field
EntryValidWithoutRemote(b, slug, reachable) ==
  /\ b.name # None /\ b.role # None
  /\ slug # Default /\ b.name # None => b.name \in Canonical[slug]
  /\ b.remote # None => b.remote \in GitHub /\ b.remote \in reachable

\* the messages about an entry
EntryValid(b, slug, reachable) ==
  /\ b.name # None /\ b.remote # None /\ b.role # None
  /\ slug # Default /\ b.name # None => b.name \in Canonical[slug]
  /\ b.remote # None => b.remote \in GitHub /\ b.remote \in reachable

\* the messages about repos_dir
DirsValid(entries) ==
  root =>
    /\ Extras(entries) = {}
    /\ \A i \in DOMAIN entries :
         LET b == entries[i]
         IN  /\ At(b.name).kind # "absent"
             /\ IsDir(b.name) /\ OriginOf(b.name) # None => OriginOf(b.name) = b.remote

\* entries whose directory has no origin
Unreadable(entries) ==
  {entries[i] : i \in {j \in DOMAIN entries : OriginOf(entries[j].name) = None}}

Valid(m, e, f, reachable) ==
  /\ m.file = "ok"
  /\ \A i \in DOMAIN m.entries : EntryValid(m.entries[i], ProductSlug(m, e, f), reachable)
  /\ DirsValid(m.entries)

-----------------------------------------------------------------------------
(* Mutants: the mistakes the properties are there to catch *)

\* a clone that fails is passed over
CloneRefusedGoesOn ==
  /\ pc = "clone" /\ pc' = "entry" /\ k' = k + 1
  /\ UNCHANGED <<manifest, outer, root, dir, plan, report, clean>>

\* a directory that is there is in order
SkipUnchecked ==
  /\ pc = "entry" /\ k \in DOMAIN plan /\ IsDir(plan[k].name)
  /\ k' = k + 1
  /\ UNCHANGED <<manifest, outer, root, dir, pc, plan, report, clean>>

-----------------------------------------------------------------------------
(* sync *)

Begin ==
  /\ ~Busy /\ manifest.file = "ok"
  /\ plan' = manifest.entries /\ root' = TRUE
  /\ pc' = "entry" /\ k' = 1 /\ report' = {} /\ clean' = TRUE
  /\ UNCHANGED <<manifest, outer, dir>>

Skip ==
  /\ pc = "entry" /\ k \in DOMAIN plan /\ IsDir(plan[k].name)
  /\ LET b == plan[k]
     IN  report' = IF OriginOf(b.name) = b.remote THEN report
                   ELSE report \cup {<<"mismatch", b.name>>}
  /\ k' = k + 1
  /\ UNCHANGED <<manifest, outer, root, dir, pc, plan, clean>>

Missing ==
  /\ pc = "entry" /\ k \in DOMAIN plan /\ ~IsDir(plan[k].name)
  /\ pc' = "clone"
  /\ UNCHANGED <<manifest, outer, root, dir, plan, k, report, clean>>

\* git makes the directory and writes its origin before it fetches
CloneStarts ==
  /\ pc = "clone" /\ dir[plan[k].name] = Absent /\ plan[k].remote \notin {None, Blank}
  /\ dir' = [dir EXCEPT ![plan[k].name] = [kind |-> "partial", url |-> plan[k].remote]]
  /\ pc' = "cloning"
  /\ UNCHANGED <<manifest, outer, root, plan, k, report, clean>>

\* The path is taken, or the remote cannot be reached.  check=True raises.
CloneRefused ==
  /\ pc = "clone" /\ pc' = "raised"
  /\ UNCHANGED <<manifest, outer, root, dir, plan, k, report, clean>>

CloneEnds ==
  /\ pc = "cloning"
  /\ dir' = [dir EXCEPT ![plan[k].name].kind = "dir"]
  /\ pc' = "entry" /\ k' = k + 1
  /\ UNCHANGED <<manifest, outer, root, plan, report, clean>>

\* git removes what it made
CloneFails ==
  /\ pc = "cloning"
  /\ dir' = [dir EXCEPT ![plan[k].name] = Absent]
  /\ pc' = "raised"
  /\ UNCHANGED <<manifest, outer, root, plan, k, report, clean>>

\* the launcher is killed, and git with it
Killed ==
  /\ Busy /\ pc' = "idle"
  /\ UNCHANGED <<manifest, outer, root, dir, plan, k, report, clean>>

End ==
  /\ pc = "entry" /\ k \notin DOMAIN plan
  /\ report' = report \cup {<<"extra", n>> : n \in Extras(plan)}
  /\ pc' = "done"
  /\ UNCHANGED <<manifest, outer, root, dir, plan, k, clean>>

-----------------------------------------------------------------------------
(* the operator *)

Edit ==
  /\ manifest' \in Manifests \ {manifest}
  /\ UNCHANGED <<outer, root, dir, syncVars, clean>>

\* a clone or a plain directory of one's own, a file, or nothing any more;
\* the directory of a running clone is left alone
Put(n) ==
  /\ ~Cloning(n) /\ root
  /\ \E d \in [kind : {"dir"}, url : GitHub \cup {None}] \cup {File, Absent} :
       dir' = [dir EXCEPT ![n] = d]
  /\ clean' = FALSE
  /\ UNCHANGED <<manifest, outer, root, syncVars>>

\* mkdir, or rm -r of the whole directory, which no operator does during a sync
PutRoot ==
  /\ ~Busy
  /\ root' = ~root /\ dir' = [n \in Name |-> Absent]
  /\ clean' = FALSE
  /\ UNCHANGED <<manifest, outer, syncVars>>

SyncStep ==
  \/ Begin \/ Skip \/ Missing \/ CloneStarts \/ CloneRefused \/ CloneEnds
  \/ CloneFails \/ Killed \/ End

Next == SyncStep \/ Edit \/ PutRoot \/ \E n \in Name : Put(n)

Spec == Init /\ [][Next]_vars

-----------------------------------------------------------------------------
\* The variables have their types.
TypeOK ==
  /\ manifest \in Manifests /\ outer \in GitHub \cup {None}
  /\ root \in BOOLEAN
  /\ dir \in [Name -> Kind]
  /\ pc \in {"idle", "entry", "clone", "cloning", "done", "raised"}
  /\ plan \in Seq(Entry) /\ k \in Nat \ {0}
  /\ report \subseteq {"mismatch", "extra"} \X (Name \cup {None})
  /\ clean \in BOOLEAN

\* A sync that nobody disturbs has, whenever it stops, a directory for each entry
\* before the one it is at, and nothing at the one whose clone failed, so that the
\* next sync goes on where this one stopped ("the clone-sync operation is idempotent",
\* features/bc_manifest.feature).
SyncedInOrder ==
  clean /\ (Busy \/ pc \in {"done", "raised"}) =>
    /\ \A i \in DOMAIN plan : i < k => IsDir(plan[i].name)
    /\ pc = "done" => \A i \in DOMAIN plan : IsDir(plan[i].name)
    /\ pc = "raised" => k \in DOMAIN plan /\ ~IsDir(plan[k].name)

\* Two pieces of code look at the directories: a completed sync warns of exactly what
\* validate rejects, but for directories that are in no repository at all, which only
\* sync finds at fault.
SyncThenValid ==
  pc = "done" /\ clean =>
    (DirsValid(plan) <=> report \subseteq {<<"mismatch", b.name>> : b \in Unreadable(plan)})

\* A manifest that validate accepts gives each of its BCs a source to launch from,
\* if there is a network and product: is not malformed (which only launch rejects).
ValidMeansLaunchable ==
  \A e \in Envs, f \in Options :
    /\ Valid(manifest, e, f, GitHub)
    /\ manifest.product # Malformed
    /\ Network(manifest, e, f) # None
    => \A i \in DOMAIN manifest.entries : Launches(manifest, e, f, manifest.entries[i].name)

\* "the readiness probe must target the broker by a host the LAUNCHED CONTAINER's
\* network can resolve" (networking.py), and start-agent "resolves the probe broker
\* address the same way launch does" (controller/_engage.py, from a copy of the code).
\* So it is for both when the product of the manifest decides network and slug, and
\* is `shopsystem` if slugified it is.
ProbeOnNetwork ==
  \A e \in Envs, f \in Options, n \in Name :
    LET product == LoadedProduct(manifest)
        broker  == BrokerOn(Network(manifest, e, f))
    IN  /\ Launches(manifest, e, f, n)
        /\ f.network = None /\ ExplicitBroker(e, f) = None
        /\ product # None /\ e.slug \in {None, product}
        /\ Slugified(product) = Default => product = Default
        => LaunchProbe(manifest, e, f) = broker /\ StartProbe(manifest, e, f) = broker

-----------------------------------------------------------------------------
(* Inductive strengthening: what the sync knows at each of its steps.  Whoever
   else touches directories falsifies clean; only that the entry to clone has a
   name does not depend on it. *)

NamedInv == pc \in {"clone", "cloning"} => k \in DOMAIN plan /\ plan[k].name \in Name

Undisturbed == clean /\ pc # "idle"

\* A clone is only begun where nothing is, so no earlier entry has its name, and
\* neither the clone nor git's clearing away changes what was said of earlier ones.
PassedInv ==
  Undisturbed =>
    /\ root
    /\ \A i \in DOMAIN plan : i < k => IsDir(plan[i].name)
    /\ pc = "clone" => ~IsDir(plan[k].name)
    /\ pc = "cloning" =>
         /\ dir[plan[k].name] = [kind |-> "partial", url |-> plan[k].remote]
         /\ plan[k].remote # None
         /\ \A i \in DOMAIN plan : i < k => plan[i].name # plan[k].name
    /\ pc = "done" => k \notin DOMAIN plan
    /\ pc = "raised" => k \in DOMAIN plan /\ ~IsDir(plan[k].name)

ReportInv ==
  Undisturbed =>
    \A n \in Name \cup {None} :
      /\ <<"mismatch", n>> \in report <=>
           \E i \in DOMAIN plan :
             i < k /\ plan[i].name = n /\ OriginOf(n) # plan[i].remote
      /\ <<"extra", n>> \in report <=> pc = "done" /\ n \in Extras(plan)

SyncInv == NamedInv /\ PassedInv /\ ReportInv
=============================================================================
