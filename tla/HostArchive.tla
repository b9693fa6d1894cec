------------------------------ MODULE HostArchive ------------------------------
(***************************************************************************)
(* The archive of the host's files on the hub.  scripts/host_archive_hf.py *)
(* drives one tag at a time: the host hashes the files asked for (plan),   *)
(* the laptop and then a job on the host send the objects the hub does not *)
(* hold, the laptop commits the files and the tag's manifest and reads the *)
(* tree back (commit).  outputs/host_ops/host_sync.py drives a new tag for *)
(* every file that no VERIFIED plan covers; other tags are driven by hand. *)
(* auto_cleanup.py hub-index lists the VERIFIED plans, and the host's      *)
(* cleaner removes a file that its copy of the list names at its size and  *)
(* time.  scripts/host_restore.py brings files back, newest manifest first *)
(*                                                                         *)
(* A hash is the content it is taken of, and the hub keeps an object once  *)
(* it has it.  A size and a time are a stamp, another at every write; one   *)
(* clock gives the stamps and the times of the manifests.  A later content *)
(* is a larger number.                                                    *)
(*                                                                         *)
(* Budget bounds what need not happen:                                     *)
(*   "write"   a job writes a file                                         *)
(*   "back"    ... with a content older than the one it replaces           *)
(*   "fail"    a request fails: an upload, or the drive with it            *)
(*   "kill"    a drive or an upload job is killed                          *)
(*   "hand"    a tag is driven by hand                                     *)
(*   "overlap" a drive starts while another one is under way               *)
(*   "replan"  a VERIFIED tag is driven again                              *)
(*   "restore" a file is brought back to the host                          *)
(*   "any"     all of these but "write", together                          *)
(***************************************************************************)
EXTENDS Naturals, FiniteSets

CONSTANTS
    Files,
    Contents,       \* what a file may hold
    Original,       \* file -> its content at first
    MaxTag,         \* tags, in the order of their names
    ByHand,         \* tags that host_sync does not make
    PerCommit,      \* --per-commit: files of one commit
    Budget,
    None

Tags == 1..MaxTag
Kinds == {"write", "back", "fail", "kill", "hand", "overlap", "replan", "restore", "any"}

ASSUME HostArchiveAssumption ==
    /\ Contents \subseteq Nat
    /\ Original \in [Files -> Contents]
    /\ MaxTag \in Nat
    /\ ByHand \subseteq Tags
    /\ PerCommit \in Nat \ {0}
    /\ Budget \in [Kinds -> Nat]
    /\ None \notin Nat
    /\ None \notin [content : Contents, stamp : Nat]

VARIABLES
    latest,     \* file -> the content and stamp it was last written with
    here,       \* files that are on the host
    fresh,      \* files written less than QUIET_S ago, or named by a running job
    clock,      \* the time of the next write or manifest
    index,      \* hub_index.json on the host: file -> what it lists
    objects,    \* contents whose objects the hub holds
    tree,       \* file -> the content committed at its path
    manifest,   \* tag -> manifests/<tag>.json: file -> content
    order,      \* tag -> when its manifest was committed
    plan,       \* tag -> plan_<tag>.json: file -> content and stamp
    commit,     \* tag -> status of commit_<tag>.json
    at,         \* tag -> where its drive is
    asked,      \* tag -> files its drive includes
    upload,     \* tag -> files of the plan whose objects are to be sent
    sent,       \* tag -> files recorded as uploaded
    rest,       \* tag -> files that its upload job has not tried
    done,       \* tag -> files that its upload job has sent
    todo,       \* tag -> files that its drive has still to commit
    left        \* of the budget

hostVars == <<latest, here, fresh, clock, index>>
hubVars == <<objects, tree, manifest, order>>
recordVars == <<plan, commit>>
jobVars == <<rest, done>>
driveVars == <<at, asked, upload, sent, todo>>
vars == <<latest, here, fresh, clock, index, objects, tree, manifest, order, plan,
          commit, at, asked, upload, sent, rest, done, todo, left>>

-----------------------------------------------------------------------------
NoFiles == [f \in Files |-> None]
Nothing == [t \in Tags |-> {}]
Phases == {"idle", "planning", "sending", "waiting", "posting", "reading"}

Init ==
    /\ latest = [f \in Files |-> [content |-> Original[f], stamp |-> 0]]
    /\ here = Files
    /\ fresh = {}
    /\ clock = 1
    /\ index = NoFiles
    /\ objects = {}
    /\ tree = NoFiles
    /\ manifest = [t \in Tags |-> NoFiles]
    /\ order = [t \in Tags |-> 0]
    /\ plan = [t \in Tags |-> NoFiles]
    /\ commit = [t \in Tags |-> "none"]
    /\ at = [t \in Tags |-> "idle"]
    /\ asked = Nothing /\ upload = Nothing /\ sent = Nothing
    /\ rest = Nothing /\ done = Nothing /\ todo = Nothing
    /\ left = Budget

Spend(kinds) ==
    LET costs == IF kinds \ {"write"} = {} THEN kinds ELSE kinds \cup {"any"}
    IN  /\ \A k \in costs : left[k] > 0
        /\ left' = [k \in Kinds |-> IF k \in costs THEN left[k] - 1 ELSE left[k]]

Spent(kind) == left[kind] # Budget[kind]

Only(cond, kind) == IF cond THEN {kind} ELSE {}

Goes(t, phase) == at' = [at EXCEPT ![t] = phase]

Ends(t) ==
    /\ Goes(t, "idle")
    /\ asked' = [asked EXCEPT ![t] = {}]
    /\ upload' = [upload EXCEPT ![t] = {}]
    /\ sent' = [sent EXCEPT ![t] = {}]
    /\ todo' = [todo EXCEPT ![t] = {}]

Active == {t \in Tags : at[t] # "idle"}

\* The upload job of a tag is on the host.
Runs(t) == rest[t] # {}

-----------------------------------------------------------------------------
(* The records                                                              *)

\* Mutant: the status of the record is not looked at.
ListingPlanned(f) == {t \in Tags : commit[t] # "none" /\ plan[t][f] # None}

\* VERIFIED tags whose plan names f, and the row that a reader of all of them
\* in the order of their names is left with.
Listing(f) == {t \in Tags : commit[t] = "VERIFIED" /\ plan[t][f] # None}
LastOf(S) == {t \in S : \A u \in S : u <= t}
Row(f) == IF LastOf(Listing(f)) = {} THEN None
          ELSE plan[CHOOSE t \in LastOf(Listing(f)) : TRUE][f]

\* hub-index, and the index's way to the host.
MakeIndex ==
    /\ index' = [f \in Files |-> Row(f)]
    /\ UNCHANGED <<latest, here, fresh, clock>>
    /\ UNCHANGED <<hubVars, recordVars, jobVars, driveVars, left>>

\* Mutant: a file that is listed at all is on the hub.
CoveredOnce(f) == Row(f) # None

\* A file whose time differs is hashed on the host, and its content decides.
Covered(f) == Row(f) # None /\ Row(f).content = latest[f].content
Uncovered == {f \in here \ fresh : ~Covered(f)}

-----------------------------------------------------------------------------
(* Files of the host                                                        *)

Write(f) ==
    /\ \E c \in Contents :
        /\ Spend({"write"} \cup Only(c < latest[f].content, "back"))
        /\ latest' = [latest EXCEPT ![f] = [content |-> c, stamp |-> clock]]
    /\ clock' = clock + 1
    /\ here' = here \cup {f}
    /\ fresh' = fresh \cup {f}
    /\ UNCHANGED <<index, hubVars, recordVars, jobVars, driveVars>>

Settle(f) ==
    /\ f \in fresh
    /\ fresh' = fresh \ {f}
    /\ UNCHANGED <<latest, here, clock, index>>
    /\ UNCHANGED <<hubVars, recordVars, jobVars, driveVars, left>>

\* The cleaner takes a file as it is listed.
Remove(f) ==
    /\ f \in here
    /\ index[f] = latest[f]
    /\ here' = here \ {f}
    /\ UNCHANGED <<latest, fresh, clock, index>>
    /\ UNCHANGED <<hubVars, recordVars, jobVars, driveVars, left>>

\* A restore of tag t downloads what the tree holds at f and keeps it if it has
\* the manifest's hash; a file that is there is left alone.
Restore(t, f) ==
    /\ f \notin here
    /\ manifest[t][f] # None /\ manifest[t][f] = tree[f]
    /\ Spend({"restore"})
    /\ here' = here \cup {f}
    /\ latest' = [latest EXCEPT ![f] = [content |-> tree[f], stamp |-> clock]]
    /\ clock' = clock + 1
    /\ fresh' = fresh \cup {f}
    /\ UNCHANGED <<index, hubVars, recordVars, jobVars, driveVars>>

-----------------------------------------------------------------------------
(* A drive begins                                                           *)

Begin(t, F) ==
    /\ at[t] = "idle"
    /\ Goes(t, "planning")
    /\ asked' = [asked EXCEPT ![t] = F]
    /\ UNCHANGED <<upload, sent, todo, hostVars, hubVars, recordVars, jobVars>>

Used(t) == at[t] # "idle" \/ plan[t] # NoFiles

\* host_sync makes one tag after the other, each with the time in its name, and
\* waits while an upload job is on the host; it knows of no other drive.
Cover ==
    \E t \in Tags \ ByHand :
        /\ \A u \in Tags \ ByHand : at[u] = "idle" /\ (Used(u) <=> u < t)
        /\ \A u \in Tags : ~Runs(u)
        /\ Uncovered # {}
        /\ Begin(t, Uncovered)
        /\ IF Active = {} THEN UNCHANGED left ELSE Spend({"overlap"})

DriveByHand(t) ==
    /\ t \in ByHand
    /\ ~Runs(t)
    /\ \E F \in SUBSET Files \ {{}} : Begin(t, F)
    /\ Spend({"hand"} \cup Only(\E u \in Tags : u \in Active \/ Runs(u), "overlap")
                      \cup Only(commit[t] = "VERIFIED", "replan"))

\* Whoever drives gives up: SystemExit, or the process is killed.
GiveUp(t) ==
    /\ at[t] # "idle"
    /\ \/ Spend({"fail"})
       \/ Spend({"kill"})
    /\ Ends(t)
    /\ UNCHANGED <<hostVars, hubVars, recordVars, jobVars>>

-----------------------------------------------------------------------------
(* plan                                                                     *)

\* Files of one content are one object, sent by the first of them.
Owner(p, f) == CHOOSE g \in Files : p[g] # None /\ p[g].content = p[f].content

Plan(t) ==
    /\ at[t] = "planning"
    /\ LET p == [f \in Files |-> IF f \in asked[t] \cap here THEN latest[f] ELSE None]
       IN  \/ /\ p = NoFiles
              /\ Ends(t)
              /\ UNCHANGED <<plan, jobVars>>
           \/ /\ p # NoFiles
              /\ Goes(t, "sending")
              /\ plan' = [plan EXCEPT ![t] = p]
              /\ upload' = [upload EXCEPT ![t] = {f \in Files :
                     p[f] # None /\ p[f].content \notin objects /\ Owner(p, f) = f}]
              /\ rest' = [rest EXCEPT ![t] = {}]
              /\ done' = [done EXCEPT ![t] = {}]
              /\ UNCHANGED <<asked, sent, todo>>
    /\ UNCHANGED <<commit, hostVars, hubVars, left>>

-----------------------------------------------------------------------------
(* Objects are sent                                                         *)

ContentsOf(t, F) == {plan[t][f].content : f \in F}

\* The laptop sends what it has copies of, by their hash; the host gets the rest.
LaptopSends(t) ==
    /\ at[t] = "sending"
    /\ Goes(t, "waiting")
    /\ \E S \in SUBSET upload[t] :
        /\ objects' = objects \cup ContentsOf(t, S)
        /\ sent' = [sent EXCEPT ![t] = S]
        /\ rest' = [rest EXCEPT ![t] = upload[t] \ S]
    /\ UNCHANGED <<asked, upload, todo, done, tree, manifest, order>>
    /\ UNCHANGED <<hostVars, recordVars, left>>

\* The job sends a file that has not changed since it was planned; it ends with
\* the last one.
HostSends(t) ==
    /\ \E f \in rest[t] :
        /\ rest' = [rest EXCEPT ![t] = @ \ {f}]
        /\ \/ /\ f \in here /\ latest[f] = plan[t][f]
              /\ objects' = objects \cup ContentsOf(t, {f})
              /\ done' = [done EXCEPT ![t] = @ \cup {f}]
              /\ UNCHANGED left
           \/ /\ f \notin here \/ latest[f] # plan[t][f]
              /\ UNCHANGED <<objects, done, left>>
           \/ /\ f \in here /\ latest[f] = plan[t][f]
              /\ Spend({"fail"})
              /\ UNCHANGED <<objects, done>>
    /\ UNCHANGED <<tree, manifest, order>>
    /\ UNCHANGED <<hostVars, recordVars, driveVars>>

\* A job that is killed leaves no record of what it sent.
HostDies(t) ==
    /\ Runs(t)
    /\ Spend({"kill"})
    /\ rest' = [rest EXCEPT ![t] = {}]
    /\ done' = [done EXCEPT ![t] = {}]
    /\ UNCHANGED <<hostVars, hubVars, recordVars, driveVars>>

-----------------------------------------------------------------------------
(* commit                                                                   *)

Planned(t) == {f \in Files : plan[t][f] # None}
Ready(t, s) == {f \in Planned(t) : Owner(plan[t], f) \in upload[t] => Owner(plan[t], f) \in s}
Differs(t, F) == {f \in F : tree[f] # plan[t][f].content}

\* rx run -w has returned.  Its record is fetched if there is one, and the tree
\* is read.
Check(t) ==
    /\ at[t] = "waiting"
    /\ ~Runs(t)
    /\ Goes(t, "posting")
    /\ LET s == sent[t] \cup done[t]
       IN  /\ sent' = [sent EXCEPT ![t] = s]
           /\ todo' = [todo EXCEPT ![t] = Differs(t, Ready(t, s))]
    /\ UNCHANGED <<asked, upload, hostVars, hubVars, recordVars, jobVars, left>>

Post(t) ==
    /\ at[t] = "posting"
    /\ \E F \in SUBSET todo[t] \ {{}} :
        /\ Cardinality(F) = PerCommit \/ (F = todo[t] /\ Cardinality(F) < PerCommit)
        /\ tree' = [f \in Files |-> IF f \in F THEN plan[t][f].content ELSE tree[f]]
        /\ todo' = [todo EXCEPT ![t] = @ \ F]
    /\ UNCHANGED <<at, asked, upload, sent, objects, manifest, order>>
    /\ UNCHANGED <<hostVars, recordVars, jobVars, left>>

PostManifest(t) ==
    /\ at[t] = "posting"
    /\ todo[t] = {}
    /\ Goes(t, "reading")
    /\ manifest' = [manifest EXCEPT ![t] =
           [f \in Files |-> IF f \in Ready(t, sent[t]) THEN plan[t][f].content ELSE None]]
    /\ order' = [order EXCEPT ![t] = clock]
    /\ clock' = clock + 1
    /\ UNCHANGED <<asked, upload, sent, todo, objects, tree, latest, here, fresh, index>>
    /\ UNCHANGED <<recordVars, jobVars, left>>

\* Mutant: what could not be sent is left out of the verdict.
FinishSent(t) ==
    /\ at[t] = "reading"
    /\ Ends(t)
    /\ commit' = [commit EXCEPT ![t] =
           IF Differs(t, Ready(t, sent[t])) = {} THEN "VERIFIED" ELSE "INCOMPLETE"]
    /\ UNCHANGED <<plan, hostVars, hubVars, jobVars, left>>

\* The tree is read again, and the tag's record written.
Finish(t) ==
    /\ at[t] = "reading"
    /\ Ends(t)
    /\ commit' = [commit EXCEPT ![t] =
           IF Planned(t) = Ready(t, sent[t]) /\ Differs(t, Planned(t)) = {}
           THEN "VERIFIED" ELSE "INCOMPLETE"]
    /\ UNCHANGED <<plan, hostVars, hubVars, jobVars, left>>

-----------------------------------------------------------------------------
DriveStep(t) ==
    \/ Plan(t) \/ LaptopSends(t) \/ Check(t)
    \/ Post(t) \/ PostManifest(t) \/ Finish(t)

Next ==
    \/ MakeIndex
    \/ Cover
    \/ \E f \in Files : Write(f) \/ Settle(f) \/ Remove(f)
    \/ \E t \in Tags :
        \/ DriveByHand(t)
        \/ DriveStep(t)
        \/ HostSends(t)
        \/ HostDies(t)
        \/ GiveUp(t)
        \/ \E f \in Files : Restore(t, f)

Spec == Init /\ [][Next]_vars

\* host_sync goes round for good, a drive and a job on the host go on until
\* they end, and a file that nothing writes settles.
FairSpec ==
    /\ Spec
    /\ WF_vars(Cover)
    /\ \A f \in Files : WF_vars(Settle(f))
    /\ \A t \in Tags : WF_vars(DriveStep(t)) /\ WF_vars(HostSends(t))

-----------------------------------------------------------------------------
(* Properties                                                               *)

Row0 == [content : Contents, stamp : Nat]

\* The shape of the state (stage_plan, stage_drive, stage_commit, hub_index).
TypeOK ==
    /\ latest \in [Files -> Row0]
    /\ here \subseteq Files /\ fresh \subseteq Files
    /\ clock \in Nat
    /\ index \in [Files -> Row0 \cup {None}]
    /\ objects \subseteq Contents
    /\ tree \in [Files -> Contents \cup {None}]
    /\ manifest \in [Tags -> [Files -> Contents \cup {None}]]
    /\ order \in [Tags -> Nat]
    /\ plan \in [Tags -> [Files -> Row0 \cup {None}]]
    /\ commit \in [Tags -> {"none", "INCOMPLETE", "VERIFIED"}]
    /\ at \in [Tags -> Phases]
    /\ asked \in [Tags -> SUBSET Files]
    /\ upload \in [Tags -> SUBSET Files]
    /\ sent \in [Tags -> SUBSET Files]
    /\ rest \in [Tags -> SUBSET Files]
    /\ done \in [Tags -> SUBSET Files]
    /\ todo \in [Tags -> SUBSET Files]
    /\ left \in [Kinds -> Nat]

\* No drive has started beside another, and no VERIFIED tag has been planned anew.
Undisturbed == ~Spent("overlap") /\ ~Spent("replan")

\* A restore of everything, newest manifest first, gives f the content c:
\* host_restore.py takes f from the newest manifest that names it, and every
\* older one is then a conflict and left alone.
Restores(f, c) ==
    /\ tree[f] = c
    /\ \E t \in Tags :
        /\ manifest[t][f] = c
        /\ \A u \in Tags : manifest[u][f] # None /\ order[u] >= order[t] => manifest[u][f] = c

\* The cleaner takes a file from the host only when a restore brings back what
\* the file held: the list that it goes by was made of plans, some time ago,
\* while files are rewritten, drives fail, are killed and are driven again, and
\* files are brought back (auto_cleanup.py 416-418, host_restore.py 8-10).
RemovedIsRestorable ==
    Undisturbed => \A f \in Files \ here : Restores(f, latest[f].content)

\* A file that coverage() counts as on the hub and leaves out of every later
\* tag is on the hub as it stands: its plan was carried out, and no other tag
\* has put something else at its path since (host_sync.py 341-349, 360-366).
CoveredIsHeld ==
    Undisturbed /\ ~Spent("back") =>
        \A f \in here : Covered(f) => tree[f] = latest[f].content

\* Whatever fails or is killed on the way, every file comes to be in the tree
\* as it is on the host, once nothing writes it any more (host_sync.py 419-466).
EveryFileIsArchived ==
    <>[](Undisturbed /\ ~Spent("back") => \A f \in here : tree[f] = latest[f].content)

\* "The order leaves every file at its newest archived version"
\* (host_restore.py 8): between drives, of the files that a manifest names, what
\* the tree holds.
RestoreLeavesTheNewest ==
    Undisturbed /\ Active = {} =>
        \A f \in Files : (\E t \in Tags : manifest[t][f] # None) => Restores(f, tree[f])
=============================================================================
