------------------------------- MODULE Replicate -------------------------------
(***************************************************************************)
(* scripts/replicate_volume.py: a slice of a data volume is downloaded to  *)
(* a staging directory, uploaded to the volume of another workspace, and   *)
(* verified there.  The three commands are run by hand, any number of      *)
(* times and in any order; slices share the staging directory, and the     *)
(* commands of different slices may run beside each other.  Each slice has *)
(* one manifest, the record of its last download.                          *)
(*                                                                         *)
(* A digest is the content it is taken of.  The staging directory is on    *)
(* Windows: a file that some process has open is neither renamed nor       *)
(* removed.                                                                *)
(*                                                                         *)
(* Budget bounds what need not happen:                                     *)
(*   "change"  a file of the source is written anew                        *)
(*   "overlap" a download starts beside another that shares a file with it *)
(*   "cut"     a stream ends early or raises                               *)
(*   "stall"   a stream stops delivering                                   *)
(*   "kill"    a command is killed                                         *)
(*   "listing" a listing of the source fails                               *)
(*   "landing" an uploaded file lands short                                *)
(*   "any"     all of these but "change", together                         *)
(***************************************************************************)
EXTENDS Naturals, FiniteSets

CONSTANTS
    Files,          \* paths of the volume
    Slices,         \* --slice
    Wanted,         \* slice -> the files that build_plan looks for
    Prefixes,       \* sets of files that one listing answers for
    Contents,       \* what a file may hold
    Original,       \* file -> what the source holds at first
    SizeOf,         \* content -> bytes
    Attempts,       \* FETCH_ATTEMPTS
    Budget,
    None,           \* no file
    Torn,           \* less than the whole of a file
    Mixed           \* bytes of the right number that no stream delivered

Kinds == {"change", "overlap", "cut", "stall", "kill", "listing", "landing", "any"}

ASSUME ReplicateAssumption ==
    /\ Wanted \in [Slices -> SUBSET Files]
    /\ Prefixes \subseteq SUBSET Files
    /\ Original \in [Files -> Contents]
    /\ {None, Torn, Mixed} \cap Contents = {}
    /\ None # Torn /\ None # Mixed /\ Torn # Mixed /\ None \notin Nat
    /\ SizeOf \in [Contents \cup {Torn, Mixed} -> Nat]
    /\ \A c \in Contents \cup {Mixed} : SizeOf[Torn] < SizeOf[c]
    /\ Attempts \in Nat \ {0}
    /\ Budget \in [Kinds -> Nat]

VARIABLES
    source,     \* the volume that is copied: its contents
    was,        \* history: every content a file of the source has had
    staged,     \* the staging directory
    part,       \* file -> the commands that have written its .partial file
    target,     \* the volume of the other workspace
    manifest,   \* slice -> what its last download recorded
    at,         \* slice -> the command that runs for it
    size,       \* slice -> the sizes that the command's listing gave
    file,       \* slice -> where the command is with each file
    tries,      \* slice -> streams opened for the file
    entry,      \* slice -> the content whose digest the command took
    todo,       \* slice -> files that an upload has not looked at yet
    queue,      \* slice -> files of the batch that is not committed yet
    verdict,    \* slice -> what its last command concluded about the replica
    left        \* of the budget

stageVars == <<staged, part>>
streamVars == <<file, tries, entry>>
uploadVars == <<todo, queue>>
worldVars == <<source, was>>
vars == <<source, was, staged, part, target, manifest, at, size, file, tries,
          entry, todo, queue, verdict, left>>

-----------------------------------------------------------------------------
Held == Contents \cup {Torn, Mixed}
MaybeHeld == Held \cup {None}
Ended == {"done", "failed"}
Reports == {"ok", "missing", "size", "sha", "unread"}
FileStates == {"none", "waiting", "open", "quiet"} \cup Ended \cup Reports
Commands == {"idle", "download", "saving", "upload", "size", "deep"}

\* The size a listing gives: None for a file that is not there.
Listed(c) == IF c = None THEN None ELSE SizeOf[c]

NoFiles == [f \in Files |-> None]
NoManifest == [state |-> "absent", files |-> NoFiles, failed |-> {}]
BrokenManifest == [NoManifest EXCEPT !.state = "broken"]

Init ==
    /\ source = Original
    /\ was = [f \in Files |-> {source[f]}]
    /\ staged = NoFiles
    /\ part = [f \in Files |-> {}]
    /\ target = NoFiles
    /\ manifest = [s \in Slices |-> NoManifest]
    /\ at = [s \in Slices |-> "idle"]
    /\ size = [s \in Slices |-> NoFiles]
    /\ file = [s \in Slices |-> [f \in Files |-> "none"]]
    /\ tries = [s \in Slices |-> [f \in Files |-> 0]]
    /\ entry = [s \in Slices |-> NoFiles]
    /\ todo = [s \in Slices |-> {}]
    /\ queue = [s \in Slices |-> {}]
    /\ verdict = [s \in Slices |-> "none"]
    /\ left = Budget

Goes(s, f, state) == file' = [file EXCEPT ![s][f] = state]

Spend(kind) ==
    LET costs == IF kind = "change" THEN {kind} ELSE {kind, "any"}
    IN  /\ \A k \in costs : left[k] > 0
        /\ left' = [k \in Kinds |-> IF k \in costs THEN left[k] - 1 ELSE left[k]]

Spent(kind) == left[kind] # Budget[kind]

\* A command of slice s begins with the files F.
Begins(s, command, F, sizes) ==
    /\ at' = [at EXCEPT ![s] = command]
    /\ size' = [size EXCEPT ![s] = sizes]
    /\ file' = [file EXCEPT ![s] = [f \in Files |-> IF f \in F THEN "waiting" ELSE "none"]]
    /\ tries' = [tries EXCEPT ![s] = [f \in Files |-> 0]]
    /\ entry' = [entry EXCEPT ![s] = NoFiles]
    /\ verdict' = [verdict EXCEPT ![s] = "none"]

-----------------------------------------------------------------------------
(* download                                                                 *)

Downloading(s) == at[s] = "download"

\* Another download works on the same files.
Shared(s) == \E r \in Slices \ {s} : Downloading(r) /\ Wanted[r] \cap Wanted[s] # {}

\* build_plan lists the source prefix by prefix.  A prefix whose listing fails
\* counts as absent: its files are not in the plan.
Download(s) ==
    /\ at[s] = "idle"
    /\ \E F \in SUBSET Wanted[s] :
        /\ \/ /\ F = Wanted[s] /\ ~Shared(s) /\ UNCHANGED left
           \/ /\ F = Wanted[s] /\ Shared(s) /\ Spend("overlap")
           \/ /\ \E gap \in Prefixes : F = Wanted[s] \ gap
              /\ ~Shared(s) /\ Spend("listing")
        /\ Begins(s, "download", F, [f \in Files |-> IF f \in F THEN Listed(source[f]) ELSE None])
    /\ UNCHANGED <<worldVars, stageVars, target, manifest, uploadVars>>

\* What is staged already in the size that the volume reports.
IsStaged(s, f) == staged[f] # None /\ SizeOf[staged[f]] = size[s][f]

\* The staged file is taken for the right one, and hashed for the manifest.
Skip(s, f) ==
    /\ Downloading(s) /\ file[s][f] = "waiting" /\ tries[s][f] = 0
    /\ IsStaged(s, f)
    /\ Goes(s, f, "done")
    /\ entry' = [entry EXCEPT ![s][f] = staged[f]]
    /\ UNCHANGED <<worldVars, stageVars, target, manifest, at, size, tries, uploadVars, verdict, left>>

HasOpen(r, f) == Downloading(r) /\ file[r][f] \in {"open", "quiet"}
OpenElsewhere(s, f) == \E r \in Slices \ {s} : HasOpen(r, f)

\* An attempt opens the .partial file, which empties it, and a fresh stream.
OpenStream(s, f) ==
    /\ Downloading(s) /\ file[s][f] = "waiting"
    /\ tries[s][f] = 0 => ~IsStaged(s, f)
    /\ Goes(s, f, "open")
    /\ tries' = [tries EXCEPT ![s][f] = @ + 1]
    /\ part' = [part EXCEPT ![f] = {s} \cup {r \in Slices : HasOpen(r, f)}]
    /\ UNCHANGED <<worldVars, staged, target, manifest, at, size, entry, uploadVars, verdict, left>>

\* What a stream delivers: the file as it is now, or less (the stream ends early
\* or raises).
Delivers(now, c) ==
    \/ c = now /\ UNCHANGED left
    \/ c = Torn /\ Spend("cut")

\* Only as many bytes as the volume reported are a whole file.
\* Mutant: whatever ended without an exception.
IsWholeAny(s, f, c) == TRUE
IsWhole(s, f, c) == SizeOf[c] = size[s][f]

\* The .partial file takes the real name.  What others wrote into it, and holes
\* where they emptied it, go with it; the digest is of what was received.
Promote(s, f, c) ==
    /\ \E d \in {c} \cup (IF part[f] = {s} THEN {} ELSE {Mixed}) :
          staged' = [staged EXCEPT ![f] = d]
    /\ part' = [part EXCEPT ![f] = {}]
    /\ entry' = [entry EXCEPT ![s][f] = c]
    /\ Goes(s, f, "done")

\* A stream that did not deliver the file: a fresh one, or the file is given up.
GoAgain(s, f, end) == Goes(s, f, IF tries[s][f] < Attempts THEN "waiting" ELSE end)

\* ... after the .partial file was removed.
Discard(s, f) ==
    /\ GoAgain(s, f, "failed")
    /\ part' = [part EXCEPT ![f] = {}]
    /\ UNCHANGED <<staged, entry>>

\* Renaming and removing raise while another command has the .partial file open.
Raise(s, f) ==
    /\ Goes(s, f, "failed")
    /\ UNCHANGED <<stageVars, entry>>

Receive(s, f) ==
    /\ Downloading(s) /\ file[s][f] = "open"
    /\ \E c \in Held :
        /\ Delivers(source[f], c)
        /\ \/ OpenElsewhere(s, f) /\ Raise(s, f)
           \/ ~OpenElsewhere(s, f) /\ IsWhole(s, f, c) /\ Promote(s, f, c)
           \/ ~OpenElsewhere(s, f) /\ ~IsWhole(s, f, c) /\ Discard(s, f)
    /\ UNCHANGED <<worldVars, target, manifest, at, size, tries, uploadVars, verdict>>

\* The manifest is written in place when every file has ended ...
BeginSave(s) ==
    /\ Downloading(s) /\ \A f \in Files : file[s][f] \in Ended \cup {"none"}
    /\ at' = [at EXCEPT ![s] = "saving"]
    /\ manifest' = [manifest EXCEPT ![s] = BrokenManifest]
    /\ UNCHANGED <<worldVars, stageVars, target, size, streamVars, uploadVars, verdict, left>>

\* ... with what arrived and the names of what did not.
Record(s) ==
    [state  |-> "written",
     files  |-> [f \in Files |-> IF file[s][f] = "done" THEN entry[s][f] ELSE None],
     failed |-> {f \in Files : file[s][f] = "failed"}]

Save(s) ==
    /\ at[s] = "saving"
    /\ manifest' = [manifest EXCEPT ![s] = Record(s)]
    /\ at' = [at EXCEPT ![s] = "idle"]
    /\ UNCHANGED <<worldVars, stageVars, target, size, streamVars, uploadVars, verdict, left>>

-----------------------------------------------------------------------------
(* upload                                                                   *)

\* _load_manifest: a record of a download in which no file failed.
\* Mutant: the names of files that failed are not looked at.
UsableAny(m) == m.state = "written"
Usable(m) == m.state = "written" /\ m.failed = {}

Recorded(s) == {f \in Files : manifest[s].files[f] # None}

\* What the target has in the recorded size is left alone.
Present(s, f) == Listed(target[f]) = SizeOf[manifest[s].files[f]]

Upload(s) ==
    /\ at[s] = "idle" /\ Usable(manifest[s])
    /\ Begins(s, "upload", {}, NoFiles)
    /\ todo' = [todo EXCEPT ![s] = {f \in Recorded(s) : ~Present(s, f)}]
    /\ queue' = [queue EXCEPT ![s] = {}]
    /\ UNCHANGED <<worldVars, stageVars, target, manifest, left>>

Stageable(s, f) == staged[f] # None /\ SizeOf[staged[f]] = SizeOf[manifest[s].files[f]]

Enqueue(s, f) ==
    /\ at[s] = "upload" /\ f \in todo[s] /\ Stageable(s, f)
    /\ todo' = [todo EXCEPT ![s] = @ \ {f}]
    /\ queue' = [queue EXCEPT ![s] = @ \cup {f}]
    /\ UNCHANGED <<worldVars, stageVars, target, manifest, at, size, streamVars, verdict, left>>

\* A staged file that is missing or of another size ends the command; the batch
\* that is not committed yet is lost.
Refuse(s) ==
    /\ at[s] = "upload" /\ \E f \in todo[s] : ~Stageable(s, f)
    /\ at' = [at EXCEPT ![s] = "idle"]
    /\ todo' = [todo EXCEPT ![s] = {}]
    /\ queue' = [queue EXCEPT ![s] = {}]
    /\ UNCHANGED <<worldVars, stageVars, target, manifest, size, streamVars, verdict, left>>

\* The batch is committed as a whole: when it is large enough, and at the end.
\* It takes what is staged now; a file may land short.
Flush(s) ==
    /\ at[s] = "upload" /\ queue[s] # {}
    /\ \/ /\ target' = [f \in Files |-> IF f \in queue[s] THEN staged[f] ELSE target[f]]
          /\ UNCHANGED left
       \/ /\ Spend("landing")
          /\ \E g \in queue[s] : target' = [f \in Files |->
                IF f = g THEN Torn ELSE IF f \in queue[s] THEN staged[f] ELSE target[f]]
    /\ queue' = [queue EXCEPT ![s] = {}]
    /\ UNCHANGED <<worldVars, stageVars, manifest, at, size, streamVars, todo, verdict>>

Uploaded(s) ==
    /\ at[s] = "upload" /\ todo[s] = {} /\ queue[s] = {}
    /\ at' = [at EXCEPT ![s] = "idle"]
    /\ UNCHANGED <<worldVars, stageVars, target, manifest, size, streamVars, uploadVars, verdict, left>>

-----------------------------------------------------------------------------
(* verify                                                                   *)

Verifying(s) == at[s] \in {"size", "deep"}

\* verify, or verify --deep: the target is listed once.
Verify(s, mode) ==
    /\ at[s] = "idle" /\ Usable(manifest[s])
    /\ Begins(s, mode, Recorded(s), [f \in Files |-> Listed(target[f])])
    /\ UNCHANGED <<worldVars, stageVars, target, manifest, uploadVars, left>>

\* What the listing alone says of a file; deep, a file of the right size is read.
Compare(s, f) ==
    /\ Verifying(s) /\ file[s][f] = "waiting"
    /\ LET found == size[s][f]
           wanted == SizeOf[manifest[s].files[f]]
       IN  \/ /\ found = None /\ Goes(s, f, "missing") /\ UNCHANGED tries
           \/ /\ found # None /\ found # wanted
              /\ Goes(s, f, "size") /\ UNCHANGED tries
           \/ /\ found = wanted /\ at[s] = "size"
              /\ Goes(s, f, "ok") /\ UNCHANGED tries
           \/ /\ found = wanted /\ at[s] = "deep"
              /\ Goes(s, f, "open")
              /\ tries' = [tries EXCEPT ![s][f] = @ + 1]
    /\ UNCHANGED <<worldVars, stageVars, target, manifest, at, size, entry, uploadVars, verdict, left>>

\* The verifier has read the whole file; other than the listed number of bytes
\* is a stream that ended early, not a different file.
Digest(s, f) ==
    /\ at[s] = "deep" /\ file[s][f] = "open"
    /\ \E c \in Held :
        /\ Delivers(target[f], c)
        /\ \/ /\ IsWhole(s, f, c)
              /\ entry' = [entry EXCEPT ![s][f] = c]
              /\ Goes(s, f, IF c = manifest[s].files[f] THEN "ok" ELSE "sha")
           \/ /\ ~IsWhole(s, f, c)
              /\ GoAgain(s, f, "unread") /\ UNCHANGED entry
    /\ UNCHANGED <<worldVars, stageVars, target, manifest, at, size, tries, uploadVars, verdict>>

\* Mutant: what could not be read is not counted as bad.
PassedUnread(s) == \A f \in Files : file[s][f] \in {"ok", "none", "unread"}
Passed(s) == \A f \in Files : file[s][f] \in {"ok", "none"}

Conclude(s) ==
    /\ Verifying(s) /\ \A f \in Files : file[s][f] \in Reports \cup {"none"}
    /\ verdict' = [verdict EXCEPT ![s] = IF Passed(s) THEN at[s] ELSE "none"]
    /\ at' = [at EXCEPT ![s] = "idle"]
    /\ UNCHANGED <<worldVars, stageVars, target, manifest, size, streamVars, uploadVars, left>>

-----------------------------------------------------------------------------
(* streams of both, and the rest of the world                               *)

Streaming(s) == at[s] \in {"download", "deep"}

\* A stream stops delivering without ending.
Stall(s, f) ==
    /\ Streaming(s) /\ file[s][f] = "open"
    /\ Spend("stall")
    /\ Goes(s, f, "quiet")
    /\ UNCHANGED <<worldVars, stageVars, target, manifest, at, size, tries, entry, uploadVars, verdict>>

\* _blocks gives up on it after STALL_TIMEOUT_SECONDS.
\* Mutant: the stalled stream is waited for again.
TimeOutWaits(s, f) == file[s][f] = "quiet" /\ UNCHANGED vars
TimeOut(s, f) ==
    /\ file[s][f] = "quiet"
    /\ \/ Downloading(s) /\ OpenElsewhere(s, f) /\ Raise(s, f)
       \/ Downloading(s) /\ ~OpenElsewhere(s, f) /\ Discard(s, f)
       \/ at[s] = "deep" /\ GoAgain(s, f, "unread") /\ UNCHANGED <<stageVars, entry>>
    /\ UNCHANGED <<worldVars, target, manifest, at, size, tries, uploadVars, verdict, left>>

\* A command is killed.  Its .partial files and committed batches stay.
Kill(s) ==
    /\ at[s] # "idle" /\ Spend("kill")
    /\ at' = [at EXCEPT ![s] = "idle"]
    /\ todo' = [todo EXCEPT ![s] = {}]
    /\ queue' = [queue EXCEPT ![s] = {}]
    /\ UNCHANGED <<worldVars, stageVars, target, manifest, size, streamVars, verdict>>

\* A file of the source is written anew.
Change(f) ==
    /\ Spend("change")
    /\ \E c \in Contents \ {source[f]} :
          /\ source' = [source EXCEPT ![f] = c]
          /\ was' = [was EXCEPT ![f] = @ \cup {c}]
    /\ UNCHANGED <<stageVars, target, manifest, at, size, streamVars, uploadVars, verdict>>

FileStep(s, f) ==
    \/ Skip(s, f) \/ OpenStream(s, f) \/ Receive(s, f)
    \/ Compare(s, f) \/ Digest(s, f) \/ TimeOut(s, f)
    \/ Enqueue(s, f)

\* What a running command does by itself.
Step(s) ==
    \/ \E f \in Files : FileStep(s, f)
    \/ BeginSave(s) \/ Save(s)
    \/ Refuse(s) \/ Flush(s) \/ Uploaded(s)
    \/ Conclude(s)

Start(s) == Download(s) \/ Upload(s) \/ \E mode \in {"size", "deep"} : Verify(s, mode)

Next ==
    \/ \E s \in Slices : Start(s) \/ Step(s) \/ Kill(s)
    \/ \E s \in Slices, f \in Files : Stall(s, f)
    \/ \E f \in Files : Change(f)

Spec == Init /\ [][Next]_vars

\* A process that is not killed goes on; nobody has to start one.
FairSpec == Spec /\ \A s \in Slices : WF_vars(Step(s))

-----------------------------------------------------------------------------
(* Properties                                                               *)

\* Every variable keeps its type.
TypeOK ==
    /\ source \in [Files -> Contents]
    /\ was \in [Files -> SUBSET Contents]
    /\ staged \in [Files -> MaybeHeld]
    /\ part \in [Files -> SUBSET Slices]
    /\ target \in [Files -> MaybeHeld]
    /\ manifest \in [Slices -> [state : {"absent", "broken", "written"},
                                files : [Files -> MaybeHeld], failed : SUBSET Files]]
    /\ at \in [Slices -> Commands]
    /\ size \in [Slices -> [Files -> Nat \cup {None}]]
    /\ file \in [Slices -> [Files -> FileStates]]
    /\ tries \in [Slices -> [Files -> 0..Attempts]]
    /\ entry \in [Slices -> [Files -> MaybeHeld]]
    /\ todo \in [Slices -> SUBSET Files]
    /\ queue \in [Slices -> SUBSET Files]
    /\ verdict \in [Slices -> {"none", "size", "deep"}]
    /\ left \in [Kinds -> Nat] /\ \A k \in Kinds : left[k] <= Budget[k]

\* Nothing but a whole file of the source gets its real name in the staging
\* directory, whatever was cut, stalled or killed before (_fetch_one: "a truncated
\* prefix must never be promoted to the real name"), unless downloads overlap.
StagedIsWhole ==
    Spent("overlap") \/ \A f \in Files : staged[f] \in was[f] \cup {None}

\* What verify --deep vouches for is what it read from the replica, and that is
\* a file that the source has had: no fault of the download, of the upload or of
\* the verification itself passes for a copy (unless downloads overlap).
VerifiedIsTheSource ==
    Spent("overlap") \/ \A s \in Slices : verdict[s] = "deep" =>
        \A f \in Recorded(s) : entry[s][f] \in was[f]

\* A slice that verify reports as verified is all there, provided that the source
\* could be listed when it was downloaded.
VerifiedIsComplete ==
    Spent("listing") \/ \A s \in Slices : verdict[s] # "none" =>
        \A f \in Wanted[s] : target[f] # None

\* A slice that verify reports as verified is all there: "a partial or wrong copy
\* must be impossible to mistake for a complete one" (test_replicate_volume.py).
NoPartPassesForTheWhole ==
    \A s \in Slices : verdict[s] # "none" => \A f \in Wanted[s] : target[f] # None

\* A file is reported as different only when a whole other file was read: a stream
\* that ended early never sends a correct replica back over the wire.
AlarmsAreTrue ==
    \A s \in Slices, f \in Files : file[s][f] = "sha" =>
        entry[s][f] \notin {Torn, manifest[s].files[f]}

(***************************************************************************)
(* What these rest on (ReplicateProofs).                                   *)
(***************************************************************************)
Gathering(s) == at[s] \in {"download", "saving"}

\* A file waits only while it has attempts left.
TriesLeft == \A s \in Slices, f \in Files : file[s][f] = "waiting" => tries[s][f] < Attempts

\* A command has files only in its own states; a verdict is of a command that is over.
StatesFit ==
    \A s \in Slices :
        /\ Downloading(s) => \A f \in Files : file[s][f] \in {"none", "waiting", "open", "quiet"} \cup Ended
        /\ at[s] = "saving" => \A f \in Files : file[s][f] \in Ended \cup {"none"}
        /\ Verifying(s) => Usable(manifest[s])
        /\ verdict[s] # "none" => at[s] = "idle" /\ Passed(s) /\ Usable(manifest[s])

\* A download works on files of its slice, in sizes that the source has had.
Planned ==
    \A s \in Slices, f \in Files :
        Gathering(s) /\ file[s][f] # "none" =>
            f \in Wanted[s] /\ size[s][f] \in {SizeOf[c] : c \in Contents}

\* Without overlaps nobody else writes the .partial file of an open stream.
PartsAreOwn ==
    \/ Spent("overlap")
    \/ /\ \A r, s \in Slices : Downloading(r) /\ Downloading(s) /\ r # s => Wanted[r] \cap Wanted[s] = {}
       /\ \A s \in Slices, f \in Files : HasOpen(s, f) => part[f] = {s}

\* Nothing short is staged, noted or recorded.
NothingTorn ==
    \A f \in Files :
        /\ staged[f] # Torn
        /\ \A s \in Slices :
            /\ Gathering(s) /\ file[s][f] = "done" => entry[s][f] \notin {Torn, None}
            /\ manifest[s].files[f] # Torn

\* What is staged, noted or recorded the source has had.
NotedIsTheSource ==
    Spent("overlap") \/ \A f \in Files :
        /\ staged[f] \in was[f] \cup {None}
        /\ \A s \in Slices :
            /\ Gathering(s) /\ file[s][f] = "done" => entry[s][f] \in was[f]
            /\ manifest[s].files[f] \in was[f] \cup {None}

SourceIsKnown == \A f \in Files : source[f] \in was[f]

\* What a verification of every byte has found so far.
ReadIsRecorded ==
    \A s \in Slices, f \in Files :
        /\ Verifying(s) \/ verdict[s] # "none" => (file[s][f] = "none" <=> f \notin Recorded(s))
        /\ at[s] = "deep" \/ verdict[s] = "deep" =>
               (file[s][f] = "ok" => entry[s][f] = manifest[s].files[f])
        /\ at[s] = "deep" /\ file[s][f] \in {"open", "quiet"} =>
               f \in Recorded(s) /\ size[s][f] = SizeOf[manifest[s].files[f]]

\* A file that was listed as there is there.
FoundIsThere ==
    \A s \in Slices, f \in Files :
        /\ f \in queue[s] => staged[f] # None
        /\ Verifying(s) \/ verdict[s] # "none" =>
               (file[s][f] \in {"ok", "open", "quiet"} => target[f] # None)
        /\ Verifying(s) /\ size[s][f] # None => target[f] # None

\* A plan, and a record without failures, has every file of the slice.
PlansAreComplete ==
    Spent("listing") \/ \A s \in Slices, f \in Files : f \in Wanted[s] =>
        /\ Gathering(s) => file[s][f] # "none"
        /\ Usable(manifest[s]) => f \in Recorded(s)

IInv ==
    /\ TypeOK /\ TriesLeft /\ StatesFit /\ Planned /\ PartsAreOwn /\ NothingTorn /\ NotedIsTheSource /\ SourceIsKnown
    /\ ReadIsRecorded /\ FoundIsThere /\ PlansAreComplete /\ AlarmsAreTrue

\* Every command ends, whatever its streams do.
CommandsEnd == \A s \in Slices : at[s] # "idle" ~> at[s] = "idle"

=============================================================================
