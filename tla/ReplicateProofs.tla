---------------------------- MODULE ReplicateProofs ----------------------------
(***************************************************************************)
(* What a verified replica is, for any files, slices, contents and number  *)
(* of attempts and any budget of faults.                                   *)
(***************************************************************************)
EXTENDS Replicate, TLAPS

\* A budget is spent, never refilled.
LEMMA SpendFacts ==
    ASSUME left \in [Kinds -> Nat], NEW kind \in Kinds, Spend(kind)
    PROVE  /\ left' \in [Kinds -> Nat]
           /\ \A k \in Kinds : left'[k] <= left[k]
<1>1. "any" \in Kinds
  BY DEF Kinds
<1>2. \A k \in Kinds : left[k] \in Nat /\ ((left'[k] = left[k] - 1 /\ left[k] > 0) \/ left'[k] = left[k])
  BY <1>1 DEF Spend
<1>3. left' = [k \in Kinds |-> left'[k]]
  BY DEF Spend
<1> QED BY <1>2, <1>3

LEMMA KindsAre ==
    \A k \in {"change", "overlap", "cut", "stall", "kill", "listing", "landing", "any"} : k \in Kinds
  BY DEF Kinds

LEMMA Spending ==
    ASSUME [Next]_vars
    PROVE  left' = left \/ \E kind \in Kinds : Spend(kind)
<1>1. CASE UNCHANGED vars
  BY <1>1 DEF vars
<1>2. ASSUME NEW s \in Slices, Start(s)
      PROVE  left' = left \/ \E kind \in Kinds : Spend(kind)
  BY <1>2, KindsAre DEF Start, Download, Upload, Verify
<1>3. ASSUME NEW s \in Slices, NEW f \in Files, FileStep(s, f)
      PROVE  left' = left \/ \E kind \in Kinds : Spend(kind)
  BY <1>3, KindsAre DEF FileStep, Skip, OpenStream, Receive, Compare, Digest, TimeOut, Enqueue, Delivers
<1>4. ASSUME NEW s \in Slices, BeginSave(s) \/ Save(s) \/ Refuse(s) \/ Flush(s) \/ Uploaded(s) \/ Conclude(s)
      PROVE  left' = left \/ \E kind \in Kinds : Spend(kind)
  BY <1>4, KindsAre DEF BeginSave, Save, Refuse, Flush, Uploaded, Conclude
<1>5. ASSUME NEW s \in Slices, Kill(s)
      PROVE  \E kind \in Kinds : Spend(kind)
  BY <1>5, KindsAre DEF Kill
<1>6. ASSUME NEW s \in Slices, NEW f \in Files, Stall(s, f)
      PROVE  \E kind \in Kinds : Spend(kind)
  BY <1>6, KindsAre DEF Stall
<1>7. ASSUME NEW f \in Files, Change(f)
      PROVE  \E kind \in Kinds : Spend(kind)
  BY <1>7, KindsAre DEF Change
<1> QED BY <1>1, <1>2, <1>3, <1>4, <1>5, <1>6, <1>7 DEF Next, Step

LEMMA SpentStays ==
    ASSUME TypeOK, [Next]_vars
    PROVE  /\ left' \in [Kinds -> Nat] /\ \A k \in Kinds : left'[k] <= Budget[k]
           /\ \A k \in Kinds : Spent(k) => Spent(k)'
<1>1. left \in [Kinds -> Nat] /\ \A k \in Kinds : left[k] <= Budget[k] /\ Budget[k] \in Nat
  BY ReplicateAssumption DEF TypeOK
<1>2. left' \in [Kinds -> Nat] /\ \A k \in Kinds : left'[k] <= left[k]
  BY <1>1, Spending, SpendFacts
<1> QED BY <1>1, <1>2 DEF Spent

\* A fault that has to be paid for shows from then on.
LEMMA PaidFor ==
    ASSUME TypeOK, NEW kind \in Kinds, Spend(kind)
    PROVE  Spent(kind)'
<1>1. left[kind] \in Nat /\ left[kind] <= Budget[kind] /\ Budget[kind] \in Nat
  BY ReplicateAssumption DEF TypeOK
<1>2. left[kind] > 0 /\ left'[kind] = left[kind] - 1
  BY DEF Spend
<1> QED BY <1>1, <1>2 DEF Spent
-----------------------------------------------------------------------------
(***************************************************************************)
(* Types.                                                                  *)
(***************************************************************************)
LEMMA ConstantTypes ==
    /\ \A c \in Held : SizeOf[c] \in Nat
    /\ \A c \in MaybeHeld : Listed(c) \in Nat \cup {None}
    /\ None \in MaybeHeld /\ NoFiles \in [Files -> {None}]
    /\ Attempts \in Nat /\ 0 < Attempts
  BY ReplicateAssumption DEF Held, MaybeHeld, Listed, NoFiles

Sizes == [Files -> Nat \cup {None}]
Manifests == [state : {"absent", "broken", "written"}, files : [Files -> MaybeHeld], failed : SUBSET Files]

\* What a command of s does with one of its files leaves the others alone.
LEMMA GoesFacts ==
    ASSUME file \in [Slices -> [Files -> FileStates]], NEW s \in Slices, NEW f \in Files,
           NEW x \in FileStates, Goes(s, f, x)
    PROVE  /\ file' \in [Slices -> [Files -> FileStates]]
           /\ file'[s][f] = x
           /\ \A r \in Slices, g \in Files : r # s \/ g # f => file'[r][g] = file[r][g]
  BY DEF Goes

LEMMA BeginsFacts ==
    ASSUME TypeOK, NEW s \in Slices, NEW command \in Commands, NEW F, NEW sizes \in Sizes,
           Begins(s, command, F, sizes)
    PROVE  /\ at' \in [Slices -> Commands] /\ size' \in [Slices -> Sizes]
           /\ file' \in [Slices -> [Files -> FileStates]] /\ tries' \in [Slices -> [Files -> 0..Attempts]]
           /\ entry' \in [Slices -> [Files -> MaybeHeld]] /\ verdict' \in [Slices -> {"none", "size", "deep"}]
           /\ at'[s] = command /\ size'[s] = sizes /\ verdict'[s] = "none"
           /\ \A f \in Files : /\ file'[s][f] = (IF f \in F THEN "waiting" ELSE "none")
                              /\ tries'[s][f] = 0 /\ entry'[s][f] = None
           /\ \A r \in Slices \ {s} : /\ at'[r] = at[r] /\ size'[r] = size[r] /\ file'[r] = file[r]
                                     /\ tries'[r] = tries[r] /\ entry'[r] = entry[r]
                                     /\ verdict'[r] = verdict[r]
<1>1. 0 \in 0..Attempts /\ NoFiles \in [Files -> MaybeHeld] /\ \A f \in Files : NoFiles[f] = None
  BY ConstantTypes DEF NoFiles
<1>2. at' \in [Slices -> Commands] /\ size' \in [Slices -> Sizes]
      /\ verdict' \in [Slices -> {"none", "size", "deep"}]
  BY DEF Begins, TypeOK, Sizes
<1>3. file' \in [Slices -> [Files -> FileStates]]
  BY DEF Begins, TypeOK, FileStates
<1>4. tries' \in [Slices -> [Files -> 0..Attempts]] /\ entry' \in [Slices -> [Files -> MaybeHeld]]
  BY <1>1 DEF Begins, TypeOK
<1> QED BY <1>1, <1>2, <1>3, <1>4 DEF Begins, TypeOK

LEMMA GoAgainFacts ==
    ASSUME TypeOK, NEW s \in Slices, NEW f \in Files, NEW end \in FileStates, GoAgain(s, f, end)
    PROVE  /\ file' \in [Slices -> [Files -> FileStates]]
           /\ file'[s][f] = end \/ (file'[s][f] = "waiting" /\ tries[s][f] < Attempts)
           /\ \A r \in Slices, g \in Files : r # s \/ g # f => file'[r][g] = file[r][g]
<1>1. CASE tries[s][f] < Attempts
  <2>1. Goes(s, f, "waiting") /\ "waiting" \in FileStates
    BY <1>1 DEF GoAgain, FileStates
  <2> QED BY <1>1, <2>1, GoesFacts DEF TypeOK
<1>2. CASE ~(tries[s][f] < Attempts)
  <2>1. Goes(s, f, end)
    BY <1>2 DEF GoAgain
  <2> QED BY <2>1, GoesFacts DEF TypeOK
<1> QED BY <1>1, <1>2

LEMMA StatesAre ==
    /\ \A x \in {"none", "waiting", "open", "quiet", "done", "failed", "ok", "missing", "size", "sha", "unread"} :
          x \in FileStates
    /\ \A x \in {"idle", "download", "saving", "upload", "size", "deep"} : x \in Commands
  BY DEF FileStates, Commands, Ended, Reports

\* What a verifier makes of what it read.
LEMMA DigestFacts ==
    ASSUME NEW s \in Slices, NEW f \in Files, Digest(s, f)
    PROVE  /\ at[s] = "deep" /\ file[s][f] = "open" /\ tries' = tries
           /\ \E c \in Held :
                \/ /\ IsWhole(s, f, c) /\ entry' = [entry EXCEPT ![s][f] = c]
                   /\ \/ c = manifest[s].files[f] /\ Goes(s, f, "ok")
                      \/ c # manifest[s].files[f] /\ Goes(s, f, "sha")
                \/ GoAgain(s, f, "unread") /\ UNCHANGED entry
<1>1. PICK c \in Held :
         \/ /\ IsWhole(s, f, c) /\ entry' = [entry EXCEPT ![s][f] = c]
            /\ Goes(s, f, IF c = manifest[s].files[f] THEN "ok" ELSE "sha")
         \/ GoAgain(s, f, "unread") /\ UNCHANGED entry
  BY DEF Digest
<1>2. CASE c = manifest[s].files[f]
  BY <1>1, <1>2 DEF Digest
<1>3. CASE c # manifest[s].files[f]
  BY <1>1, <1>3 DEF Digest
<1> QED BY <1>2, <1>3

LEMMA TypeInit == Init => TypeOK
<1> SUFFICES ASSUME Init PROVE TypeOK
  OBVIOUS
<1>1. 0 \in 0..Attempts
  BY ConstantTypes
<1>2. NoFiles \in [Files -> MaybeHeld] /\ NoFiles \in [Files -> Nat \cup {None}]
  BY ConstantTypes
<1>3. source \in [Files -> Contents] /\ was \in [Files -> SUBSET Contents]
  BY ReplicateAssumption DEF Init
<1>4. NoManifest \in Manifests
  BY <1>2 DEF NoManifest, Manifests
<1>5. left \in [Kinds -> Nat] /\ \A k \in Kinds : left[k] <= Budget[k]
  BY ReplicateAssumption DEF Init
<1>6. manifest \in [Slices -> Manifests]
  BY <1>4 DEF Init
<1> QED BY <1>1, <1>2, <1>3, <1>5, <1>6, StatesAre DEF Init, TypeOK, Manifests

LEMMA TypeStep ==
    ASSUME TypeOK, TriesLeft, [Next]_vars
    PROVE  TypeOK'
<1> USE DEF Manifests, Sizes
<1>0. left' \in [Kinds -> Nat] /\ \A k \in Kinds : left'[k] <= Budget[k]
  BY SpentStays
<1>1. CASE UNCHANGED vars
  BY <1>1 DEF vars, TypeOK
<1>2. ASSUME NEW s \in Slices, Download(s) PROVE TypeOK'
  <2>1. PICK F \in SUBSET Wanted[s] :
           Begins(s, "download", F, [f \in Files |-> IF f \in F THEN Listed(source[f]) ELSE None])
    BY <1>2 DEF Download
  <2>2. [f \in Files |-> IF f \in F THEN Listed(source[f]) ELSE None] \in Sizes
    BY ConstantTypes DEF TypeOK, MaybeHeld, Held
  <2>3. UNCHANGED <<worldVars, stageVars, target, manifest, uploadVars>>
    BY <1>2 DEF Download
  <2> QED BY <1>0, <2>1, <2>2, <2>3, BeginsFacts, StatesAre DEF TypeOK, worldVars, stageVars, uploadVars
<1>3. ASSUME NEW s \in Slices, Upload(s) PROVE TypeOK'
  <2>1. Begins(s, "upload", {}, NoFiles) /\ NoFiles \in Sizes
    BY <1>3, ConstantTypes DEF Upload
  <2>2. todo' \in [Slices -> SUBSET Files] /\ queue' \in [Slices -> SUBSET Files]
    BY <1>3 DEF Upload, Recorded, TypeOK
  <2>3. UNCHANGED <<worldVars, stageVars, target, manifest, left>>
    BY <1>3 DEF Upload
  <2> QED BY <1>0, <2>1, <2>2, <2>3, BeginsFacts, StatesAre DEF TypeOK, worldVars, stageVars
<1>4. ASSUME NEW s \in Slices, NEW mode \in {"size", "deep"}, Verify(s, mode) PROVE TypeOK'
  <2>1. Begins(s, mode, Recorded(s), [f \in Files |-> Listed(target[f])])
    BY <1>4 DEF Verify
  <2>2. [f \in Files |-> Listed(target[f])] \in Sizes
    BY ConstantTypes DEF TypeOK
  <2>3. UNCHANGED <<worldVars, stageVars, target, manifest, uploadVars, left>>
    BY <1>4 DEF Verify
  <2> QED BY <1>0, <2>1, <2>2, <2>3, BeginsFacts, StatesAre DEF TypeOK, worldVars, stageVars, uploadVars
<1>5. ASSUME NEW s \in Slices, NEW f \in Files, Skip(s, f) PROVE TypeOK'
  <2>1. file' \in [Slices -> [Files -> FileStates]]
    BY <1>5, GoesFacts, StatesAre DEF Skip, TypeOK
  <2>2. entry' \in [Slices -> [Files -> MaybeHeld]]
    BY <1>5 DEF Skip, TypeOK
  <2> QED BY <1>0, <1>5, <2>1, <2>2 DEF Skip, TypeOK, worldVars, stageVars, uploadVars
<1>6. ASSUME NEW s \in Slices, NEW f \in Files, OpenStream(s, f) PROVE TypeOK'
  <2>1. file' \in [Slices -> [Files -> FileStates]]
    BY <1>6, GoesFacts, StatesAre DEF OpenStream, TypeOK
  <2>2. tries[s][f] + 1 \in 0..Attempts
    BY <1>6, ConstantTypes DEF OpenStream, TriesLeft, TypeOK
  <2>3. tries' \in [Slices -> [Files -> 0..Attempts]]
    BY <1>6, <2>2 DEF OpenStream, TypeOK
  <2>4. part' \in [Files -> SUBSET Slices]
    BY <1>6 DEF OpenStream, TypeOK
  <2> QED BY <1>0, <1>6, <2>1, <2>3, <2>4 DEF OpenStream, TypeOK, worldVars, uploadVars
<1>7. ASSUME NEW s \in Slices, NEW f \in Files, Receive(s, f) PROVE TypeOK'
  <2>1. PICK c \in Held : Raise(s, f) \/ Promote(s, f, c) \/ Discard(s, f)
    BY <1>7 DEF Receive
  <2>2. staged' \in [Files -> MaybeHeld] /\ part' \in [Files -> SUBSET Slices]
        /\ entry' \in [Slices -> [Files -> MaybeHeld]]
    <3>1. CASE Raise(s, f) \/ Discard(s, f)
      BY <3>1 DEF Raise, Discard, TypeOK, stageVars
    <3>2. CASE Promote(s, f, c)
      <4>1. PICK d \in {c, Mixed} : staged' = [staged EXCEPT ![f] = d]
        BY <3>2 DEF Promote
      <4>2. {c, d} \subseteq MaybeHeld
        BY DEF MaybeHeld, Held
      <4> QED BY <3>2, <4>1, <4>2 DEF Promote, TypeOK
    <3> QED BY <2>1, <3>1, <3>2
  <2>3. file' \in [Slices -> [Files -> FileStates]]
    BY <2>1, GoesFacts, GoAgainFacts, StatesAre DEF Raise, Promote, Discard, TypeOK
  <2> QED BY <1>0, <1>7, <2>2, <2>3 DEF Receive, TypeOK, worldVars, uploadVars
<1>8. ASSUME NEW s \in Slices, BeginSave(s) \/ Save(s) PROVE TypeOK'
  <2>0. BrokenManifest \in Manifests /\ Record(s) \in Manifests
    <3>1. NoFiles \in [Files -> MaybeHeld]
      BY ConstantTypes
    <3>2. [f \in Files |-> IF file[s][f] = "done" THEN entry[s][f] ELSE None] \in [Files -> MaybeHeld]
      BY ConstantTypes DEF TypeOK
    <3> QED BY <3>1, <3>2 DEF BrokenManifest, NoManifest, Record
  <2>1. \E m \in Manifests : manifest' = [manifest EXCEPT ![s] = m] \/ manifest' = manifest
    BY <1>8, <2>0 DEF BeginSave, Save
  <2>2. manifest' \in [Slices -> Manifests]
    BY <2>1 DEF TypeOK
  <2>3. at' \in [Slices -> Commands]
    BY <1>8, StatesAre DEF BeginSave, Save, TypeOK
  <2> QED BY <1>0, <1>8, <2>2, <2>3 DEF BeginSave, Save, TypeOK, worldVars, stageVars, streamVars, uploadVars
<1>9. ASSUME NEW s \in Slices, NEW f \in Files, Enqueue(s, f) PROVE TypeOK'
  <2>1. todo' \in [Slices -> SUBSET Files] /\ queue' \in [Slices -> SUBSET Files]
    BY <1>9 DEF Enqueue, TypeOK
  <2> QED BY <1>0, <1>9, <2>1 DEF Enqueue, TypeOK, worldVars, stageVars, streamVars
<1>10. ASSUME NEW s \in Slices, Refuse(s) \/ Uploaded(s) \/ Kill(s) PROVE TypeOK'
  <2>1. todo' \in [Slices -> SUBSET Files] /\ queue' \in [Slices -> SUBSET Files]
    BY <1>10 DEF Refuse, Uploaded, Kill, TypeOK, uploadVars
  <2>2. at' \in [Slices -> Commands]
    BY <1>10, StatesAre DEF Refuse, Uploaded, Kill, TypeOK
  <2> QED BY <1>0, <1>10, <2>1, <2>2 DEF Refuse, Uploaded, Kill, TypeOK, worldVars, stageVars, streamVars
<1>11. ASSUME NEW s \in Slices, Flush(s) PROVE TypeOK'
  <2>1. target' \in [Files -> MaybeHeld]
    BY <1>11 DEF Flush, TypeOK, MaybeHeld, Held
  <2>2. queue' \in [Slices -> SUBSET Files]
    BY <1>11 DEF Flush, TypeOK
  <2> QED BY <1>0, <1>11, <2>1, <2>2 DEF Flush, TypeOK, worldVars, stageVars, streamVars
<1>12. ASSUME NEW s \in Slices, NEW f \in Files, Compare(s, f) PROVE TypeOK'
  <2>1. PICK x \in {"missing", "size", "ok", "open"} : Goes(s, f, x)
    BY <1>12 DEF Compare
  <2>2. file' \in [Slices -> [Files -> FileStates]]
    BY <2>1, GoesFacts, StatesAre DEF TypeOK
  <2>3. tries[s][f] + 1 \in 0..Attempts
    BY <1>12, ConstantTypes DEF Compare, TriesLeft, TypeOK
  <2>4. tries' \in [Slices -> [Files -> 0..Attempts]]
    <3>1. tries' = tries \/ tries' = [tries EXCEPT ![s][f] = @ + 1]
      BY <1>12 DEF Compare
    <3>2. tries \in [Slices -> [Files -> 0..Attempts]]
      BY DEF TypeOK
    <3>3. [tries EXCEPT ![s][f] = @ + 1] \in [Slices -> [Files -> 0..Attempts]]
      BY <2>3, <3>2
    <3> QED BY <3>1, <3>2, <3>3
  <2> QED BY <1>0, <1>12, <2>2, <2>4 DEF Compare, TypeOK, worldVars, stageVars, uploadVars
<1>13. ASSUME NEW s \in Slices, NEW f \in Files, Digest(s, f) PROVE TypeOK'
  <2>1. PICK c \in Held : \/ (entry' = [entry EXCEPT ![s][f] = c] /\ (Goes(s, f, "ok") \/ Goes(s, f, "sha")))
                         \/ (GoAgain(s, f, "unread") /\ UNCHANGED entry)
    BY <1>13, DigestFacts
  <2>2. file' \in [Slices -> [Files -> FileStates]]
    BY <2>1, GoesFacts, GoAgainFacts, StatesAre DEF TypeOK
  <2>3. entry' \in [Slices -> [Files -> MaybeHeld]]
    <3>1. entry' = entry \/ entry' = [entry EXCEPT ![s][f] = c]
      BY <2>1
    <3>2. entry \in [Slices -> [Files -> MaybeHeld]] /\ c \in MaybeHeld
      BY DEF TypeOK, MaybeHeld
    <3> QED BY <3>1, <3>2
  <2> QED BY <1>0, <1>13, <2>2, <2>3 DEF Digest, TypeOK, worldVars, stageVars, uploadVars
<1>14. ASSUME NEW s \in Slices, Conclude(s) PROVE TypeOK'
  <2>1. at' \in [Slices -> Commands] /\ verdict' \in [Slices -> {"none", "size", "deep"}]
    BY <1>14, StatesAre DEF Conclude, Verifying, TypeOK
  <2> QED BY <1>0, <1>14, <2>1 DEF Conclude, TypeOK, worldVars, stageVars, streamVars, uploadVars
<1>15. ASSUME NEW s \in Slices, NEW f \in Files, Stall(s, f) PROVE TypeOK'
  <2>1. file' \in [Slices -> [Files -> FileStates]]
    BY <1>15, GoesFacts, StatesAre DEF Stall, TypeOK
  <2> QED BY <1>0, <1>15, <2>1 DEF Stall, TypeOK, worldVars, stageVars, uploadVars
<1>16. ASSUME NEW s \in Slices, NEW f \in Files, TimeOut(s, f) PROVE TypeOK'
  <2>1. /\ Raise(s, f) \/ GoAgain(s, f, "failed") \/ GoAgain(s, f, "unread")
        /\ part' = part \/ part' = [part EXCEPT ![f] = {}]
        /\ UNCHANGED <<staged, entry>>
    BY <1>16 DEF TimeOut, Raise, Discard, stageVars
  <2>2. file' \in [Slices -> [Files -> FileStates]]
    BY <2>1, GoesFacts, GoAgainFacts, StatesAre DEF Raise, TypeOK
  <2>3. part' \in [Files -> SUBSET Slices]
    BY <2>1 DEF TypeOK
  <2> QED BY <1>0, <1>16, <2>1, <2>2, <2>3 DEF TimeOut, TypeOK, worldVars, uploadVars
<1>17. ASSUME NEW f \in Files, Change(f) PROVE TypeOK'
  <2>1. source' \in [Files -> Contents] /\ was' \in [Files -> SUBSET Contents]
    BY <1>17 DEF Change, TypeOK
  <2> QED BY <1>0, <1>17, <2>1 DEF Change, TypeOK, stageVars, streamVars, uploadVars
<1> QED
  BY <1>1, <1>2, <1>3, <1>4, <1>5, <1>6, <1>7, <1>8, <1>9, <1>10, <1>11, <1>12, <1>13, <1>14, <1>15, <1>16, <1>17
  DEF Next, Start, Step, FileStep
-----------------------------------------------------------------------------
(***************************************************************************)
(* One command at a time changes what it keeps for itself.                 *)
(***************************************************************************)
Own(r) == <<at[r], size[r], file[r], tries[r], entry[r], manifest[r], todo[r], queue[r], verdict[r]>>
Acts(s) == Start(s) \/ Step(s) \/ Kill(s) \/ \E f \in Files : Stall(s, f)

LEMMA OthersRest ==
    ASSUME TypeOK, NEW s \in Slices, Acts(s), NEW r \in Slices \ {s}
    PROVE  Own(r)' = Own(r)
<1> USE DEF Own, TypeOK
<1>1. CASE Start(s)
  BY <1>1 DEF Start, Download, Upload, Verify, Begins, uploadVars
<1>2. ASSUME NEW f \in Files, Skip(s, f) \/ OpenStream(s, f) \/ Compare(s, f) \/ Enqueue(s, f) \/ Stall(s, f)
      PROVE  Own(r)' = Own(r)
  BY <1>2 DEF Skip, OpenStream, Compare, Enqueue, Stall, Goes, uploadVars, streamVars
<1>3. ASSUME NEW f \in Files, Receive(s, f) \/ Digest(s, f) \/ TimeOut(s, f)
      PROVE  Own(r)' = Own(r)
  BY <1>3 DEF Receive, Digest, TimeOut, Raise, Promote, Discard, GoAgain, Goes, uploadVars, stageVars
<1>4. CASE BeginSave(s) \/ Save(s) \/ Refuse(s) \/ Flush(s) \/ Uploaded(s) \/ Conclude(s) \/ Kill(s)
  BY <1>4 DEF BeginSave, Save, Refuse, Flush, Uploaded, Conclude, Kill, uploadVars, streamVars
<1> QED BY <1>1, <1>2, <1>3, <1>4 DEF Acts, Step, FileStep

LEMMA OneActs ==
    ASSUME TypeOK, [Next]_vars, NEW r \in Slices
    PROVE  Own(r)' = Own(r) \/ Acts(r)
<1>1. CASE UNCHANGED vars
  BY <1>1 DEF vars, Own
<1>2. ASSUME NEW f \in Files, Change(f) PROVE Own(r)' = Own(r)
  BY <1>2 DEF Change, Own, stageVars, streamVars, uploadVars
<1>3. ASSUME NEW s \in Slices, Acts(s) PROVE Own(r)' = Own(r) \/ Acts(r)
  BY <1>3, OthersRest
<1> QED BY <1>1, <1>2, <1>3 DEF Next, Acts

LEMMA TriesStep ==
    ASSUME TypeOK, TriesLeft, [Next]_vars
    PROVE  TriesLeft'
<1> SUFFICES ASSUME NEW s \in Slices, NEW g \in Files, file'[s][g] = "waiting"
             PROVE  tries'[s][g] < Attempts
  BY DEF TriesLeft
<1>0. file[s][g] = "waiting" => tries[s][g] < Attempts
  BY DEF TriesLeft
<1>1. CASE Own(s)' = Own(s)
  BY <1>0, <1>1 DEF Own
<1>2. CASE file' = file /\ tries' = tries
  BY <1>0, <1>2
<1>3. CASE Start(s)
  <2>1. tries'[s][g] = 0
    BY <1>3 DEF Start, Download, Upload, Verify, Begins, TypeOK
  <2> QED BY <2>1, ConstantTypes
<1>4. ASSUME NEW f \in Files, NEW x \in FileStates \ {"waiting"}, Goes(s, f, x),
             tries' = tries \/ tries' = [tries EXCEPT ![s][f] = @ + 1]
      PROVE  tries'[s][g] < Attempts
  BY <1>0, <1>4 DEF Goes, TypeOK
<1>5. ASSUME NEW f \in Files, NEW end \in {"failed", "unread"}, GoAgain(s, f, end), tries' = tries
      PROVE  tries'[s][g] < Attempts
  BY <1>0, <1>5, GoAgainFacts, StatesAre
<1>6. ASSUME NEW f \in Files, Skip(s, f) \/ OpenStream(s, f) \/ Compare(s, f) \/ Stall(s, f)
      PROVE  tries'[s][g] < Attempts
  BY <1>4, <1>6, StatesAre DEF Skip, OpenStream, Compare, Stall
<1>7. ASSUME NEW f \in Files, Receive(s, f) \/ TimeOut(s, f)
      PROVE  tries'[s][g] < Attempts
  BY <1>4, <1>5, <1>7, StatesAre DEF Receive, TimeOut, Raise, Promote, Discard
<1>8. ASSUME NEW f \in Files, Digest(s, f)
      PROVE  tries'[s][g] < Attempts
  BY <1>4, <1>5, <1>8, StatesAre, DigestFacts
<1>9. CASE \/ BeginSave(s) \/ Save(s) \/ Refuse(s) \/ Flush(s) \/ Uploaded(s) \/ Conclude(s) \/ Kill(s)
          \/ \E f \in Files : Enqueue(s, f)
  BY <1>2, <1>9 DEF BeginSave, Save, Refuse, Flush, Uploaded, Conclude, Kill, Enqueue, streamVars
<1> QED BY <1>1, <1>3, <1>6, <1>7, <1>8, <1>9, OneActs DEF Acts, Step, FileStep
-----------------------------------------------------------------------------
(***************************************************************************)
(* The states of files fit their command.                                  *)
(***************************************************************************)
\* A file's new state, whichever way a command handled it.
LEMMA FileFacts ==
    ASSUME TypeOK, NEW s \in Slices, NEW f \in Files, FileStep(s, f) \/ Stall(s, f)
    PROVE  /\ at' = at /\ manifest' = manifest /\ verdict' = verdict /\ size' = size /\ target' = target
           /\ at[s] # "idle"
           /\ \A r \in Slices, g \in Files : r # s \/ g # f => file'[r][g] = file[r][g]
           /\ Downloading(s) => file'[s][f] \in {"waiting", "open", "quiet", "done", "failed"}
           /\ file'[s][f] # file[s][f] => at[s] \in {"download", "size", "deep"} /\ file[s][f] # "none"
<1> USE StatesAre DEF Downloading, TypeOK
<1>1. CASE Skip(s, f) \/ OpenStream(s, f) \/ Stall(s, f)
  <2>1. PICK x \in {"done", "open", "quiet"} : Goes(s, f, x)
    BY <1>1 DEF Skip, OpenStream, Stall
  <2> QED BY <1>1, <2>1, GoesFacts DEF Skip, OpenStream, Stall, Streaming
<1>2. CASE Receive(s, f)
  <2>1. Goes(s, f, "failed") \/ Goes(s, f, "done") \/ GoAgain(s, f, "failed")
    BY <1>2 DEF Receive, Raise, Promote, Discard
  <2> QED BY <1>2, <2>1, GoesFacts, GoAgainFacts DEF Receive
<1>3. CASE Compare(s, f)
  <2>1. PICK x \in {"missing", "size", "ok", "open"} : Goes(s, f, x)
    BY <1>3 DEF Compare
  <2> QED BY <1>3, <2>1, GoesFacts DEF Compare, Verifying
<1>4. CASE Digest(s, f)
  <2>1. PICK x \in {"ok", "sha", "unread"} : Goes(s, f, x) \/ GoAgain(s, f, x)
    BY <1>4, DigestFacts
  <2> QED BY <1>4, <2>1, GoesFacts, GoAgainFacts DEF Digest
<1>5. CASE TimeOut(s, f)
  <2>1. \/ Downloading(s) /\ (Goes(s, f, "failed") \/ GoAgain(s, f, "failed"))
        \/ at[s] = "deep" /\ GoAgain(s, f, "unread")
    BY <1>5 DEF TimeOut, Raise, Discard
  <2> QED BY <1>5, <2>1, GoesFacts, GoAgainFacts DEF TimeOut
<1>6. CASE Enqueue(s, f)
  BY <1>6 DEF Enqueue, streamVars
<1> QED BY <1>1, <1>2, <1>3, <1>4, <1>5, <1>6 DEF FileStep

\* What starts, and how a command moves on to its next part or ends.
LEMMA StartFacts ==
    ASSUME TypeOK, NEW s \in Slices, Start(s)
    PROVE  /\ at[s] = "idle" /\ at'[s] \in {"download", "upload", "size", "deep"}
           /\ verdict'[s] = "none" /\ manifest' = manifest
           /\ \A f \in Files : file'[s][f] \in {"waiting", "none"}
           /\ at'[s] \in {"size", "deep"} => Usable(manifest[s])
<1>1. CASE Download(s)
  BY <1>1 DEF Download, Begins, TypeOK
<1>2. CASE Upload(s)
  BY <1>2 DEF Upload, Begins, TypeOK
<1>3. ASSUME NEW mode \in {"size", "deep"}, Verify(s, mode)
      PROVE  /\ at[s] = "idle" /\ at'[s] \in {"download", "upload", "size", "deep"}
             /\ verdict'[s] = "none" /\ manifest' = manifest
             /\ \A f \in Files : file'[s][f] \in {"waiting", "none"}
             /\ at'[s] \in {"size", "deep"} => Usable(manifest[s])
  BY <1>3 DEF Verify, Begins, TypeOK
<1> QED BY <1>1, <1>2, <1>3 DEF Start

LEMMA StatesFitStep ==
    ASSUME TypeOK, StatesFit, [Next]_vars
    PROVE  StatesFit'
<1> DEFINE Fit(s) ==
        /\ Downloading(s) => \A f \in Files : file[s][f] \in {"none", "waiting", "open", "quiet"} \cup Ended
        /\ at[s] = "saving" => \A f \in Files : file[s][f] \in Ended \cup {"none"}
        /\ Verifying(s) => Usable(manifest[s])
        /\ verdict[s] # "none" => at[s] = "idle" /\ Passed(s) /\ Usable(manifest[s])
<1> SUFFICES ASSUME NEW s \in Slices PROVE Fit(s)'
  BY DEF StatesFit
<1>0. Fit(s)
  BY DEF StatesFit
<1> USE DEF Downloading, Verifying, Passed, Usable
<1>1. CASE Own(s)' = Own(s)
  BY <1>0, <1>1 DEF Own
<1>2. CASE Start(s)
  BY <1>2, StartFacts
<1>3. ASSUME NEW f \in Files, FileStep(s, f) \/ Stall(s, f) PROVE Fit(s)'
  BY <1>0, <1>3, FileFacts DEF Ended
<1>4. CASE BeginSave(s) \/ Save(s)
  BY <1>0, <1>4 DEF BeginSave, Save, streamVars, TypeOK
<1>5. CASE Refuse(s) \/ Flush(s) \/ Uploaded(s) \/ Kill(s)
  BY <1>0, <1>5 DEF Refuse, Flush, Uploaded, Kill, streamVars, TypeOK
<1>6. CASE Conclude(s)
  BY <1>0, <1>6 DEF Conclude, streamVars, TypeOK
<1> QED BY <1>1, <1>2, <1>3, <1>4, <1>5, <1>6, OneActs DEF Acts, Step
-----------------------------------------------------------------------------
(***************************************************************************)
(* What downloads stage and record.                                        *)
(***************************************************************************)
LEMMA DownloadFacts ==
    ASSUME TypeOK, NEW s \in Slices, Download(s)
    PROVE  /\ at'[s] = "download" /\ UNCHANGED <<source, was, staged, part, target, manifest>>
           /\ \A f \in Files : file'[s][f] # "none" =>
                 f \in Wanted[s] /\ file'[s][f] = "waiting" /\ size'[s][f] = SizeOf[source[f]]
           /\ Shared(s) => Spend("overlap")
           /\ Spend("listing") \/ \A f \in Wanted[s] : file'[s][f] = "waiting"
<1>1. PICK F \in SUBSET Wanted[s] :
         /\ \/ /\ F = Wanted[s] /\ ~Shared(s) /\ UNCHANGED left
            \/ /\ F = Wanted[s] /\ Shared(s) /\ Spend("overlap")
            \/ /\ \E gap \in Prefixes : F = Wanted[s] \ gap
               /\ ~Shared(s) /\ Spend("listing")
         /\ Begins(s, "download", F, [f \in Files |-> IF f \in F THEN Listed(source[f]) ELSE None])
  BY DEF Download
<1>2. F \subseteq Files /\ Wanted[s] \subseteq Files
  BY ReplicateAssumption
<1>3. \A f \in Files : source[f] \in Contents /\ Listed(source[f]) = SizeOf[source[f]]
  BY ReplicateAssumption DEF TypeOK, Listed
<1>4. [f \in Files |-> IF f \in F THEN Listed(source[f]) ELSE None] \in Sizes
  BY ConstantTypes DEF TypeOK, MaybeHeld, Held, Sizes
<1>5. /\ at'[s] = "download" /\ size'[s] = [f \in Files |-> IF f \in F THEN Listed(source[f]) ELSE None]
      /\ \A f \in Files : file'[s][f] = (IF f \in F THEN "waiting" ELSE "none")
  BY <1>1, <1>4, BeginsFacts, StatesAre
<1> QED BY <1>1, <1>2, <1>3, <1>5 DEF Download, worldVars, stageVars

LEMMA PlannedStep ==
    ASSUME TypeOK, Planned, [Next]_vars
    PROVE  Planned'
<1> SUFFICES ASSUME NEW s \in Slices, NEW f \in Files, at'[s] \in {"download", "saving"}, file'[s][f] # "none"
             PROVE  f \in Wanted[s] /\ size'[s][f] \in {SizeOf[c] : c \in Contents}
  BY DEF Planned, Gathering
<1>0. at[s] \in {"download", "saving"} /\ file[s][f] # "none" =>
         f \in Wanted[s] /\ size[s][f] \in {SizeOf[c] : c \in Contents}
  BY DEF Planned, Gathering
<1>1. CASE Own(s)' = Own(s)
  BY <1>0, <1>1 DEF Own
<1>2. CASE Start(s)
  <2>1. CASE Download(s)
    <3>1. f \in Wanted[s] /\ size'[s][f] = SizeOf[source[f]]
      BY <2>1, DownloadFacts
    <3> QED BY <3>1 DEF TypeOK
  <2>2. CASE Upload(s) \/ \E mode \in {"size", "deep"} : Verify(s, mode)
    BY <2>2 DEF Upload, Verify, Begins, TypeOK
  <2> QED BY <1>2, <2>1, <2>2 DEF Start
<1>3. ASSUME NEW g \in Files, FileStep(s, g) \/ Stall(s, g)
      PROVE  f \in Wanted[s] /\ size'[s][f] \in {SizeOf[c] : c \in Contents}
  BY <1>0, <1>3, FileFacts
<1>4. CASE BeginSave(s) \/ Flush(s)
  BY <1>0, <1>4 DEF BeginSave, Flush, streamVars, TypeOK, Downloading
<1>5. CASE Save(s) \/ Refuse(s) \/ Uploaded(s) \/ Kill(s) \/ Conclude(s)
  BY <1>5 DEF Save, Refuse, Uploaded, Kill, Conclude, TypeOK
<1> QED BY <1>1, <1>2, <1>3, <1>4, <1>5, OneActs DEF Acts, Step

\* The source only gains contents.
LEMMA WasGrows ==
    ASSUME TypeOK, SourceIsKnown, [Next]_vars
    PROVE  SourceIsKnown' /\ \A f \in Files : was[f] \subseteq was'[f]
<1>1. CASE UNCHANGED <<source, was>>
  BY <1>1 DEF SourceIsKnown
<1>2. ASSUME NEW f \in Files, Change(f)
      PROVE  SourceIsKnown' /\ \A g \in Files : was[g] \subseteq was'[g]
  BY <1>2 DEF Change, SourceIsKnown, TypeOK
<1>3. ASSUME NEW s \in Slices, Start(s) \/ Step(s) \/ Kill(s) \/ \E f \in Files : Stall(s, f)
      PROVE  UNCHANGED <<source, was>>
  BY <1>3 DEF Start, Download, Upload, Verify, Step, FileStep, Skip, OpenStream, Receive, Compare, Digest,
     TimeOut, Enqueue, BeginSave, Save, Refuse, Flush, Uploaded, Conclude, Kill, Stall, worldVars
<1> QED BY <1>1, <1>2, <1>3 DEF Next, vars

\* A stream that ended: its file is promoted, or nothing but the .partial file changes.
LEMMA ReceiveFacts ==
    ASSUME TypeOK, Planned, NEW s \in Slices, NEW f \in Files, Receive(s, f)
    PROVE  /\ file[s][f] = "open" /\ file'[s][f] \in {"waiting", "done", "failed"}
           /\ \/ part' = part
              \/ ~OpenElsewhere(s, f) /\ part' = [part EXCEPT ![f] = {}]
           /\ \/ UNCHANGED <<staged, entry>> /\ file'[s][f] # "done"
              \/ /\ file'[s][f] = "done" /\ entry' = [entry EXCEPT ![s][f] = source[f]]
                 /\ ~OpenElsewhere(s, f)
                 /\ staged' = [staged EXCEPT ![f] = source[f]] \/ staged' = [staged EXCEPT ![f] = Mixed]
                 /\ part[f] = {s} => staged' = [staged EXCEPT ![f] = source[f]]
<1>1. PICK c \in Held :
         /\ c = source[f] \/ c = Torn
         /\ \/ OpenElsewhere(s, f) /\ Raise(s, f)
            \/ ~OpenElsewhere(s, f) /\ IsWhole(s, f, c) /\ Promote(s, f, c)
            \/ ~OpenElsewhere(s, f) /\ ~IsWhole(s, f, c) /\ Discard(s, f)
  BY DEF Receive, Delivers
<1>2. CASE Raise(s, f)
  BY <1>2, GoesFacts, StatesAre DEF Receive, Raise, TypeOK, stageVars
<1>3. CASE ~OpenElsewhere(s, f) /\ Discard(s, f)
  BY <1>3, GoAgainFacts, StatesAre DEF Receive, Discard
<1>4. CASE ~OpenElsewhere(s, f) /\ IsWhole(s, f, c) /\ Promote(s, f, c)
  <2>1. size[s][f] \in {SizeOf[x] : x \in Contents}
    BY DEF Receive, Planned, Gathering, Downloading
  <2>2. c = source[f]
    BY <1>1, <1>4, <2>1, ReplicateAssumption DEF IsWhole
  <2>3. PICK d \in {c} \cup (IF part[f] = {s} THEN {} ELSE {Mixed}) : staged' = [staged EXCEPT ![f] = d]
    BY <1>4 DEF Promote
  <2> QED BY <1>4, <2>2, <2>3, GoesFacts, StatesAre DEF Receive, Promote, TypeOK
<1> QED BY <1>1, <1>2, <1>3, <1>4

\* A stream that stalled is given up.
LEMMA TimeOutFacts ==
    ASSUME TypeOK, NEW s \in Slices, NEW f \in Files, TimeOut(s, f)
    PROVE  /\ file[s][f] = "quiet" /\ file'[s][f] \in {"waiting", "failed", "unread"}
           /\ UNCHANGED <<at, staged, entry, manifest>>
           /\ \/ part' = part
              \/ ~OpenElsewhere(s, f) /\ part' = [part EXCEPT ![f] = {}]
<1>1. CASE Downloading(s) /\ Raise(s, f)
  BY <1>1, GoesFacts, StatesAre DEF TimeOut, Raise, TypeOK, stageVars
<1>2. CASE Downloading(s) /\ ~OpenElsewhere(s, f) /\ Discard(s, f)
  BY <1>2, GoAgainFacts, StatesAre DEF TimeOut, Discard
<1>3. CASE at[s] = "deep" /\ GoAgain(s, f, "unread") /\ UNCHANGED <<stageVars, entry>>
  BY <1>3, GoAgainFacts, StatesAre DEF TimeOut, stageVars
<1> QED BY <1>1, <1>2, <1>3 DEF TimeOut

\* Every step, as far as the staging directory goes.
LEMMA StageMoves ==
    ASSUME TypeOK, [Next]_vars
    PROVE  \/ UNCHANGED <<staged, part>>
           \/ \E s \in Slices, f \in Files :
                 OpenStream(s, f) \/ Receive(s, f) \/ TimeOut(s, f)
<1>1. ASSUME NEW s \in Slices, Start(s) \/ Kill(s) \/ \E f \in Files : Stall(s, f)
      PROVE  UNCHANGED <<staged, part>>
  BY <1>1 DEF Start, Download, Upload, Verify, Kill, Stall, stageVars
<1>2. ASSUME NEW s \in Slices, \/ BeginSave(s) \/ Save(s) \/ Refuse(s) \/ Flush(s) \/ Uploaded(s) \/ Conclude(s)
                              \/ \E f \in Files : Skip(s, f) \/ Compare(s, f) \/ Digest(s, f) \/ Enqueue(s, f)
      PROVE  UNCHANGED <<staged, part>>
  BY <1>2 DEF BeginSave, Save, Refuse, Flush, Uploaded, Conclude, Skip, Compare, Digest, Enqueue, stageVars
<1>3. ASSUME NEW f \in Files, Change(f) PROVE UNCHANGED <<staged, part>>
  BY <1>3 DEF Change, stageVars
<1>4. CASE UNCHANGED vars
  BY <1>4 DEF vars
<1> QED BY <1>1, <1>2, <1>3, <1>4 DEF Next, Step, FileStep

\* What becomes of a staged file.
LEMMA Staging ==
    ASSUME TypeOK, Planned, [Next]_vars, NEW f \in Files
    PROVE  \/ staged'[f] \in {staged[f], source[f]}
           \/ staged'[f] = Mixed /\ \E s \in Slices : HasOpen(s, f) /\ part[f] # {s}
<1>1. ASSUME NEW s \in Slices, NEW g \in Files, Receive(s, g)
      PROVE  \/ staged'[f] \in {staged[f], source[f]}
             \/ staged'[f] = Mixed /\ \E r \in Slices : HasOpen(r, f) /\ part[f] # {r}
  <2>1. CASE g # f
    <3>1. \/ staged' = staged \/ staged' = [staged EXCEPT ![g] = source[g]]
          \/ staged' = [staged EXCEPT ![g] = Mixed]
      BY <1>1, ReceiveFacts
    <3> QED BY <2>1, <3>1 DEF TypeOK
  <2>2. CASE g = f
    <3>1. HasOpen(s, f)
      BY <1>1, <2>2 DEF Receive, HasOpen
    <3> QED BY <1>1, <2>2, <3>1, ReceiveFacts DEF TypeOK
  <2> QED BY <2>1, <2>2
<1>2. ASSUME NEW s \in Slices, NEW g \in Files, OpenStream(s, g) \/ TimeOut(s, g)
      PROVE  staged' = staged
  BY <1>2, TimeOutFacts DEF OpenStream
<1> QED BY <1>1, <1>2, StageMoves

\* What a download has noted of a file.
LEMMA Noting ==
    ASSUME TypeOK, Planned, [Next]_vars, NEW s \in Slices, NEW f \in Files,
           at'[s] \in {"download", "saving"}, file'[s][f] = "done"
    PROVE  \/ entry'[s][f] = staged[f] /\ staged[f] # None
           \/ entry'[s][f] = source[f]
           \/ entry'[s][f] = entry[s][f] /\ Gathering(s) /\ file[s][f] = "done"
<1> DEFINE Good == \/ entry'[s][f] = staged[f] /\ staged[f] # None
                   \/ entry'[s][f] = source[f]
                   \/ entry'[s][f] = entry[s][f] /\ Gathering(s) /\ file[s][f] = "done"
<1> USE DEF Gathering
<1> SUFFICES Good
  OBVIOUS
<1>1. CASE Own(s)' = Own(s)
  BY <1>1 DEF Own
<1>2. CASE Start(s)
  BY <1>2, StartFacts
<1>3. ASSUME NEW g \in Files, Skip(s, g) PROVE Good
  BY <1>3, GoesFacts, StatesAre DEF Skip, IsStaged, TypeOK
<1>4. ASSUME NEW g \in Files, Receive(s, g) PROVE Good
  <2>1. at' = at /\ (g # f => file'[s][f] = file[s][f])
    BY <1>4, FileFacts DEF FileStep
  <2> QED BY <1>4, <2>1, ReceiveFacts DEF TypeOK
<1>5. ASSUME NEW g \in Files, OpenStream(s, g) \/ Stall(s, g) PROVE Good
  <2>1. at' = at /\ entry' = entry /\ (g # f => file'[s][f] = file[s][f])
    BY <1>5, FileFacts DEF FileStep, OpenStream, Stall
  <2>2. g = f => file'[s][f] # "done"
    BY <1>5, GoesFacts, StatesAre DEF OpenStream, Stall, TypeOK
  <2> QED BY <2>1, <2>2
<1>6. ASSUME NEW g \in Files, TimeOut(s, g) PROVE Good
  <2>1. at' = at /\ (g # f => file'[s][f] = file[s][f])
    BY <1>6, FileFacts DEF FileStep
  <2> QED BY <1>6, <2>1, TimeOutFacts
<1>7. ASSUME NEW g \in Files, Compare(s, g) \/ Digest(s, g) \/ Enqueue(s, g) PROVE FALSE
  BY <1>7 DEF Compare, Digest, Enqueue, Verifying
<1>8. CASE BeginSave(s) \/ Flush(s)
  BY <1>8 DEF BeginSave, Flush, streamVars, Downloading
<1>9. CASE Save(s) \/ Refuse(s) \/ Uploaded(s) \/ Kill(s) \/ Conclude(s)
  BY <1>9 DEF Save, Refuse, Uploaded, Kill, Conclude, TypeOK
<1> HIDE DEF Good
<1> QED
  BY <1>1, <1>2, <1>3, <1>4, <1>5, <1>6, <1>7, <1>8, <1>9, OneActs DEF Acts, Step, FileStep

\* ... and what its manifest records.
LEMMA Recording ==
    ASSUME TypeOK, [Next]_vars, NEW s \in Slices
    PROVE  \/ manifest'[s] = manifest[s]
           \/ at[s] = "download" /\ manifest'[s] = BrokenManifest
           \/ at[s] = "saving" /\ manifest'[s] = Record(s)
<1>1. CASE Own(s)' = Own(s)
  BY <1>1 DEF Own
<1>2. CASE Start(s)
  BY <1>2, StartFacts
<1>3. ASSUME NEW f \in Files, FileStep(s, f) \/ Stall(s, f) PROVE manifest' = manifest
  BY <1>3, FileFacts
<1>4. CASE BeginSave(s) \/ Save(s)
  BY <1>4 DEF BeginSave, Save, Downloading, TypeOK
<1>5. CASE Refuse(s) \/ Flush(s) \/ Uploaded(s) \/ Kill(s) \/ Conclude(s)
  BY <1>5 DEF Refuse, Flush, Uploaded, Kill, Conclude
<1> QED BY <1>1, <1>2, <1>3, <1>4, <1>5, OneActs DEF Acts, Step

LEMMA NothingTornStep ==
    ASSUME TypeOK, Planned, NothingTorn, [Next]_vars
    PROVE  NothingTorn'
<1> SUFFICES ASSUME NEW f \in Files
             PROVE  /\ staged'[f] # Torn
                    /\ \A s \in Slices :
                        /\ Gathering(s)' /\ file'[s][f] = "done" => entry'[s][f] \notin {Torn, None}
                        /\ manifest'[s].files[f] # Torn
  BY DEF NothingTorn
<1>0. source[f] \notin {Torn, None} /\ Mixed # Torn /\ None # Torn
  BY ReplicateAssumption DEF TypeOK
<1>1. staged'[f] # Torn
  BY <1>0, Staging DEF NothingTorn
<1>2. ASSUME NEW s \in Slices, Gathering(s)', file'[s][f] = "done"
      PROVE  entry'[s][f] \notin {Torn, None}
  BY <1>0, <1>2, Noting DEF NothingTorn, Gathering
<1>3. ASSUME NEW s \in Slices
      PROVE  manifest'[s].files[f] # Torn
  <2>1. BrokenManifest.files[f] = None
    BY DEF BrokenManifest, NoManifest, NoFiles
  <2>2. at[s] = "saving" => Record(s).files[f] # Torn
    BY <1>0 DEF Record, NothingTorn, Gathering
  <2> QED BY <1>0, <2>1, <2>2, Recording DEF NothingTorn
<1> QED BY <1>1, <1>2, <1>3

LEMMA NotedIsTheSourceStep ==
    ASSUME TypeOK, Planned, PartsAreOwn, SourceIsKnown, NotedIsTheSource, [Next]_vars
    PROVE  NotedIsTheSource'
<1>1. CASE Spent("overlap")
  BY <1>1, SpentStays, KindsAre DEF NotedIsTheSource
<1>2. CASE ~Spent("overlap")
  <2> SUFFICES ASSUME NEW f \in Files
               PROVE  /\ staged'[f] \in was'[f] \cup {None}
                      /\ \A s \in Slices :
                          /\ Gathering(s)' /\ file'[s][f] = "done" => entry'[s][f] \in was'[f]
                          /\ manifest'[s].files[f] \in was'[f] \cup {None}
    BY DEF NotedIsTheSource
  <2>0. source[f] \in was[f] /\ was[f] \subseteq was'[f] /\ staged[f] \in was[f] \cup {None}
    BY <1>2, WasGrows DEF SourceIsKnown, NotedIsTheSource
  <2>1. staged'[f] \in was'[f] \cup {None}
    <3>1. \A s \in Slices : HasOpen(s, f) => part[f] = {s}
      BY <1>2 DEF PartsAreOwn
    <3> QED BY <2>0, <3>1, Staging
  <2>2. ASSUME NEW s \in Slices, Gathering(s)', file'[s][f] = "done"
        PROVE  entry'[s][f] \in was'[f]
    BY <1>2, <2>0, <2>2, Noting DEF NotedIsTheSource, Gathering
  <2>3. ASSUME NEW s \in Slices
        PROVE  manifest'[s].files[f] \in was'[f] \cup {None}
    <3>1. BrokenManifest.files[f] = None
      BY DEF BrokenManifest, NoManifest, NoFiles
    <3>2. at[s] = "saving" => Record(s).files[f] \in was[f] \cup {None}
      BY <1>2 DEF Record, NotedIsTheSource, Gathering
    <3> QED BY <1>2, <2>0, <3>1, <3>2, Recording DEF NotedIsTheSource
  <2> QED BY <2>1, <2>2, <2>3
<1> QED BY <1>1, <1>2

\* A stream is open because it was, or was opened now.
LEMMA OpenComes ==
    ASSUME TypeOK, [Next]_vars, NEW s \in Slices, NEW f \in Files, HasOpen(s, f)'
    PROVE  HasOpen(s, f) \/ OpenStream(s, f)
<1> USE DEF HasOpen, Downloading
<1>1. CASE Own(s)' = Own(s)
  BY <1>1 DEF Own
<1>2. CASE Start(s)
  BY <1>2, StartFacts
<1>3. ASSUME NEW g \in Files, Skip(s, g) \/ Receive(s, g) \/ TimeOut(s, g) \/ Stall(s, g) \/ OpenStream(s, g)
      PROVE  HasOpen(s, f) \/ OpenStream(s, f)
  <2>1. at' = at /\ (g # f => file'[s][f] = file[s][f])
    BY <1>3, FileFacts DEF FileStep
  <2>2. Skip(s, g) => file'[s][g] = "done"
    BY GoesFacts, StatesAre DEF Skip, TypeOK
  <2>3. Receive(s, g) => file[s][g] = "open"
    BY DEF Receive
  <2>4. TimeOut(s, g) => file[s][g] = "quiet"
    BY DEF TimeOut
  <2>5. Stall(s, g) => file[s][g] = "open"
    BY DEF Stall
  <2> QED BY <1>3, <2>1, <2>2, <2>3, <2>4, <2>5
<1>4. ASSUME NEW g \in Files, Compare(s, g) \/ Digest(s, g) \/ Enqueue(s, g)
      PROVE  HasOpen(s, f)
  BY <1>4 DEF Compare, Digest, Enqueue, Verifying
<1>5. CASE Flush(s)
  BY <1>5 DEF Flush, streamVars
<1>6. CASE BeginSave(s) \/ Save(s) \/ Refuse(s) \/ Uploaded(s) \/ Kill(s) \/ Conclude(s)
  BY <1>6 DEF BeginSave, Save, Refuse, Uploaded, Kill, Conclude, TypeOK
<1> QED BY <1>1, <1>2, <1>3, <1>4, <1>5, <1>6, OneActs DEF Acts, Step, FileStep

\* A download runs because it did, or started now.
LEMMA DownloadComes ==
    ASSUME TypeOK, [Next]_vars, NEW s \in Slices, Downloading(s)'
    PROVE  Downloading(s) \/ Download(s)
<1> USE DEF Downloading
<1>1. CASE Own(s)' = Own(s)
  BY <1>1 DEF Own
<1>2. CASE Start(s)
  BY <1>2 DEF Start, Upload, Verify, Begins, TypeOK
<1>3. ASSUME NEW f \in Files, FileStep(s, f) \/ Stall(s, f) PROVE at' = at
  BY <1>3, FileFacts
<1>4. CASE BeginSave(s) \/ Save(s) \/ Refuse(s) \/ Flush(s) \/ Uploaded(s) \/ Kill(s) \/ Conclude(s)
  BY <1>4 DEF BeginSave, Save, Refuse, Flush, Uploaded, Kill, Conclude, TypeOK
<1> QED BY <1>1, <1>2, <1>3, <1>4, OneActs DEF Acts, Step

LEMMA PartsAreOwnStep ==
    ASSUME TypeOK, Planned, PartsAreOwn, [Next]_vars
    PROVE  PartsAreOwn'
<1>1. CASE Spent("overlap")'
  BY <1>1 DEF PartsAreOwn
<1>2. CASE ~Spent("overlap")'
  <2>0. ~Spent("overlap") /\ ~Spend("overlap")
    BY <1>2, SpentStays, PaidFor, KindsAre
  <2>1. \A r, s \in Slices : Downloading(r) /\ Downloading(s) /\ r # s => Wanted[r] \cap Wanted[s] = {}
    BY <2>0 DEF PartsAreOwn
  <2>2. \A s \in Slices, f \in Files : HasOpen(s, f) => part[f] = {s} /\ Downloading(s) /\ f \in Wanted[s]
    BY <2>0 DEF PartsAreOwn, HasOpen, Planned, Gathering, Downloading
  <2>3. ASSUME NEW r \in Slices, NEW s \in Slices, Downloading(r)', Downloading(s)', r # s
        PROVE  Wanted[r] \cap Wanted[s] = {}
    <3>1. CASE Downloading(r) /\ Downloading(s)
      BY <2>1, <2>3, <3>1
    <3>2. ASSUME NEW x \in Slices, NEW y \in Slices, Download(x), Downloading(y)', x # y
          PROVE  Wanted[x] \cap Wanted[y] = {}
      <4>1. at'[y] = at[y]
        BY <3>2, OthersRest DEF Own, Acts, Start
      <4>2. ~Shared(x)
        BY <2>0, <3>2, DownloadFacts
      <4> QED BY <3>2, <4>1, <4>2 DEF Shared, Downloading
    <3> QED BY <2>3, <3>1, <3>2, DownloadComes
  <2>4. ASSUME NEW s \in Slices, NEW f \in Files, HasOpen(s, f)'
        PROVE  part'[f] = {s}
    <3>1. CASE UNCHANGED <<staged, part>> /\ HasOpen(s, f)
      BY <2>2, <3>1
    <3>2. ASSUME NEW r \in Slices, NEW g \in Files, OpenStream(r, g) PROVE part'[f] = {s}
      <4>1. /\ part' = [part EXCEPT ![g] = {r} \cup {x \in Slices : HasOpen(x, g)}]
            /\ Downloading(r) /\ g \in Wanted[r] /\ at' = at
        BY <3>2 DEF OpenStream, Planned, Gathering, Downloading
      <4>2. \A x \in Slices : HasOpen(x, g) => x = r
        BY <2>1, <2>2, <4>1
      <4>3. r # s \/ g # f => HasOpen(s, f)
        <5>1. r # s \/ g # f => file'[s][f] = file[s][f]
          BY <3>2, FileFacts DEF FileStep
        <5> QED BY <2>4, <4>1, <5>1 DEF HasOpen, Downloading
      <4>4. CASE f # g
        BY <2>2, <4>1, <4>3, <4>4 DEF TypeOK
      <4>5. CASE f = g
        BY <4>1, <4>2, <4>3, <4>5 DEF TypeOK
      <4> QED BY <4>4, <4>5
    <3>3. ASSUME NEW r \in Slices, NEW g \in Files, Receive(r, g) \/ TimeOut(r, g), HasOpen(s, f)
          PROVE  part'[f] = {s}
      <4>1. \/ part' = part
            \/ ~OpenElsewhere(r, g) /\ part' = [part EXCEPT ![g] = {}]
        BY <3>3, ReceiveFacts, TimeOutFacts
      <4>2. file'[r][g] \in {"waiting", "done", "failed", "unread"}
        BY <3>3, ReceiveFacts, TimeOutFacts
      <4>3. ~(r = s /\ g = f)
        BY <2>4, <4>2 DEF HasOpen
      <4>4. CASE part' = part
        BY <2>2, <3>3, <4>4
      <4>5. CASE ~OpenElsewhere(r, g) /\ part' = [part EXCEPT ![g] = {}]
        <5>1. f # g
          BY <3>3, <4>3, <4>5 DEF OpenElsewhere
        <5> QED BY <2>2, <3>3, <4>5, <5>1 DEF TypeOK
      <4> QED BY <4>1, <4>4, <4>5
    <3> QED BY <2>4, <3>1, <3>2, <3>3, StageMoves, OpenComes
  <2> QED BY <2>3, <2>4 DEF PartsAreOwn
<1> QED BY <1>1, <1>2
-----------------------------------------------------------------------------
(***************************************************************************)
(* What a verification finds.                                              *)
(***************************************************************************)
LEMMA VerifyFacts ==
    ASSUME TypeOK, NEW s \in Slices, NEW mode \in {"size", "deep"}, Verify(s, mode)
    PROVE  /\ at'[s] = mode /\ manifest' = manifest /\ target' = target
           /\ \A f \in Files : /\ file'[s][f] = (IF f \in Recorded(s) THEN "waiting" ELSE "none")
                              /\ size'[s][f] = Listed(target[f])
<1>1. Begins(s, mode, Recorded(s), [f \in Files |-> Listed(target[f])])
  BY DEF Verify
<1>2. [f \in Files |-> Listed(target[f])] \in Sizes
  BY ConstantTypes DEF TypeOK, Sizes
<1> QED BY <1>1, <1>2, BeginsFacts, StatesAre DEF Verify

\* Only a file of the record is looked at; a size that is not None is one of a file
\* that is there.
LEMMA RecordedSize ==
    ASSUME TypeOK, NEW s \in Slices, NEW f \in Recorded(s)
    PROVE  f \in Files /\ manifest[s].files[f] \in Held /\ SizeOf[manifest[s].files[f]] \in Nat
<1>1. f \in Files /\ manifest[s].files[f] \in MaybeHeld /\ manifest[s].files[f] # None
  BY DEF Recorded, TypeOK
<1> QED BY <1>1, ConstantTypes DEF MaybeHeld

LEMMA CompareFacts ==
    ASSUME TypeOK, NEW s \in Slices, NEW f \in Files, Compare(s, f), f \in Recorded(s)
    PROVE  /\ Verifying(s) /\ entry' = entry
           /\ file'[s][f] \in {"missing", "size", "ok", "open"}
           /\ file'[s][f] = "ok" => at[s] = "size"
           /\ file'[s][f] \in {"ok", "open"} =>
                 size[s][f] = SizeOf[manifest[s].files[f]] /\ size[s][f] # None
<1>1. SizeOf[manifest[s].files[f]] # None
  BY RecordedSize, ReplicateAssumption
<1>2. CASE Goes(s, f, "missing") \/ Goes(s, f, "size")
  BY <1>2, GoesFacts, StatesAre DEF Compare, TypeOK
<1>3. CASE size[s][f] = SizeOf[manifest[s].files[f]] /\ at[s] = "size" /\ Goes(s, f, "ok")
  BY <1>1, <1>3, GoesFacts, StatesAre DEF Compare, TypeOK
<1>4. CASE size[s][f] = SizeOf[manifest[s].files[f]] /\ at[s] = "deep" /\ Goes(s, f, "open")
  BY <1>1, <1>4, GoesFacts, StatesAre DEF Compare, TypeOK
<1> QED BY <1>2, <1>3, <1>4 DEF Compare

LEMMA ReadIsRecordedStep ==
    ASSUME TypeOK, StatesFit, ReadIsRecorded, [Next]_vars
    PROVE  ReadIsRecorded'
<1> DEFINE Read(s, f) ==
        /\ Verifying(s) \/ verdict[s] # "none" => (file[s][f] = "none" <=> f \notin Recorded(s))
        /\ at[s] = "deep" \/ verdict[s] = "deep" =>
               (file[s][f] = "ok" => entry[s][f] = manifest[s].files[f])
        /\ at[s] = "deep" /\ file[s][f] \in {"open", "quiet"} =>
               f \in Recorded(s) /\ size[s][f] = SizeOf[manifest[s].files[f]]
<1> SUFFICES ASSUME NEW s \in Slices, NEW f \in Files PROVE Read(s, f)'
  BY DEF ReadIsRecorded
<1>0. Read(s, f)
  BY DEF ReadIsRecorded
<1> USE DEF Verifying, Recorded
<1>a. verdict[s] # "none" => at[s] = "idle"
  BY DEF StatesFit
<1>1. CASE Own(s)' = Own(s)
  BY <1>0, <1>1 DEF Own
<1>2. CASE Download(s) \/ Upload(s)
  BY <1>2 DEF Download, Upload, Begins, TypeOK
<1>3. ASSUME NEW mode \in {"size", "deep"}, Verify(s, mode) PROVE Read(s, f)'
  <2>1. verdict'[s] = "none"
    BY <1>3, StartFacts DEF Start
  <2> QED BY <1>3, <2>1, VerifyFacts
<1>4. ASSUME NEW g \in Files, Skip(s, g) \/ OpenStream(s, g) \/ Receive(s, g) \/ Enqueue(s, g)
      PROVE  Read(s, f)'
  <2>1. at' = at /\ verdict' = verdict /\ at[s] \in {"download", "upload"}
    BY <1>4, FileFacts DEF FileStep, Skip, OpenStream, Receive, Enqueue, Downloading
  <2> QED BY <1>a, <2>1
<1>5. ASSUME NEW g \in Files, Compare(s, g) PROVE Read(s, f)'
  <2>1. /\ UNCHANGED <<at, verdict, manifest, size>> /\ (g # f => file'[s][f] = file[s][f])
        /\ Verifying(s) /\ file[s][g] = "waiting" /\ entry' = entry
    BY <1>5, FileFacts DEF FileStep, Compare
  <2>2. CASE g # f
    BY <1>0, <2>1, <2>2
  <2>3. CASE g = f
    <3>1. f \in Recorded(s)
      BY <1>0, <2>1, <2>3
    <3> QED BY <1>0, <1>5, <1>a, <2>1, <2>3, <3>1, CompareFacts
  <2> QED BY <2>2, <2>3
<1>6. ASSUME NEW g \in Files, Digest(s, g) PROVE Read(s, f)'
  <2>1. /\ UNCHANGED <<at, verdict, manifest, size>> /\ (g # f => file'[s][f] = file[s][f])
        /\ at[s] = "deep" /\ file[s][g] = "open"
    BY <1>6, FileFacts DEF FileStep, Digest
  <2>2. PICK c \in Held :
           \/ /\ entry' = [entry EXCEPT ![s][g] = c]
              /\ \/ c = manifest[s].files[g] /\ Goes(s, g, "ok")
                 \/ c # manifest[s].files[g] /\ Goes(s, g, "sha")
           \/ GoAgain(s, g, "unread") /\ UNCHANGED entry
    BY <1>6, DigestFacts
  <2>3. \/ file'[s][g] = "ok" /\ entry' = [entry EXCEPT ![s][g] = manifest[s].files[g]]
        \/ file'[s][g] = "sha" /\ entry' = [entry EXCEPT ![s][g] = c]
        \/ file'[s][g] \in {"unread", "waiting"} /\ entry' = entry
    BY <2>2, GoesFacts, GoAgainFacts, StatesAre DEF TypeOK
  <2> QED BY <1>0, <1>a, <2>1, <2>3 DEF TypeOK
<1>7. ASSUME NEW g \in Files, Stall(s, g) \/ TimeOut(s, g) PROVE Read(s, f)'
  <2>1. /\ UNCHANGED <<at, verdict, manifest, size, entry>> /\ (g # f => file'[s][f] = file[s][f])
        /\ file[s][g] \in {"open", "quiet"} /\ at[s] # "idle"
    BY <1>7, FileFacts, TimeOutFacts DEF FileStep, Stall, TimeOut
  <2>2. \/ Stall(s, g) /\ file'[s][g] = "quiet"
        \/ file'[s][g] \in {"waiting", "failed", "unread"}
    BY <1>7, TimeOutFacts, GoesFacts, StatesAre DEF Stall, TypeOK
  <2> QED BY <1>0, <1>a, <2>1, <2>2
<1>8. CASE BeginSave(s) \/ Save(s) \/ Refuse(s) \/ Flush(s) \/ Uploaded(s) \/ Kill(s)
  <2>1. verdict'[s] = verdict[s] /\ at[s] # "idle"
    BY <1>8 DEF BeginSave, Save, Refuse, Flush, Uploaded, Kill, Downloading
  <2>2. at'[s] \in {"idle", "saving", "upload"}
    BY <1>8 DEF BeginSave, Save, Refuse, Flush, Uploaded, Kill, TypeOK
  <2> QED BY <1>a, <2>1, <2>2
<1>9. CASE Conclude(s)
  BY <1>0, <1>9 DEF Conclude, streamVars, TypeOK
<1> HIDE DEF Read
<1> QED BY <1>1, <1>2, <1>3, <1>4, <1>5, <1>6, <1>7, <1>8, <1>9, OneActs DEF Acts, Start, Step, FileStep

LEMMA AlarmsAreTrueStep ==
    ASSUME TypeOK, StatesFit, NothingTorn, ReadIsRecorded, AlarmsAreTrue, [Next]_vars
    PROVE  AlarmsAreTrue'
<1> SUFFICES ASSUME NEW s \in Slices, NEW f \in Files, file'[s][f] = "sha"
             PROVE  entry'[s][f] \notin {Torn, manifest'[s].files[f]}
  BY DEF AlarmsAreTrue
<1>0. file[s][f] = "sha" => entry[s][f] \notin {Torn, manifest[s].files[f]}
  BY DEF AlarmsAreTrue
<1>1. CASE Own(s)' = Own(s)
  BY <1>0, <1>1 DEF Own
<1>2. CASE Start(s)
  BY <1>2, StartFacts
<1>3. ASSUME NEW g \in Files, Digest(s, g)
      PROVE  entry'[s][f] \notin {Torn, manifest'[s].files[f]}
  <2>1. manifest' = manifest /\ (g # f => file'[s][f] = file[s][f])
    BY <1>3, FileFacts DEF FileStep
  <2>2. PICK c \in Held :
           \/ /\ IsWhole(s, g, c) /\ entry' = [entry EXCEPT ![s][g] = c]
              /\ \/ c = manifest[s].files[g] /\ Goes(s, g, "ok")
                 \/ c # manifest[s].files[g] /\ Goes(s, g, "sha")
           \/ GoAgain(s, g, "unread") /\ UNCHANGED entry
    BY <1>3, DigestFacts
  <2>3. \/ file'[s][g] = "sha" /\ c # manifest[s].files[g] /\ IsWhole(s, g, c)
           /\ entry' = [entry EXCEPT ![s][g] = c]
        \/ file'[s][g] = "ok" /\ entry' = [entry EXCEPT ![s][g] = c]
        \/ file'[s][g] \in {"unread", "waiting"} /\ entry' = entry
    BY <2>2, GoesFacts, GoAgainFacts, StatesAre DEF TypeOK
  <2>4. g \in Recorded(s) /\ size[s][g] = SizeOf[manifest[s].files[g]]
    BY <1>3 DEF Digest, ReadIsRecorded
  <2>5. manifest[s].files[g] \in Contents \cup {Mixed}
    BY <2>4, RecordedSize DEF Held, NothingTorn
  <2>6. SizeOf[Torn] # size[s][g]
    BY <2>4, <2>5, ReplicateAssumption
  <2>7. CASE g # f
    BY <1>0, <2>1, <2>3, <2>7 DEF TypeOK
  <2>8. CASE g = f
    BY <2>1, <2>3, <2>6, <2>8 DEF TypeOK, IsWhole
  <2> QED BY <2>7, <2>8
<1>4. ASSUME NEW g \in Files,
             Skip(s, g) \/ Receive(s, g) \/ OpenStream(s, g) \/ Stall(s, g) \/ TimeOut(s, g) \/ Compare(s, g)
             \/ Enqueue(s, g)
      PROVE  entry'[s][f] \notin {Torn, manifest'[s].files[f]}
  <2>1. manifest' = manifest /\ (g # f => file'[s][f] = file[s][f])
    BY <1>4, FileFacts DEF FileStep
  <2>2. CASE Skip(s, g) \/ Receive(s, g) \/ OpenStream(s, g)
    <3>1. Downloading(s) /\ at' = at
      BY <2>2, FileFacts DEF FileStep, Skip, Receive, OpenStream
    <3>2. file'[s][g] # "sha"
      BY <2>2, <3>1, FileFacts DEF FileStep
    <3>3. g # f /\ file[s][f] = "sha"
      BY <2>1, <3>2
    <3> QED BY <3>1, <3>3 DEF StatesFit, Ended
  <2>3. CASE Stall(s, g) \/ TimeOut(s, g) \/ Compare(s, g)
    <3>1. entry' = entry
      BY <2>3, TimeOutFacts DEF Stall, Compare
    <3>2. g = f => file'[s][g] # "sha"
      <4>1. Stall(s, g) => file'[s][g] = "quiet"
        BY GoesFacts, StatesAre DEF Stall, TypeOK
      <4>2. TimeOut(s, g) => file'[s][g] # "sha"
        BY TimeOutFacts
      <4>3. Compare(s, g) => \E x \in {"missing", "size", "ok", "open"} : Goes(s, g, x)
        BY DEF Compare
      <4>4. Compare(s, g) => file'[s][g] # "sha"
        BY <4>3, GoesFacts, StatesAre DEF TypeOK
      <4> QED BY <2>3, <4>1, <4>2, <4>4
    <3> QED BY <1>0, <2>1, <3>1, <3>2
  <2>4. CASE Enqueue(s, g)
    BY <1>0, <2>4 DEF Enqueue, streamVars
  <2> QED BY <1>4, <2>2, <2>3, <2>4
<1>5. CASE BeginSave(s) \/ Save(s)
  <2>1. file' = file /\ at[s] \in {"download", "saving"}
    BY <1>5 DEF BeginSave, Save, streamVars, Downloading
  <2> QED BY <2>1 DEF StatesFit, Downloading, Ended
<1>6. CASE Refuse(s) \/ Flush(s) \/ Uploaded(s) \/ Kill(s) \/ Conclude(s)
  BY <1>0, <1>6 DEF Refuse, Flush, Uploaded, Kill, Conclude, streamVars
<1> QED BY <1>1, <1>2, <1>3, <1>4, <1>5, <1>6, OneActs DEF Acts, Step, FileStep

LEMMA FoundIsThereStep ==
    ASSUME TypeOK, StatesFit, Planned, ReadIsRecorded, FoundIsThere, [Next]_vars
    PROVE  FoundIsThere'
<1> DEFINE Found(s, f) ==
        /\ f \in queue[s] => staged[f] # None
        /\ Verifying(s) \/ verdict[s] # "none" =>
               (file[s][f] \in {"ok", "open", "quiet"} => target[f] # None)
        /\ Verifying(s) /\ size[s][f] # None => target[f] # None
<1>0. \A s \in Slices, f \in Files : Found(s, f)
  BY DEF FoundIsThere
<1>1. \A f \in Files : staged[f] # None => staged'[f] # None
  BY Staging, ReplicateAssumption DEF TypeOK
<1>2. \A f \in Files : target[f] # None => target'[f] # None
  <2>1. ASSUME NEW s \in Slices, Flush(s)
        PROVE  \A f \in Files : target[f] # None => target'[f] # None
    BY <1>0, <2>1, ReplicateAssumption DEF Flush, TypeOK
  <2>2. ASSUME NEW s \in Slices, NEW f \in Files, FileStep(s, f) \/ Stall(s, f) PROVE target' = target
    BY <2>2, FileFacts
  <2>3. ASSUME NEW s \in Slices, Start(s) \/ BeginSave(s) \/ Save(s) \/ Refuse(s) \/ Uploaded(s) \/ Kill(s)
                                 \/ Conclude(s)
        PROVE  target' = target
    BY <2>3 DEF Start, Download, Upload, Verify, BeginSave, Save, Refuse, Uploaded, Kill, Conclude
  <2>4. ASSUME NEW f \in Files, Change(f) PROVE target' = target
    BY <2>4 DEF Change
  <2> QED BY <2>1, <2>2, <2>3, <2>4 DEF Next, Step, vars
<1> SUFFICES ASSUME NEW s \in Slices, NEW f \in Files PROVE Found(s, f)'
  BY DEF FoundIsThere
<1>a. Found(s, f) /\ (verdict[s] # "none" => at[s] = "idle")
  BY <1>0 DEF StatesFit
<1> USE DEF Verifying
<1>3. CASE Own(s)' = Own(s)
  BY <1>a, <1>1, <1>2, <1>3 DEF Own
<1>4. CASE Download(s) \/ Upload(s)
  BY <1>a, <1>1, <1>4 DEF Download, Upload, Begins, TypeOK, uploadVars
<1>5. ASSUME NEW mode \in {"size", "deep"}, Verify(s, mode) PROVE Found(s, f)'
  <2>1. size'[s][f] # None => target'[f] # None
    BY <1>5, VerifyFacts DEF Listed
  <2>2. file'[s][f] \in {"waiting", "none"} /\ queue' = queue
    BY <1>5, VerifyFacts DEF Verify, uploadVars
  <2> QED BY <1>a, <1>1, <2>1, <2>2
<1>6. ASSUME NEW g \in Files, FileStep(s, g) \/ Stall(s, g) PROVE Found(s, f)'
  <2>1. /\ UNCHANGED <<at, verdict, manifest, size>> /\ (g # f => file'[s][f] = file[s][f])
        /\ at[s] # "idle"
    BY <1>6, FileFacts
  <2>2. f \in queue'[s] => f \in queue[s] \/ staged[f] # None
    BY <1>6 DEF FileStep, Stall, Skip, OpenStream, Receive, Compare, Digest, TimeOut, Enqueue, Stageable, TypeOK,
       uploadVars
  <2>3. Verifying(s) /\ file'[s][g] \in {"ok", "open", "quiet"} =>
           file[s][g] \in {"open", "quiet"} \/ size[s][g] # None
    <3> SUFFICES ASSUME Verifying(s), file'[s][g] \in {"ok", "open", "quiet"}
                 PROVE  file[s][g] \in {"open", "quiet"} \/ size[s][g] # None \/ file'[s][g] = file[s][g]
      BY <1>0, <1>6 DEF FileStep, Stall, Skip, OpenStream, Receive, Compare, Digest, TimeOut, Enqueue
    <3>1. CASE Compare(s, g)
      <4>1. g \in Recorded(s)
        BY <3>1 DEF Compare, ReadIsRecorded
      <4> QED BY <3>1, <4>1, CompareFacts
    <3>2. CASE Digest(s, g) \/ TimeOut(s, g) \/ Stall(s, g)
      BY <3>2 DEF Digest, TimeOut, Stall
    <3>3. CASE Skip(s, g) \/ OpenStream(s, g) \/ Receive(s, g) \/ Enqueue(s, g)
      BY <3>3 DEF Skip, OpenStream, Receive, Enqueue, Downloading
    <3> QED BY <1>6, <3>1, <3>2, <3>3 DEF FileStep
  <2> QED BY <1>0, <1>1, <1>2, <1>a, <2>1, <2>2, <2>3
<1>7. CASE BeginSave(s) \/ Save(s) \/ Refuse(s) \/ Flush(s) \/ Uploaded(s) \/ Kill(s)
  <2>1. verdict'[s] = verdict[s] /\ at[s] # "idle"
    BY <1>7 DEF BeginSave, Save, Refuse, Flush, Uploaded, Kill, Downloading
  <2>2. at'[s] \in {"idle", "saving", "upload"} /\ queue'[s] \subseteq queue[s]
    BY <1>7 DEF BeginSave, Save, Refuse, Flush, Uploaded, Kill, TypeOK, uploadVars
  <2> QED BY <1>a, <1>1, <2>1, <2>2
<1>8. CASE Conclude(s)
  BY <1>a, <1>8 DEF Conclude, streamVars, stageVars, uploadVars, TypeOK
<1> HIDE DEF Found
<1> QED BY <1>3, <1>4, <1>5, <1>6, <1>7, <1>8, OneActs DEF Acts, Start, Step

LEMMA PlansAreCompleteStep ==
    ASSUME TypeOK, StatesFit, NothingTorn, PlansAreComplete, [Next]_vars
    PROVE  PlansAreComplete'
<1>1. CASE Spent("listing")'
  BY <1>1 DEF PlansAreComplete
<1>2. CASE ~Spent("listing")'
  <2>0. ~Spent("listing") /\ ~Spend("listing")
    BY <1>2, SpentStays, PaidFor, KindsAre
  <2> SUFFICES ASSUME NEW s \in Slices, NEW f \in Files, f \in Wanted[s]
               PROVE  /\ Gathering(s)' => file'[s][f] # "none"
                      /\ Usable(manifest'[s]) => f \in Recorded(s)'
    BY DEF PlansAreComplete
  <2>1. /\ Gathering(s) => file[s][f] # "none"
        /\ Usable(manifest[s]) => f \in Recorded(s)
    BY <2>0 DEF PlansAreComplete
  <2>2. Gathering(s)' => file'[s][f] # "none"
    <3> USE DEF Gathering
    <3>1. CASE Own(s)' = Own(s)
      BY <2>1, <3>1 DEF Own
    <3>2. CASE Download(s)
      BY <2>0, <3>2, DownloadFacts
    <3>3. CASE Upload(s) \/ \E mode \in {"size", "deep"} : Verify(s, mode)
      BY <3>3 DEF Upload, Verify, Begins, TypeOK
    <3>4. ASSUME NEW g \in Files, FileStep(s, g) \/ Stall(s, g)
          PROVE  Gathering(s)' => file'[s][f] # "none"
      BY <2>1, <3>4, FileFacts DEF Downloading
    <3>5. CASE BeginSave(s) \/ Flush(s)
      BY <2>1, <3>5 DEF BeginSave, Flush, streamVars, Downloading
    <3>6. CASE Save(s) \/ Refuse(s) \/ Uploaded(s) \/ Kill(s) \/ Conclude(s)
      BY <3>6 DEF Save, Refuse, Uploaded, Kill, Conclude, TypeOK
    <3> QED BY <3>1, <3>2, <3>3, <3>4, <3>5, <3>6, OneActs DEF Acts, Start, Step
  <2>3. Usable(manifest'[s]) => f \in Recorded(s)'
    <3>1. CASE manifest'[s] = manifest[s]
      BY <2>1, <3>1 DEF Recorded
    <3>2. CASE manifest'[s] = BrokenManifest
      BY <3>2 DEF Usable, BrokenManifest, NoManifest
    <3>3. CASE at[s] = "saving" /\ manifest'[s] = Record(s)
      <4>1. file[s][f] \in {"done", "failed"}
        BY <2>1, <3>3 DEF StatesFit, Gathering, Ended
      <4>2. file[s][f] = "done" => entry[s][f] # None
        BY <3>3 DEF NothingTorn, Gathering
      <4> QED BY <3>3, <4>1, <4>2 DEF Usable, Recorded, Record
    <3> QED BY <3>1, <3>2, <3>3, Recording
  <2> QED BY <2>2, <2>3
<1> QED BY <1>1, <1>2
-----------------------------------------------------------------------------
(***************************************************************************)
(* The theorems.                                                           *)
(***************************************************************************)
LEMMA InvariantInit == Init => IInv
<1> SUFFICES ASSUME Init PROVE IInv
  OBVIOUS
<1>1. TypeOK
  BY TypeInit
<1>2. /\ \A s \in Slices : at[s] = "idle" /\ verdict[s] = "none" /\ queue[s] = {} /\ manifest[s] = NoManifest
      /\ \A s \in Slices, f \in Files : file[s][f] = "none"
      /\ \A f \in Files : staged[f] = None /\ was[f] = {source[f]}
  BY DEF Init, NoFiles
<1>3. ~Usable(NoManifest) /\ \A f \in Files : NoManifest.files[f] = None
  BY DEF Usable, NoManifest, NoFiles
<1>4. TriesLeft /\ StatesFit /\ Planned
  BY <1>2 DEF TriesLeft, StatesFit, Planned, Gathering, Downloading, Verifying
<1>5. PartsAreOwn /\ SourceIsKnown
  BY <1>2 DEF PartsAreOwn, SourceIsKnown, HasOpen, Downloading
<1>6. NothingTorn /\ NotedIsTheSource
  BY <1>2, <1>3, ReplicateAssumption DEF NothingTorn, NotedIsTheSource, Gathering
<1>7. ReadIsRecorded /\ FoundIsThere /\ AlarmsAreTrue
  BY <1>2 DEF ReadIsRecorded, FoundIsThere, AlarmsAreTrue, Verifying
<1>8. PlansAreComplete
  BY <1>2, <1>3 DEF PlansAreComplete, Gathering
<1> QED BY <1>1, <1>4, <1>5, <1>6, <1>7, <1>8 DEF IInv

LEMMA InvariantStep ==
    ASSUME IInv, [Next]_vars
    PROVE  IInv'
<1> USE DEF IInv
<1>1. TypeOK' /\ TriesLeft' /\ StatesFit' /\ Planned' /\ PartsAreOwn' /\ SourceIsKnown'
  BY TypeStep, TriesStep, StatesFitStep, PlannedStep, PartsAreOwnStep, WasGrows
<1>2. NothingTorn' /\ NotedIsTheSource' /\ ReadIsRecorded' /\ FoundIsThere' /\ PlansAreComplete' /\ AlarmsAreTrue'
  BY NothingTornStep, NotedIsTheSourceStep, ReadIsRecordedStep, FoundIsThereStep, PlansAreCompleteStep,
     AlarmsAreTrueStep
<1> QED BY <1>1, <1>2

\* The inductive invariant: whatever is changed, cut, stalled or killed, the parts of
\* the staging directory, the manifests and the reports fit each other.
THEOREM ReplicaInvariant == Spec => []IInv
<1>1. Init => IInv
  BY InvariantInit
<1>2. IInv /\ [Next]_vars => IInv'
  BY InvariantStep
<1> QED BY <1>1, <1>2, PTL DEF Spec

\* Every variable of the replication keeps its type.
THEOREM ReplicaTypeCorrect == Spec => []TypeOK
<1>1. IInv => TypeOK
  BY DEF IInv
<1> QED BY <1>1, ReplicaInvariant, PTL

\* _fetch_one gives nothing but a whole file of the source its real name.
THEOREM StagedFilesAreWhole == Spec => []StagedIsWhole
<1>1. IInv => StagedIsWhole
  BY DEF IInv, NotedIsTheSource, StagedIsWhole
<1> QED BY <1>1, ReplicaInvariant, PTL

\* What cmd_verify --deep vouches for was read from the replica and is the source's.
THEOREM VerifiedFilesAreTheSource == Spec => []VerifiedIsTheSource
<1>1. IInv => VerifiedIsTheSource
  <2> SUFFICES ASSUME IInv, ~Spent("overlap"), NEW s \in Slices, verdict[s] = "deep", NEW f \in Recorded(s)
               PROVE  entry[s][f] \in was[f]
    BY DEF VerifiedIsTheSource
  <2>1. f \in Files /\ manifest[s].files[f] # None
    BY DEF Recorded
  <2>2. file[s][f] = "ok"
    BY <2>1 DEF IInv, StatesFit, Passed, ReadIsRecorded
  <2>3. entry[s][f] = manifest[s].files[f]
    BY <2>1, <2>2 DEF IInv, ReadIsRecorded
  <2> QED BY <2>1, <2>3 DEF IInv, NotedIsTheSource
<1> QED BY <1>1, ReplicaInvariant, PTL

\* A slice that cmd_verify passes has all its files, if the source could be listed.
THEOREM VerifiedSlicesAreComplete == Spec => []VerifiedIsComplete
<1>1. IInv => VerifiedIsComplete
  <2> SUFFICES ASSUME IInv, ~Spent("listing"), NEW s \in Slices, verdict[s] # "none", NEW f \in Wanted[s]
               PROVE  target[f] # None
    BY DEF VerifiedIsComplete
  <2>1. f \in Files
    BY ReplicateAssumption
  <2>2. Usable(manifest[s]) /\ Passed(s)
    BY DEF IInv, StatesFit
  <2>3. f \in Recorded(s)
    BY <2>1, <2>2 DEF IInv, PlansAreComplete
  <2>4. file[s][f] = "ok"
    BY <2>1, <2>2, <2>3 DEF IInv, Passed, ReadIsRecorded
  <2> QED BY <2>1, <2>4 DEF IInv, FoundIsThere
<1> QED BY <1>1, ReplicaInvariant, PTL

\* cmd_verify reports a file as different only when it read a whole other file.
THEOREM AlarmsAreReal == Spec => []AlarmsAreTrue
<1>1. IInv => AlarmsAreTrue
  BY DEF IInv
<1> QED BY <1>1, ReplicaInvariant, PTL
=============================================================================
