-------------------------- MODULE RxTransferProofs --------------------------
(***************************************************************************)
(* Theorems about RxTransfer, for any files, sessions, rounds and budget.  *)
(***************************************************************************)
EXTENDS RxTransfer, SequenceTheorems, TLAPS

(***************************************************************************)
(* Files as sequences of blocks.                                           *)
(***************************************************************************)
\* Writing a block anywhere leaves a file of blocks and holes.
LEMMA PutType ==
    ASSUME NEW f \in Bytes, NEW i \in Nat \ {0}, NEW b \in Blocks
    PROVE  Put(f, i, b) \in Bytes
<1>1. Len(f) \in Nat /\ \A n \in 1..Len(f) : f[n] \in Blocks \cup {Hole}
  BY DEF Bytes
<1> DEFINE m == IF i > Len(f) THEN i ELSE Len(f)
<1>2. m \in Nat
  BY <1>1
<1>3. \A n \in 1..m : (IF n = i THEN b ELSE IF n > Len(f) THEN Hole ELSE f[n]) \in Blocks \cup {Hole}
  BY <1>1
<1> QED
  BY <1>2, <1>3 DEF Put, Bytes

\* Writing one at the end appends it.
LEMMA PutAppends ==
    ASSUME NEW f \in Bytes, NEW b \in Blocks
    PROVE  Put(f, Len(f) + 1, b) = Append(f, b)
<1>1. Len(f) \in Nat
  BY DEF Bytes
<1>2. Put(f, Len(f) + 1, b) \in Bytes /\ Append(f, b) \in Bytes
  BY <1>1, PutType DEF Bytes
<1>3. Len(Put(f, Len(f) + 1, b)) = Len(f) + 1
  BY <1>1, <1>2 DEF Put, Bytes
<1>4. \A n \in 1..Len(f) + 1 : Put(f, Len(f) + 1, b)[n] = Append(f, b)[n]
  BY <1>1 DEF Put, Bytes
<1> QED
  BY <1>2, <1>3, <1>4, SeqEqual DEF Bytes

\* Moving the first block from what is to come to what has come keeps their sum.
LEMMA MoveOne ==
    ASSUME NEW f \in Bytes, NEW p \in Seq(Blocks), p # <<>>
    PROVE  /\ Head(p) \in Blocks /\ Tail(p) \in Seq(Blocks)
           /\ Append(f, Head(p)) \in Bytes
           /\ Append(f, Head(p)) \o Tail(p) = f \o p
<1>1. Head(p) \in Blocks /\ Tail(p) \in Seq(Blocks)
  BY HeadTailProperties
<1>2. p \in Bytes /\ Tail(p) \in Bytes /\ <<Head(p)>> \in Bytes /\ p = <<Head(p)>> \o Tail(p)
  BY <1>1 DEF Bytes
<1>3. Append(f, Head(p)) = f \o <<Head(p)>>
  BY <1>1, AppendIsConcat DEF Bytes
<1>4. (f \o <<Head(p)>>) \o Tail(p) = f \o (<<Head(p)>> \o Tail(p))
  BY <1>2, ConcatAssociative DEF Bytes
<1> QED
  BY <1>1, <1>2, <1>3, <1>4 DEF Bytes

\* A prefix of a file.
LEMMA PrefixType ==
    ASSUME NEW S, NEW f \in Seq(S), NEW n \in 0..Len(f)
    PROVE  SubSeq(f, 1, n) \in Seq(S) /\ Len(SubSeq(f, 1, n)) = n
BY SubSeqProperties

\* The rest of a file from any place on.
LEMMA RestType ==
    ASSUME NEW S, NEW f \in Seq(S), NEW m \in Nat, NEW n \in 0..Len(f)
    PROVE  SubSeq(f, m + 1, n) \in Seq(S)
BY SubSeqProperties

(***************************************************************************)
(* Types, and the coherence of each session with its file.                 *)
(***************************************************************************)
TypeInv == TypeOK /\ SessionsCoherent

\* The initial values.
LEMMA InitTypeInv == Init => TypeInv
<1> SUFFICES ASSUME Init PROVE TypeInv
  OBVIOUS
<1>1. <<>> \in Bytes /\ <<>> \in Seq(Blocks)
  BY EmptySeq DEF Bytes
<1>2. NoSession \in Processes
  BY <1>1 DEF NoSession, Processes
<1>3. push \in Pushes
  BY DEF Init, Pushes, Ended
<1>4. TypeOK
  BY <1>2, <1>3, ConstantsAssumption DEF Init, TypeOK
<1>5. SessionsCoherent
  BY DEF Init, SessionsCoherent, Running, Ended, NoSession
<1> QED
  BY <1>4, <1>5 DEF TypeInv

\* What the file holds, what it may still receive, and what reading an edited file gives.
LEMMA ReadTypes ==
    ASSUME TypeInv
    PROVE  /\ local \in Seq(Blocks)
           /\ \A v \in Versions, k \in 1..Len(local) :
                 SubSeq(local, 1, k) \o SubSeq(v, k + 1, Shorter(Len(v), Len(local))) \in Seq(Blocks)
<1>1. local \in Seq(Blocks)
  BY ConstantsAssumption DEF TypeInv, TypeOK
<1>2. ASSUME NEW v \in Versions, NEW k \in 1..Len(local)
      PROVE  SubSeq(local, 1, k) \o SubSeq(v, k + 1, Shorter(Len(v), Len(local))) \in Seq(Blocks)
  <2>1. v \in Seq(Blocks) /\ Len(v) \in Nat /\ Len(local) \in Nat
    BY <1>1, <1>2, ConstantsAssumption
  <2>2. Shorter(Len(v), Len(local)) \in 0..Len(v)
    BY <2>1 DEF Shorter
  <2>3. SubSeq(local, 1, k) \in Seq(Blocks)
    BY <1>1, <1>2, <2>1, PrefixType
  <2>4. SubSeq(v, k + 1, Shorter(Len(v), Len(local))) \in Seq(Blocks)
    BY <1>2, <2>1, <2>2, RestType
  <2> QED
    BY <2>3, <2>4, ConcatProperties
<1> QED
  BY <1>1, <1>2

\* A version is a file, and an entry of it an entry.
LEMMA EntryType ==
    ASSUME NEW f \in Files, NEW b \in Bytes, NEW p \in BOOLEAN
    PROVE  Entry(f, b, p) \in Entries
BY DEF Entry, Entries, Files, Bytes

\* Versions and the job's output are files without holes.
LEMMA ContentsAreBytes == Contents \subseteq Bytes /\ Versions \subseteq Bytes
BY ConstantsAssumption, SeqMonotonic DEF Contents, Bytes

\* What is left of the budget stays a number.
LEMMA SpendType ==
    ASSUME TypeOK, NEW k \in {"failures", "edits", "outputs", "pushes"}, Spend(k)
    PROVE  left' \in [DOMAIN Budget -> Nat]
<1>1. DOMAIN Budget = {"failures", "edits", "outputs", "pushes"}
  BY ConstantsAssumption
<1>2. left[k] \in Nat /\ left[k] > 0
  BY <1>1 DEF TypeOK, Spend
<1>3. left[k] - 1 \in Nat
  BY <1>2
<1> QED
  BY <1>1, <1>3 DEF TypeOK, Spend

Steps == Receiving \cup {"none", "copy", "land", "placed", "update", "ok", "failed", "raised"}

PushSteps == Ended \cup {"plan", "copying", "stream", "sent", "recall", "lost"}

\* A session replaced by another process.
LEMMA ReplaceSession ==
    ASSUME TypeOK, NEW r \in Sessions, NEW x \in Processes, ses' = [ses EXCEPT ![r] = x]
    PROVE  /\ ses' \in [Sessions -> Processes]
           /\ ses'[r] = x
           /\ \A q \in Sessions \ {r} : ses'[q] = ses[q]
BY DEF TypeOK

\* A session that goes on with nothing but its place changed.
LEMMA GoOn ==
    ASSUME TypeOK, NEW r \in Sessions, NEW at \in Steps, Go(r, at)
    PROVE  /\ ses' \in [Sessions -> Processes]
           /\ ses'[r].at = at
           /\ ses'[r].sha = ses[r].sha /\ ses'[r].off = ses[r].off /\ ses'[r].pipe = ses[r].pipe
           /\ ses'[r].trailer = ses[r].trailer /\ ses'[r].got = ses[r].got
           /\ ses'[r].entry = ses[r].entry
           /\ \A q \in Sessions \ {r} : ses'[q] = ses[q]
<1>1. ses[r] \in Processes
  BY DEF TypeOK
<1> DEFINE x == [ses[r] EXCEPT !.at = at]
<1>2. x \in Processes
  BY <1>1 DEF Processes, Steps
<1>3. ses' = [ses EXCEPT ![r] = x]
  BY DEF TypeOK, Go
<1>4. /\ x.at = at /\ x.sha = ses[r].sha /\ x.off = ses[r].off /\ x.pipe = ses[r].pipe
      /\ x.trailer = ses[r].trailer /\ x.got = ses[r].got /\ x.entry = ses[r].entry
  BY <1>1 DEF Processes
<1> HIDE DEF x
<1> QED
  BY <1>2, <1>3, <1>4, ReplaceSession

\* The parts of a process.
LEMMA ProcessParts ==
    ASSUME NEW x \in Processes
    PROVE  /\ x.at \in Steps /\ x.sha \in {None} \cup Versions /\ x.off \in Nat
           /\ x.pipe \in Seq(Blocks) /\ x.trailer \in {None} \cup Seq(Blocks)
           /\ x.got \in Bytes /\ x.entry \in {None} \cup Entries
BY DEF Processes, Steps

\* The command goes on: in its round or in the next.
LEMMA PushType ==
    ASSUME push \in Pushes, NEW at \in PushSteps, NEW n \in {push.round, push.round + 1}
    PROVE  /\ [push EXCEPT !.at = at, !.round = n, !.by = None] \in Pushes
           /\ [push EXCEPT !.at = at, !.by = None, !.round = n] \in Pushes
           /\ [push EXCEPT !.at = at, !.by = None] \in Pushes
<1>1. push.round \in Nat /\ n \in Nat
  BY DEF Pushes
<1> QED
  BY <1>1 DEF Pushes, PushSteps

\* What SessionsCoherent says of one session.
Sound(r) ==
    /\ ~Running(r) => ses[r] = NoSession
    /\ Running(r) => ses[r].sha \in Versions
    /\ ses[r].at \in {"write", "copy"} => part # None
    /\ ses[r].at = "copy" => ses[r].got \o ses[r].pipe = ses[r].sha
    /\ ses[r].at \in {"land", "placed"} => ses[r].got = ses[r].sha

\* The sessions stay coherent when one of them takes a step and leaves the others the
\* partial file they have open.
LEMMA OneSteps ==
    ASSUME SessionsCoherent, NEW r \in Sessions, Sound(r)',
           \A q \in Sessions \ {r} : ses'[q] = ses[q],
           part' = None => part = None \/ ~InUse(r),
           push'.at \notin Ended => push'.want \in Versions
    PROVE  SessionsCoherent'
<1>1. \A q \in Sessions \ {r} : Sound(q)'
  <2> TAKE q \in Sessions \ {r}
  <2>1. Sound(q) /\ ses'[q] = ses[q]
    BY DEF SessionsCoherent, Sound
  <2>2. ses[q].at \in {"write", "copy"} => part' # None
    BY <2>1 DEF InUse, Sound
  <2> QED
    BY <2>1, <2>2 DEF Sound, Running
<1> QED
  BY <1>1 DEF SessionsCoherent, Sound

\* Every step keeps the types and the coherence, one step per action.
LEMMA NextTypeInv == TypeInv /\ [Next]_vars => TypeInv'
<1> SUFFICES ASSUME TypeInv, [Next]_vars PROVE TypeInv'
  OBVIOUS
<1> USE DEF TypeInv, SessionsCoherent, Running, Pushes, Ended, Steps, Receiving, disk
<1>a. <<>> \in Bytes /\ <<>> \in Seq(Blocks) /\ Contents \subseteq Bytes /\ Versions \subseteq Bytes
  BY EmptySeq, ContentsAreBytes DEF Bytes
<1>b. NoSession \in Processes /\ NoSession.at = "none"
  BY <1>a DEF NoSession, Processes
<1>c. Versions \subseteq Seq(Blocks) /\ Versions \subseteq Contents /\ MaxRounds \in Nat
  BY ConstantsAssumption DEF Contents
<1>d. \A r \in Sessions : ses[r] \in Processes
  BY DEF TypeOK
<1>1. CASE StartPush
  <2>1. left' \in [DOMAIN Budget -> Nat]
    BY <1>1, SpendType DEF StartPush
  <2> QED
    BY <1>1, <2>1 DEF StartPush, TypeOK
<1>2. CASE PlanHave
  <2>1. Entry(dest, push.want, TRUE) \in Entries
    BY <1>2, <1>a, EntryType DEF PlanHave, Have, TypeOK
  <2> QED
    BY <1>2, <2>1 DEF PlanHave, TypeOK
<1>3. ASSUME NEW r \in Sessions, PlanCopy(r) PROVE TypeInv'
  <2> DEFINE x == [NoSession EXCEPT !.at = "copy", !.sha = push.want, !.pipe = push.want]
  <2>1. push.want \in Versions /\ push.want \in Seq(Blocks) /\ <<>> \o push.want = push.want
    BY <1>3, <1>c, ConcatEmptySeq DEF PlanCopy
  <2>2. /\ x \in Processes
        /\ x.at = "copy" /\ x.sha = push.want /\ x.pipe = push.want /\ x.got = <<>>
    BY <1>a, <2>1 DEF NoSession, Processes
  <2> HIDE DEF x
  <2>3. /\ ses' \in [Sessions -> Processes] /\ ses'[r] = x
        /\ \A q \in Sessions \ {r} : ses'[q] = ses[q]
    BY <1>3, <2>2, ReplaceSession DEF PlanCopy, x
  <2>4. part' = <<>> /\ part' # None
    BY <1>3, <1>a, NamesAssumption DEF PlanCopy, Bytes
  <2>5. push' \in Pushes /\ push'.want \in Versions
    BY <1>3, <2>1 DEF PlanCopy, TypeOK
  <2>6. Sound(r)'
    BY <2>1, <2>2, <2>3, <2>4 DEF Sound
  <2>7. SessionsCoherent'
    BY <2>3, <2>4, <2>5, <2>6, OneSteps
  <2> QED
    BY <1>3, <1>a, <2>3, <2>4, <2>5, <2>7 DEF PlanCopy, TypeOK
<1>4. CASE PlanNeed
  <2>1. PartialOffset(push.want) \in Nat
    BY DEF PartialOffset, Bytes, TypeOK
  <2> QED
    BY <1>4, <2>1 DEF PlanNeed, TypeOK
<1>5. ASSUME NEW r \in Sessions, NEW bytes \in Seq(Blocks), Stream(r, bytes), local' \in Versions,
             left' \in [DOMAIN Budget -> Nat]
      PROVE  TypeInv'
  <2> DEFINE off == IF push.off > Len(local) THEN 0 ELSE push.off
             x == [NoSession EXCEPT !.at = "open", !.sha = push.want, !.off = off,
                                    !.pipe = SubSeq(bytes, off + 1, Len(bytes)),
                                    !.size = Len(local), !.trailer = bytes]
  <2>1. off \in Nat /\ Len(local) \in Nat /\ Len(bytes) \in Nat /\ push.want \in Versions
    BY <1>5, <1>c DEF TypeOK, Stream
  <2>2. SubSeq(bytes, off + 1, Len(bytes)) \in Seq(Blocks)
    BY <2>1, RestType
  <2>3. x \in Processes /\ x.at = "open" /\ x.sha = push.want
    BY <1>a, <2>1, <2>2 DEF NoSession, Processes
  <2>4. ses' = [ses EXCEPT ![r] = x] /\ push' = [push EXCEPT !.at = "sent", !.by = r]
    BY <1>5 DEF Stream
  <2> HIDE DEF off, x
  <2>5. /\ ses' \in [Sessions -> Processes] /\ ses'[r] = x
        /\ \A q \in Sessions \ {r} : ses'[q] = ses[q]
    BY <2>3, <2>4, ReplaceSession
  <2>6. push' \in Pushes /\ push'.want \in Versions
    BY <2>1, <2>4 DEF TypeOK
  <2>7. Sound(r)'
    BY <2>1, <2>3, <2>5 DEF Sound
  <2>8. part' = part /\ side' = side /\ dest' = dest /\ idx' = idx
    BY <1>5 DEF Stream
  <2>9. SessionsCoherent'
    BY <2>5, <2>6, <2>7, <2>8, OneSteps
  <2> QED
    BY <1>5, <2>5, <2>6, <2>8, <2>9 DEF TypeOK
<1>6. ASSUME NEW r \in Sessions, StreamFile(r) PROVE TypeInv'
  BY <1>5, <1>6, <1>c DEF StreamFile, TypeOK
<1>7. ASSUME NEW r \in Sessions, NEW v \in Versions, NEW k \in 1..Len(local), StreamEdited(r, v, k)
      PROVE  TypeInv'
  <2>1. left' \in [DOMAIN Budget -> Nat]
    BY <1>7, SpendType DEF StreamEdited
  <2> QED
    BY <1>5, <1>7, <2>1, ReadTypes DEF StreamEdited
<1>8. ASSUME NEW r \in Sessions, ses' = [ses EXCEPT ![r] = NoSession]
      PROVE  /\ ses' \in [Sessions -> Processes] /\ ses'[r] = NoSession
             /\ \A q \in Sessions \ {r} : ses'[q] = ses[q]
  BY <1>8, <1>b, ReplaceSession
<1>9. ASSUME NEW r \in Sessions, Reply(r) \/ RemoteError(r) PROVE TypeInv'
  <2>1. push' \in Pushes
    <3>1. push \in Pushes
      BY DEF TypeOK
    <3>2. PICK at \in {"plan", "done", "raised"}, n \in {push.round, push.round + 1} :
             \/ push' = push
             \/ push' = [push EXCEPT !.at = at, !.round = n, !.by = None]
             \/ push' = [push EXCEPT !.at = at, !.by = None]
      BY <1>9 DEF Reply, RemoteError
    <3>3. at \in PushSteps
      BY DEF PushSteps
    <3>4. /\ [push EXCEPT !.at = at, !.round = n, !.by = None] \in Pushes
          /\ [push EXCEPT !.at = at, !.by = None] \in Pushes
      BY <3>1, <3>3, PushType
    <3> QED
      BY <3>1, <3>2, <3>4
  <2>2. push'.at \notin Ended => push'.want \in Versions
    <3>1. CASE push' = push
      BY <3>1
    <3>2. CASE push' # push
      <4>1. Awaited(r)
        BY <1>9, <3>2 DEF Reply, RemoteError
      <4>2. push.want \in Versions
        BY <4>1 DEF Awaited
      <4>3. push'.want = push.want
        BY <1>9, <4>1 DEF Reply, RemoteError, TypeOK
      <4> QED
        BY <4>2, <4>3
    <3> QED
      BY <3>1, <3>2
  <2>3. part' = part /\ UNCHANGED <<local, disk, left>> /\ ses' = [ses EXCEPT ![r] = NoSession]
    BY <1>9 DEF Reply, RemoteError
  <2>4. SessionsCoherent'
    BY <1>8, <1>b, <2>2, <2>3, OneSteps DEF Sound
  <2> QED
    BY <1>8, <2>1, <2>3, <2>4 DEF TypeOK
<1>10. CASE Resume
  <2>1. push' \in Pushes
    <3>1. push \in Pushes
      BY DEF TypeOK
    <3>2. PICK n \in {push.round, push.round + 1} :
             push' = [push EXCEPT !.at = "plan", !.by = None, !.round = n]
      BY <1>10 DEF Resume
    <3> QED
      BY <3>1, <3>2, PushType DEF PushSteps
  <2>2. push'.want \in Versions
    <3>1. push.at \notin Ended
      BY <1>10 DEF Resume
    <3>2. push'.want = push.want
      BY <1>10 DEF Resume, TypeOK
    <3> QED
      BY <3>1, <3>2
  <2> QED
    BY <1>10, <2>1, <2>2 DEF Resume, TypeOK
<1>11. ASSUME NEW r \in Sessions, NEW n \in 0..Len(ses[r].pipe), Cut(r, n)
       PROVE  /\ ses' \in [Sessions -> Processes]
              /\ \A q \in Sessions :
                    /\ ses'[q].at = ses[q].at /\ ses'[q].sha = ses[q].sha
                    /\ ses[q].at \notin Receiving => ses'[q] = ses[q]
  <2>1. SubSeq(ses[r].pipe, 1, n) \in Seq(Blocks)
    BY <1>d, ProcessParts, PrefixType
  <2> DEFINE x == [ses[r] EXCEPT !.pipe = SubSeq(ses[r].pipe, 1, n), !.trailer = None]
  <2>2. x \in Processes /\ x.at = ses[r].at /\ x.sha = ses[r].sha
    BY <1>d, <2>1 DEF Processes
  <2>3. ses' = IF ses[r].at \in Receiving THEN [ses EXCEPT ![r] = x] ELSE ses
    BY <1>11 DEF Cut, TypeOK
  <2> HIDE DEF x
  <2> QED
    BY <2>2, <2>3, ReplaceSession DEF TypeOK
<1>12. ASSUME NEW r \in Sessions, Drop(r) PROVE TypeInv'
  <2>1. left' \in [DOMAIN Budget -> Nat]
    BY <1>12, SpendType DEF Drop
  <2>2. /\ push' \in Pushes
        /\ push'.at \notin Ended => push'.want \in Versions
    BY <1>12 DEF Drop, Notices, Awaited, TypeOK
  <2> QED
    BY <1>11, <1>12, <2>1, <2>2 DEF Drop, TypeOK
<1>13. CASE Interrupt
  <2>1. left' \in [DOMAIN Budget -> Nat]
    BY <1>13, SpendType DEF Interrupt
  <2>2. push' \in Pushes /\ push'.at \in Ended
    BY <1>13 DEF Interrupt, TypeOK
  <2> QED
    BY <1>11, <1>13, <2>1, <2>2 DEF Interrupt, TypeOK
<1>14. ASSUME NEW r \in Sessions, Crash(r) PROVE TypeInv'
  <2>1. left' \in [DOMAIN Budget -> Nat]
    BY <1>14, SpendType DEF Crash
  <2>2. /\ push' \in Pushes
        /\ push'.at \notin Ended => push'.want \in Versions
    BY <1>14 DEF Crash, Notices, Awaited, TypeOK
  <2> QED
    BY <1>8, <1>14, <1>b, <2>1, <2>2 DEF Crash, TypeOK
<1>15. ASSUME NEW r \in Sessions, ResumePart(r) PROVE TypeInv'
  <2>1. CASE PartialOffset(ses[r].sha) >= ses[r].off
    <3>1. part \in Bytes /\ ses[r].off \in 0..Len(part)
      BY <1>15, <1>d, <2>1, ProcessParts DEF ResumePart, PartialOffset, Bytes, TypeOK
    <3>2. SubSeq(part, 1, ses[r].off) \in Bytes
      BY <3>1, PrefixType DEF Bytes
    <3> DEFINE x == [ses[r] EXCEPT !.at = "write", !.got = SubSeq(part, 1, ses[r].off)]
    <3>3. x \in Processes /\ x.at = "write" /\ x.sha = ses[r].sha
      BY <1>d, <3>2 DEF Processes
    <3>4. ses' = [ses EXCEPT ![r] = x] /\ part' = SubSeq(part, 1, ses[r].off)
      BY <1>15, <2>1 DEF ResumePart, TypeOK
    <3>5. part' # None /\ part' \in Bytes
      BY <3>2, <3>4, NamesAssumption DEF Bytes
    <3> HIDE DEF x
    <3>6. /\ ses' \in [Sessions -> Processes] /\ ses'[r] = x
          /\ \A q \in Sessions \ {r} : ses'[q] = ses[q]
      BY <3>3, <3>4, ReplaceSession
    <3> QED
      BY <1>15, <3>3, <3>5, <3>6 DEF ResumePart, TypeOK
  <2>2. CASE ~(PartialOffset(ses[r].sha) >= ses[r].off)
    <3>1. Go(r, "failed") /\ ses[r].at = "open" /\ UNCHANGED <<local, push, disk, left>>
      BY <1>15, <2>2 DEF ResumePart
    <3>2. /\ ses' \in [Sessions -> Processes] /\ ses'[r].at = "failed"
          /\ ses'[r].sha = ses[r].sha /\ \A q \in Sessions \ {r} : ses'[q] = ses[q]
      BY <3>1, GoOn
    <3>3. SessionsCoherent'
      BY <3>1, <3>2, OneSteps DEF Sound
    <3> QED
      BY <3>1, <3>2, <3>3 DEF TypeOK
  <2> QED
    BY <2>1, <2>2
<1>16. ASSUME NEW r \in Sessions, WriteSide(r) PROVE TypeInv'
  <2>1. Go(r, "sidecar") /\ ses[r].at = "open" /\ side' = ses[r].sha
    BY <1>16 DEF WriteSide
  <2>2. /\ ses' \in [Sessions -> Processes] /\ ses'[r].at = "sidecar"
        /\ ses'[r].sha = ses[r].sha /\ \A q \in Sessions \ {r} : ses'[q] = ses[q]
    BY <2>1, GoOn
  <2>3. ses[r].sha \in Versions
    BY <2>1
  <2>4. SessionsCoherent'
    BY <1>16, <2>2, <2>3, OneSteps DEF Sound, WriteSide
  <2> QED
    BY <1>16, <2>1, <2>2, <2>3, <2>4 DEF TypeOK, WriteSide
<1>17. ASSUME NEW r \in Sessions, TruncatePart(r) PROVE TypeInv'
  <2>1. part' \in Bytes /\ part' # None
    BY <1>17, <1>a, NamesAssumption DEF TruncatePart, Bytes
  <2>2. Go(r, "write") /\ ses[r].at = "sidecar"
    BY <1>17 DEF TruncatePart
  <2>3. /\ ses' \in [Sessions -> Processes] /\ ses'[r].at = "write"
        /\ ses'[r].sha = ses[r].sha /\ \A q \in Sessions \ {r} : ses'[q] = ses[q]
    BY <2>2, GoOn
  <2>4. SessionsCoherent'
    BY <1>17, <2>1, <2>2, <2>3, OneSteps DEF Sound, TruncatePart
  <2> QED
    BY <1>17, <2>1, <2>3, <2>4 DEF TypeOK, TruncatePart
<1>18. ASSUME NEW r \in Sessions, Receive(r) PROVE TypeInv'
  <2>1. part \in Bytes /\ ses[r].got \in Bytes /\ ses[r].pipe \in Seq(Blocks) /\ ses[r].pipe # <<>>
    BY <1>18, <1>d, ProcessParts DEF Receive, TypeOK
  <2>2. /\ Head(ses[r].pipe) \in Blocks /\ Tail(ses[r].pipe) \in Seq(Blocks)
        /\ Append(ses[r].got, Head(ses[r].pipe)) \in Bytes
        /\ Append(ses[r].got, Head(ses[r].pipe)) \o Tail(ses[r].pipe) = ses[r].got \o ses[r].pipe
    BY <2>1, MoveOne
  <2>3. Len(ses[r].got) + 1 \in Nat \ {0}
    BY <2>1 DEF Bytes
  <2>4. part' \in Bytes /\ part' # None
    <3>1. part' = Put(part, Len(ses[r].got) + 1, Head(ses[r].pipe))
      BY <1>18 DEF Receive
    <3>2. part' \in Bytes
      BY <2>1, <2>2, <2>3, <3>1, PutType
    <3> QED BY <3>2, NamesAssumption DEF Bytes
  <2> DEFINE x == [ses[r] EXCEPT !.pipe = Tail(ses[r].pipe),
                                 !.got = Append(ses[r].got, Head(ses[r].pipe))]
  <2>5. /\ x \in Processes /\ x.at = ses[r].at /\ x.sha = ses[r].sha
        /\ x.got \o x.pipe = ses[r].got \o ses[r].pipe
    BY <1>d, <2>2 DEF Processes
  <2>6. ses' = [ses EXCEPT ![r] = x]
    BY <1>18 DEF Receive, TypeOK
  <2> HIDE DEF x
  <2>7. /\ ses' \in [Sessions -> Processes] /\ ses'[r] = x
        /\ \A q \in Sessions \ {r} : ses'[q] = ses[q]
    BY <2>5, <2>6, ReplaceSession
  <2> QED
    BY <1>18, <2>4, <2>5, <2>7 DEF Receive, TypeOK
<1>19. ASSUME NEW r \in Sessions, CutOff(r) PROVE TypeInv'
  BY <1>8, <1>19, <1>b DEF CutOff, TypeOK
<1>20. ASSUME NEW r \in Sessions, Check(r) PROVE TypeInv'
  <2>1. PICK at \in {"land", "failed"} : /\ Go(r, at)
                                         /\ at = "land" => ses[r].got = ses[r].sha
    BY <1>20 DEF Check, Verified
  <2>2. part' = None => part = None \/ ~InUse(r)
    BY <1>20 DEF Check
  <2>3. part' \in {None} \cup Bytes /\ side' \in {None} \cup Versions
    BY <1>20 DEF Check, TypeOK
  <2>4. /\ ses' \in [Sessions -> Processes] /\ ses'[r].at = at
        /\ ses'[r].sha = ses[r].sha /\ ses'[r].got = ses[r].got
        /\ \A q \in Sessions \ {r} : ses'[q] = ses[q]
    BY <2>1, GoOn
  <2>5. ses[r].at = "write" /\ UNCHANGED <<local, push, dest, idx, left>>
    BY <1>20 DEF Check
  <2>6. Sound(r)'
    BY <2>1, <2>4, <2>5 DEF Sound
  <2>7. SessionsCoherent'
    BY <2>2, <2>4, <2>5, <2>6, OneSteps
  <2> QED
    BY <2>3, <2>4, <2>5, <2>7 DEF TypeOK
<1>21. ASSUME NEW r \in Sessions, Copied(r) PROVE TypeInv'
  <2>1. ses[r].got \o <<>> = ses[r].got
    BY <1>d, ProcessParts, ConcatEmptySeq DEF Bytes
  <2>2. Go(r, "land") /\ ses[r].at = "copy" /\ ses[r].pipe = <<>> /\ UNCHANGED <<local, push, disk, left>>
    BY <1>21 DEF Copied
  <2>3. /\ ses' \in [Sessions -> Processes] /\ ses'[r].at = "land"
        /\ ses'[r].sha = ses[r].sha /\ ses'[r].got = ses[r].got
        /\ \A q \in Sessions \ {r} : ses'[q] = ses[q]
    BY <2>2, GoOn
  <2>4. ses[r].got = ses[r].sha /\ ses[r].sha \in Versions
    BY <2>1, <2>2
  <2>5. Sound(r)'
    BY <2>3, <2>4 DEF Sound
  <2>6. SessionsCoherent'
    BY <2>2, <2>3, <2>5, OneSteps
  <2> QED
    BY <2>2, <2>3, <2>6 DEF TypeOK
<1>22. ASSUME NEW r \in Sessions, Land(r) PROVE TypeInv'
  <2>1. PICK at \in {"raised", "failed", "placed"} : Go(r, at)
    BY <1>22 DEF Land, NotReplaced
  <2>2. part' = None => part = None \/ ~InUse(r)
    BY <1>22 DEF Land
  <2>3. ses[r].at = "land" /\ ses[r].sha \in Versions /\ ses[r].got = ses[r].sha
    BY <1>22 DEF Land
  <2>4. part' \in {None} \cup Bytes
    BY <1>22 DEF Land, TypeOK
  <2>5. dest' \in {None} \cup Files
    BY <1>22, <1>c, <2>3 DEF Land, Files, TypeOK
  <2>6. /\ ses' \in [Sessions -> Processes] /\ ses'[r].at = at
        /\ ses'[r].sha = ses[r].sha /\ ses'[r].got = ses[r].got
        /\ \A q \in Sessions \ {r} : ses'[q] = ses[q]
    BY <2>1, GoOn
  <2>7. UNCHANGED <<local, push, side, idx, left>>
    BY <1>22 DEF Land
  <2>8. Sound(r)'
    BY <2>3, <2>6 DEF Sound
  <2>9. SessionsCoherent'
    BY <2>2, <2>6, <2>7, <2>8, OneSteps
  <2> QED
    BY <2>4, <2>5, <2>6, <2>7, <2>9 DEF TypeOK
<1>23. ASSUME NEW r \in Sessions, LandBusy(r) PROVE TypeInv'
  <2>1. left' \in [DOMAIN Budget -> Nat]
    BY <1>23, SpendType DEF LandBusy
  <2>2. PICK at \in {"raised", "failed"} : Go(r, at)
    BY <1>23 DEF LandBusy, NotReplaced
  <2>3. ses[r].at = "land" /\ UNCHANGED <<local, push, disk>>
    BY <1>23 DEF LandBusy
  <2>4. /\ ses' \in [Sessions -> Processes] /\ ses'[r].at = at
        /\ ses'[r].sha = ses[r].sha /\ \A q \in Sessions \ {r} : ses'[q] = ses[q]
    BY <2>2, GoOn
  <2>5. SessionsCoherent'
    BY <2>2, <2>3, <2>4, OneSteps DEF Sound
  <2> QED
    BY <2>1, <2>3, <2>4, <2>5 DEF TypeOK
<1>24. ASSUME NEW r \in Sessions, Settle(r) PROVE TypeInv'
  <2>1. CASE dest = None
    <3>1. /\ Go(r, "raised") /\ ses[r].at = "placed" /\ side' = None
          /\ UNCHANGED <<local, push, part, dest, idx, left>>
      BY <1>24, <2>1 DEF Settle
    <3>2. /\ ses' \in [Sessions -> Processes] /\ ses'[r].at = "raised"
          /\ ses'[r].sha = ses[r].sha /\ \A q \in Sessions \ {r} : ses'[q] = ses[q]
      BY <3>1, GoOn
    <3>3. SessionsCoherent'
      BY <3>1, <3>2, OneSteps DEF Sound
    <3> QED
      BY <3>1, <3>2, <3>3 DEF TypeOK
  <2>2. CASE dest # None
    <3> DEFINE x == [ses[r] EXCEPT !.at = "update", !.entry = Entry(dest, ses[r].got, TRUE)]
    <3>1. Entry(dest, ses[r].got, TRUE) \in Entries
      BY <1>d, <2>2, ProcessParts, EntryType DEF TypeOK
    <3>2. x \in Processes /\ x.at = "update" /\ x.sha = ses[r].sha
      BY <1>d, <3>1 DEF Processes
    <3>3. ses' = [ses EXCEPT ![r] = x]
      BY <1>24, <2>2 DEF Settle, TypeOK
    <3> HIDE DEF x
    <3>4. /\ ses' \in [Sessions -> Processes] /\ ses'[r] = x
          /\ \A q \in Sessions \ {r} : ses'[q] = ses[q]
      BY <3>2, <3>3, ReplaceSession
    <3> QED
      BY <1>24, <3>2, <3>4 DEF Settle, TypeOK
  <2> QED
    BY <2>1, <2>2
<1>25. ASSUME NEW r \in Sessions, UpdateIndex(r) PROVE TypeInv'
  <2>1. /\ Go(r, "ok") /\ ses[r].at = "update" /\ idx' = ses[r].entry
        /\ UNCHANGED <<local, push, part, side, dest, left>>
    BY <1>25 DEF UpdateIndex
  <2>2. /\ ses' \in [Sessions -> Processes] /\ ses'[r].at = "ok"
        /\ ses'[r].sha = ses[r].sha /\ \A q \in Sessions \ {r} : ses'[q] = ses[q]
    BY <2>1, GoOn
  <2>3. idx' \in {None} \cup Entries
    BY <1>d, <2>1, ProcessParts
  <2>4. SessionsCoherent'
    BY <2>1, <2>2, OneSteps DEF Sound
  <2> QED
    BY <2>1, <2>2, <2>3, <2>4 DEF TypeOK
<1>26. CASE Edit
  BY <1>26, SpendType DEF Edit, TypeOK
<1>27. CASE JobWrites
  BY <1>27, <1>a, SpendType DEF JobWrites, Files, Contents, TypeOK
<1>28. CASE Manifest
  <2>1. Entry(dest, dest.data, idx # None /\ idx.pushed) \in Entries
    <3>1. (idx # None /\ idx.pushed) \in BOOLEAN
      OBVIOUS
    <3>2. dest \in Files /\ dest.data \in Bytes
      BY <1>28 DEF Manifest, Files, TypeOK
    <3> QED
      BY <3>1, <3>2, EntryType
  <2> QED
    BY <1>28, <2>1 DEF Manifest, TypeOK
<1>29. CASE Prune
  BY <1>29 DEF Prune, TypeOK
<1>30. CASE UNCHANGED vars
  BY <1>30 DEF vars, TypeOK
<1> QED
  BY <1>1, <1>2, <1>3, <1>4, <1>6, <1>7, <1>9, <1>10, <1>12, <1>13, <1>14, <1>15, <1>16,
     <1>17, <1>18, <1>19, <1>20, <1>21, <1>22, <1>23, <1>24, <1>25, <1>26, <1>27, <1>28,
     <1>29, <1>30
  DEF Next, ClientStep, HostStep

\* Every variable keeps its type, whatever fails and however many receivers linger.
THEOREM TypeCorrect == Spec => []TypeOK
<1>1. TypeInv => TypeOK
  BY DEF TypeInv
<1> QED
  BY <1>1, InitTypeInv, NextTypeInv, PTL DEF Spec

(***************************************************************************)
(* One receiver at a time: what each kind of step does to the sessions.    *)
(***************************************************************************)
\* A session ends, or keeps all but what was still on the way to it.
Fades(q) ==
    \/ ses'[q] = NoSession
    \/ /\ ses'[q].at = ses[q].at /\ ses'[q].sha = ses[q].sha /\ ses'[q].got = ses[q].got
       /\ ses'[q].entry = ses[q].entry
       /\ ses'[q].trailer \in {None, ses[q].trailer}

\* A step of a process on the host is its own.
LEMMA HostStepIsOwn ==
    ASSUME TypeOK, NEW r \in Sessions, HostStep(r) \/ LandBusy(r)
    PROVE  Running(r) /\ push' = push /\ \A q \in Sessions \ {r} : ses'[q] = ses[q]
<1>1. Running(r)
  BY DEF HostStep, LandBusy, ResumePart, WriteSide, TruncatePart, Receive, CutOff, Check, Copied,
         Land, Settle, UpdateIndex, Running
<1>2. push' = push
  BY DEF HostStep, LandBusy, ResumePart, WriteSide, TruncatePart, Receive, CutOff, Check, Copied,
         Land, Settle, UpdateIndex
<1>3. \E x : ses' = [ses EXCEPT ![r] = x]
  BY DEF HostStep, LandBusy, ResumePart, WriteSide, TruncatePart, Receive, CutOff, Check, Copied,
         Land, Settle, UpdateIndex, Go, NotReplaced
<1> QED
  BY <1>1, <1>2, <1>3 DEF TypeOK

\* Losing the rest of a stream.
LEMMA CutFades ==
    ASSUME TypeOK, NEW r \in Sessions, NEW n \in Nat, Cut(r, n)
    PROVE  \A q \in Sessions : Fades(q)
<1> DEFINE x == [ses[r] EXCEPT !.pipe = SubSeq(ses[r].pipe, 1, n), !.trailer = None]
<1>1. /\ x.at = ses[r].at /\ x.sha = ses[r].sha /\ x.got = ses[r].got /\ x.entry = ses[r].entry
      /\ x.trailer = None
  BY DEF TypeOK, Processes
<1>2. ses' = IF ses[r].at \in Receiving THEN [ses EXCEPT ![r] = x] ELSE ses
  BY DEF Cut, TypeOK
<1> HIDE DEF x
<1> QED
  BY <1>1, <1>2 DEF Fades, TypeOK

\* The other steps start no process and leave the partial file alone.
LEMMA OthersFade ==
    ASSUME TypeOK,
           \/ StartPush \/ PlanHave \/ PlanNeed \/ Resume \/ Interrupt
           \/ Edit \/ JobWrites \/ Manifest \/ Prune \/ UNCHANGED vars
           \/ \E r \in Sessions : Reply(r) \/ RemoteError(r) \/ Drop(r) \/ Crash(r)
    PROVE  part' = part /\ \A q \in Sessions : Fades(q)
<1>1. CASE \/ StartPush \/ PlanHave \/ PlanNeed \/ Resume
           \/ Edit \/ JobWrites \/ Manifest \/ Prune \/ UNCHANGED vars
  <2>1. part' = part /\ ses' = ses
    BY <1>1 DEF StartPush, PlanHave, PlanNeed, Resume, Edit, JobWrites, Manifest, Prune, vars, disk
  <2> QED
    BY <2>1 DEF Fades
<1>2. CASE Interrupt
  <2>1. part' = part
    BY <1>2 DEF Interrupt, disk
  <2>2. CASE push.by \in Sessions
    <3>1. PICK n \in 0..Len(ses[push.by].pipe) : Cut(push.by, n)
      BY <1>2, <2>2 DEF Interrupt
    <3>2. n \in Nat
      OBVIOUS
    <3> QED
      BY <2>1, <2>2, <3>1, <3>2, CutFades
  <2>3. CASE push.by \notin Sessions
    BY <1>2, <2>1, <2>3 DEF Interrupt, Fades
  <2> QED
    BY <2>2, <2>3
<1>3. ASSUME NEW r \in Sessions, Drop(r)
      PROVE  part' = part /\ \A q \in Sessions : Fades(q)
  <2>1. PICK n \in 0..Len(ses[r].pipe) : Cut(r, n)
    BY <1>3 DEF Drop
  <2>2. n \in Nat
    OBVIOUS
  <2> QED
    BY <1>3, <2>1, <2>2, CutFades DEF Drop, disk
<1>4. ASSUME NEW r \in Sessions, Reply(r) \/ RemoteError(r) \/ Crash(r)
      PROVE  part' = part /\ \A q \in Sessions : Fades(q)
  <2>1. part' = part /\ ses' = [ses EXCEPT ![r] = NoSession]
    BY <1>4 DEF Reply, RemoteError, Crash, disk
  <2> QED
    BY <2>1 DEF Fades, TypeOK
<1> QED
  BY <1>1, <1>2, <1>3, <1>4

\* A new process, and what it starts with.
LEMMA Starts ==
    ASSUME TypeOK, NEW r \in Sessions,
           \/ PlanCopy(r) \/ StreamFile(r)
           \/ \E v \in Versions, k \in 1..Len(local) : StreamEdited(r, v, k)
    PROVE  /\ push.at \in {"plan", "stream"}
           /\ push'.at \in {"sent", "copying"} /\ push'.by = r /\ push'.want = push.want
           /\ \A q \in Sessions \ {r} : ses'[q] = ses[q]
           /\ ses'[r].got = <<>> /\ ses'[r].sha = push.want
           /\ dest' = dest /\ idx' = idx
           /\ \/ ses'[r].at = "open" /\ part' = part /\ push'.at = "sent"
              \/ /\ ses'[r].at = "copy" /\ part' = <<>> /\ push'.at = "copying"
                 /\ ses'[r].trailer = None
<1>1. CASE PlanCopy(r)
  <2> DEFINE x == [NoSession EXCEPT !.at = "copy", !.sha = push.want, !.pipe = push.want]
  <2>1. x.at = "copy" /\ x.sha = push.want /\ x.got = <<>> /\ x.trailer = None
    BY DEF NoSession
  <2>2. /\ ses' = [ses EXCEPT ![r] = x] /\ part' = <<>> /\ dest' = dest /\ idx' = idx
        /\ push' = [push EXCEPT !.at = "copying", !.by = r] /\ push.at = "plan"
    BY <1>1 DEF PlanCopy
  <2>3. push'.at = "copying" /\ push'.by = r /\ push'.want = push.want
    BY <2>2 DEF TypeOK, Pushes
  <2>4. ses'[r] = x /\ \A q \in Sessions \ {r} : ses'[q] = ses[q]
    BY <2>2 DEF TypeOK
  <2> HIDE DEF x
  <2> QED
    BY <2>1, <2>2, <2>3, <2>4
<1>2. ASSUME NEW bytes, Stream(r, bytes)
      PROVE  /\ push.at \in {"plan", "stream"}
             /\ push'.at \in {"sent", "copying"} /\ push'.by = r /\ push'.want = push.want
             /\ \A q \in Sessions \ {r} : ses'[q] = ses[q]
             /\ ses'[r].got = <<>> /\ ses'[r].sha = push.want
             /\ dest' = dest /\ idx' = idx
             /\ ses'[r].at = "open" /\ part' = part /\ push'.at = "sent"
  <2> DEFINE off == IF push.off > Len(local) THEN 0 ELSE push.off
             x == [NoSession EXCEPT !.at = "open", !.sha = push.want, !.off = off,
                                    !.pipe = SubSeq(bytes, off + 1, Len(bytes)),
                                    !.size = Len(local), !.trailer = bytes]
  <2>1. x.at = "open" /\ x.sha = push.want /\ x.got = <<>>
    BY DEF NoSession
  <2>2. /\ ses' = [ses EXCEPT ![r] = x] /\ part' = part /\ dest' = dest /\ idx' = idx
        /\ push' = [push EXCEPT !.at = "sent", !.by = r] /\ push.at = "stream"
    BY <1>2 DEF Stream, disk
  <2>3. push'.at = "sent" /\ push'.by = r /\ push'.want = push.want
    BY <2>2 DEF TypeOK, Pushes
  <2>4. ses'[r] = x /\ \A q \in Sessions \ {r} : ses'[q] = ses[q]
    BY <2>2 DEF TypeOK
  <2> HIDE DEF x, off
  <2> QED
    BY <2>1, <2>2, <2>3, <2>4
<1>3. CASE StreamFile(r)
  BY <1>2, <1>3 DEF StreamFile
<1>4. ASSUME NEW v \in Versions, NEW k \in 1..Len(local), StreamEdited(r, v, k)
      PROVE  Stream(r, SubSeq(local, 1, k) \o SubSeq(v, k + 1, Shorter(Len(v), Len(local))))
  BY <1>4 DEF StreamEdited
<1> QED
  BY <1>1, <1>2, <1>3, <1>4

\* The next-state relation by these kinds of steps.
LEMMA StepKinds ==
    ASSUME [Next]_vars
    PROVE  \/ \E r \in Sessions : HostStep(r) \/ LandBusy(r)
           \/ \E r \in Sessions : \/ PlanCopy(r) \/ StreamFile(r)
                                  \/ \E v \in Versions, k \in 1..Len(local) : StreamEdited(r, v, k)
           \/ \/ StartPush \/ PlanHave \/ PlanNeed \/ Resume \/ Interrupt
              \/ Edit \/ JobWrites \/ Manifest \/ Prune \/ UNCHANGED vars
              \/ \E r \in Sessions : Reply(r) \/ RemoteError(r) \/ Drop(r) \/ Crash(r)
BY DEF Next, ClientStep

\* A process runs on unless it ended.
LEMMA FadesRunning ==
    ASSUME NEW q \in Sessions, Fades(q), Running(q)'
    PROVE  /\ Running(q) /\ ses'[q].at = ses[q].at /\ ses'[q].sha = ses[q].sha
           /\ ses'[q].got = ses[q].got /\ ses'[q].entry = ses[q].entry
           /\ ses'[q].trailer \in {None, ses[q].trailer}
BY DEF Fades, Running, NoSession

\* What the client does between its transfers.
LEMMA PushMoves ==
    ASSUME TypeOK,
           \/ StartPush \/ PlanHave \/ PlanNeed \/ Resume \/ Interrupt
           \/ Edit \/ JobWrites \/ Manifest \/ Prune \/ UNCHANGED vars
           \/ \E r \in Sessions : Reply(r) \/ RemoteError(r) \/ Drop(r) \/ Crash(r)
    PROVE  \/ push' = push
           \/ push'.at \notin {"plan", "stream", "sent", "copying"}
           \/ /\ push'.at \in {"plan", "stream"}
              /\ \/ push.at = "plan" /\ PlanNeed
                 \/ (StartPush \/ Resume) /\ Undisturbed
                 \/ \E r \in Sessions : Awaited(r) /\ push.at = "sent" /\ ses' = [ses EXCEPT ![r] = NoSession]
<1>1. CASE StartPush
  BY <1>1 DEF StartPush
<1>2. CASE PlanHave
  BY <1>2 DEF PlanHave, TypeOK, Pushes
<1>3. CASE PlanNeed
  <2>1. push'.at \in {"died", "stream"} /\ push.at = "plan"
    BY <1>3 DEF PlanNeed, TypeOK, Pushes
  <2> QED
    BY <1>3, <2>1
<1>4. CASE Resume
  <2>1. push'.at = "plan"
    BY <1>4 DEF Resume, TypeOK, Pushes
  <2> QED
    BY <1>4, <2>1 DEF Resume
<1>5. CASE Interrupt
  BY <1>5 DEF Interrupt, TypeOK, Pushes
<1>6. CASE Edit \/ JobWrites \/ Manifest \/ Prune \/ UNCHANGED vars
  BY <1>6 DEF Edit, JobWrites, Manifest, Prune, vars
<1>7. ASSUME NEW r \in Sessions, Reply(r), push' # push
      PROVE  \/ push'.at = "done"
             \/ /\ push'.at = "plan"
                /\ Awaited(r) /\ push.at = "sent" /\ ses' = [ses EXCEPT ![r] = NoSession]
  BY <1>7 DEF Reply, TypeOK, Pushes
<1>8. ASSUME NEW r \in Sessions, RemoteError(r), push' # push PROVE push'.at = "raised"
  BY <1>8 DEF RemoteError, TypeOK, Pushes
<1>9. ASSUME NEW r \in Sessions, Drop(r) \/ Crash(r), push' # push
      PROVE  push'.at \in {"recall", "lost"}
  BY <1>9 DEF Drop, Crash, Notices, TypeOK, Pushes
<1> QED
  BY <1>1, <1>2, <1>3, <1>4, <1>5, <1>6, <1>7, <1>8, <1>9

\* Without lingering receivers one process works at a time.
LEMMA NextOneAtATime ==
    ASSUME "linger" \notin Faults, TypeOK, OneAtATime, [Next]_vars
    PROVE  OneAtATime'
<1>1. ASSUME NEW r \in Sessions, HostStep(r) \/ LandBusy(r) PROVE OneAtATime'
  <2>1. Running(r) /\ push' = push /\ \A q \in Sessions \ {r} : ses'[q] = ses[q]
    BY <1>1, HostStepIsOwn
  <2>2. \A q \in Sessions : Running(q)' => Running(q)
    BY <2>1 DEF Running
  <2> QED
    BY <2>1, <2>2 DEF OneAtATime
<1>2. ASSUME NEW r \in Sessions,
             \/ PlanCopy(r) \/ StreamFile(r)
             \/ \E v \in Versions, k \in 1..Len(local) : StreamEdited(r, v, k)
      PROVE  OneAtATime'
  <2>1. /\ push.at \in {"plan", "stream"} /\ push'.at \in {"sent", "copying"} /\ push'.by = r
        /\ \A q \in Sessions \ {r} : ses'[q] = ses[q]
    BY <1>2, Starts
  <2>2. \A q \in Sessions \ {r} : ~Running(q)'
    BY <2>1 DEF OneAtATime, Running
  <2> QED
    BY <2>1, <2>2 DEF OneAtATime
<1>3. CASE \/ StartPush \/ PlanHave \/ PlanNeed \/ Resume \/ Interrupt
           \/ Edit \/ JobWrites \/ Manifest \/ Prune \/ UNCHANGED vars
           \/ \E r \in Sessions : Reply(r) \/ RemoteError(r) \/ Drop(r) \/ Crash(r)
  <2>1. \A q \in Sessions : Running(q)' => Running(q)
    BY <1>3, OthersFade, FadesRunning
  <2>2. CASE push' = push \/ push'.at \notin {"plan", "stream", "sent", "copying"}
    BY <2>1, <2>2 DEF OneAtATime
  <2>3. CASE push'.at \in {"plan", "stream"} /\ \A q \in Sessions : ~Running(q)'
    BY <2>3 DEF OneAtATime
  <2>4. CASE push.at = "plan" /\ PlanNeed /\ push'.at \in {"plan", "stream"}
    BY <2>1, <2>3, <2>4 DEF OneAtATime
  <2>5. CASE Undisturbed /\ push'.at \in {"plan", "stream"}
    <3>1. \A q \in Sessions : ses[q] = NoSession
      BY <2>5 DEF Undisturbed
    <3>2. \A q \in Sessions : ~Running(q)
      BY <3>1 DEF Running, NoSession
    <3> QED
      BY <2>1, <2>3, <2>5, <3>2
  <2>6. ASSUME NEW r \in Sessions, Awaited(r), push.at = "sent",
               ses' = [ses EXCEPT ![r] = NoSession], push'.at \in {"plan", "stream"}
        PROVE  OneAtATime'
    <3>1. ~Running(r)'
      BY <2>6 DEF Running, NoSession, TypeOK
    <3>2. \A q \in Sessions \ {r} : ~Running(q)
      BY <2>6 DEF OneAtATime, Awaited
    <3> QED
      BY <2>1, <2>3, <2>6, <3>1, <3>2
  <2> QED
    BY <1>3, <2>2, <2>4, <2>5, <2>6, PushMoves
<1> QED
  BY <1>1, <1>2, <1>3, StepKinds

\* What the one running process leaves behind is all that matters.
LEMMA OneHashes ==
    ASSUME NEW r \in Sessions, \A q \in Sessions \ {r} : ~Running(q) /\ ses'[q] = ses[q],
           ses'[r].at \in {"open", "sidecar"} => ses'[r].got = <<>>,
           ses'[r].at \in {"write", "copy", "land"} => part' = ses'[r].got
    PROVE  HashedIsWritten'
BY DEF HashedIsWritten, Running

\* A process on the host writes what it hashes, and hashes what it finds.
LEMMA HostHashes ==
    ASSUME TypeInv, OneAtATime, HashedIsWritten, NEW r \in Sessions, HostStep(r) \/ LandBusy(r)
    PROVE  HashedIsWritten'
<1>a. /\ Running(r) /\ \A q \in Sessions \ {r} : ~Running(q) /\ ses'[q] = ses[q]
      /\ ses[r].at \in {"open", "sidecar"} => ses[r].got = <<>>
      /\ ses[r].at \in {"write", "copy", "land"} => part = ses[r].got
  BY HostStepIsOwn DEF OneAtATime, HashedIsWritten, TypeInv
<1>b. TypeOK /\ ses[r] \in Processes
  BY DEF TypeInv, TypeOK
<1>1. CASE ResumePart(r)
  <2>1. CASE PartialOffset(ses[r].sha) >= ses[r].off
    <3> DEFINE x == [ses[r] EXCEPT !.at = "write", !.got = SubSeq(part, 1, ses[r].off)]
    <3>1. x.at = "write" /\ x.got = SubSeq(part, 1, ses[r].off)
      BY <1>b DEF Processes
    <3>2. ses' = [ses EXCEPT ![r] = x] /\ part' = SubSeq(part, 1, ses[r].off)
      BY <1>1, <1>b, <2>1 DEF ResumePart, TypeOK
    <3> HIDE DEF x
    <3>3. ses'[r] = x
      BY <1>b, <3>2 DEF TypeOK
    <3> QED
      BY <1>a, <3>1, <3>2, <3>3, OneHashes
  <2>2. CASE ~(PartialOffset(ses[r].sha) >= ses[r].off)
    <3>1. Go(r, "failed")
      BY <1>1, <2>2 DEF ResumePart
    <3>2. ses'[r].at = "failed"
      BY <1>b, <3>1, GoOn DEF Steps, Receiving
    <3> QED
      BY <1>a, <3>2, OneHashes
  <2> QED
    BY <2>1, <2>2
<1>2. CASE WriteSide(r)
  <2>1. Go(r, "sidecar") /\ ses[r].at = "open"
    BY <1>2 DEF WriteSide
  <2>2. ses'[r].at = "sidecar" /\ ses'[r].got = ses[r].got
    BY <1>b, <2>1, GoOn DEF Steps, Receiving
  <2> QED
    BY <1>a, <2>1, <2>2, OneHashes
<1>3. CASE TruncatePart(r)
  <2>1. Go(r, "write") /\ ses[r].at = "sidecar" /\ part' = <<>>
    BY <1>3 DEF TruncatePart
  <2>2. ses'[r].at = "write" /\ ses'[r].got = ses[r].got
    BY <1>b, <2>1, GoOn DEF Steps, Receiving
  <2> QED
    BY <1>a, <2>1, <2>2, OneHashes
<1>4. CASE Receive(r)
  <2>1. /\ ses[r].pipe \in Seq(Blocks) /\ ses[r].pipe # <<>> /\ ses[r].got \in Bytes
        /\ part = ses[r].got /\ ses[r].at \in {"write", "copy"}
    BY <1>4, <1>a, <1>b, ProcessParts DEF Receive
  <2>2. Head(ses[r].pipe) \in Blocks
    BY <2>1, MoveOne
  <2> DEFINE x == [ses[r] EXCEPT !.pipe = Tail(ses[r].pipe),
                                 !.got = Append(ses[r].got, Head(ses[r].pipe))]
  <2>3. x.at = ses[r].at /\ x.got = Append(ses[r].got, Head(ses[r].pipe))
    BY <1>b DEF Processes
  <2>4. ses' = [ses EXCEPT ![r] = x] /\ part' = Put(part, Len(ses[r].got) + 1, Head(ses[r].pipe))
    BY <1>4, <1>b DEF Receive, TypeOK
  <2> HIDE DEF x
  <2>5. part' = x.got
    BY <2>1, <2>2, <2>3, <2>4, PutAppends
  <2>6. ses'[r] = x
    BY <1>b, <2>4 DEF TypeOK
  <2> QED
    BY <1>a, <2>1, <2>3, <2>5, <2>6, OneHashes
<1>5. CASE CutOff(r)
  <2>1. ses'[r] = NoSession
    BY <1>5, <1>b DEF CutOff, TypeOK
  <2> QED
    BY <1>a, <2>1, OneHashes DEF NoSession
<1>6. CASE Check(r)
  <2>1. ses[r].at = "write" /\ part = ses[r].got
    BY <1>6, <1>a DEF Check
  <2>2. (Go(r, "land") /\ part' = part) \/ Go(r, "failed")
    BY <1>6 DEF Check
  <2>3. CASE Go(r, "land") /\ part' = part
    <3>1. ses'[r].at = "land" /\ ses'[r].got = ses[r].got
      BY <1>b, <2>3, GoOn DEF Steps, Receiving
    <3> QED
      BY <1>a, <2>1, <2>3, <3>1, OneHashes
  <2>4. CASE Go(r, "failed")
    <3>1. ses'[r].at = "failed"
      BY <1>b, <2>4, GoOn DEF Steps, Receiving
    <3> QED
      BY <1>a, <3>1, OneHashes
  <2> QED
    BY <2>2, <2>3, <2>4
<1>7. CASE Copied(r)
  <2>1. Go(r, "land") /\ ses[r].at = "copy" /\ part' = part
    BY <1>7 DEF Copied, disk
  <2>2. ses'[r].at = "land" /\ ses'[r].got = ses[r].got
    BY <1>b, <2>1, GoOn DEF Steps, Receiving
  <2> QED
    BY <1>a, <2>1, <2>2, OneHashes
<1>8. CASE Land(r) \/ LandBusy(r) \/ (Settle(r) /\ dest = None) \/ UpdateIndex(r)
  <2>1. PICK at \in {"raised", "failed", "placed", "ok"} : Go(r, at)
    BY <1>8 DEF Land, LandBusy, Settle, UpdateIndex, NotReplaced
  <2>2. ses'[r].at = at
    BY <1>b, <2>1, GoOn DEF Steps, Receiving
  <2> QED
    BY <1>a, <2>2, OneHashes
<1>9. CASE Settle(r) /\ dest # None
  <2>1. ses'[r].at = "update"
    BY <1>9, <1>b DEF Settle, TypeOK, Processes
  <2> QED
    BY <1>a, <2>1, OneHashes
<1> QED
  BY <1>1, <1>2, <1>3, <1>4, <1>5, <1>6, <1>7, <1>8, <1>9 DEF HostStep

\* What was hashed stays what is on the disk.
LEMMA NextHashed ==
    ASSUME TypeInv, OneAtATime, HashedIsWritten, [Next]_vars
    PROVE  HashedIsWritten'
<1>1. ASSUME NEW r \in Sessions, HostStep(r) \/ LandBusy(r) PROVE HashedIsWritten'
  BY <1>1, HostHashes
<1>2. ASSUME NEW r \in Sessions,
             \/ PlanCopy(r) \/ StreamFile(r)
             \/ \E v \in Versions, k \in 1..Len(local) : StreamEdited(r, v, k)
      PROVE  HashedIsWritten'
  <2>1. /\ push.at \in {"plan", "stream"} /\ \A q \in Sessions \ {r} : ses'[q] = ses[q]
        /\ ses'[r].got = <<>>
        /\ \/ ses'[r].at = "open" /\ part' = part
           \/ ses'[r].at = "copy" /\ part' = <<>>
    BY <1>2, Starts DEF TypeInv
  <2>2. \A q \in Sessions : ~Running(q)
    BY <2>1 DEF OneAtATime
  <2> QED
    BY <2>1, <2>2, OneHashes
<1>3. CASE \/ StartPush \/ PlanHave \/ PlanNeed \/ Resume \/ Interrupt
           \/ Edit \/ JobWrites \/ Manifest \/ Prune \/ UNCHANGED vars
           \/ \E r \in Sessions : Reply(r) \/ RemoteError(r) \/ Drop(r) \/ Crash(r)
  <2>1. part' = part /\ \A q \in Sessions : Fades(q)
    BY <1>3, OthersFade DEF TypeInv
  <2>2. \A q \in Sessions : ses'[q].at # "none" =>
                               ses'[q].at = ses[q].at /\ ses'[q].got = ses[q].got
    BY <2>1, FadesRunning DEF Running
  <2> QED
    BY <2>1, <2>2 DEF HashedIsWritten
<1> QED
  BY <1>1, <1>2, <1>3, StepKinds

\* The invariant behind LandedIsWhole.
WholeInv == TypeInv /\ OneAtATime /\ HashedIsWritten /\ LandedIsWhole

\* Nothing runs and nothing is there.
LEMMA InitWholeInv == Init => WholeInv
<1> SUFFICES ASSUME Init PROVE WholeInv
  OBVIOUS
<1>1. TypeInv
  BY InitTypeInv
<1>2. \A r \in Sessions : ses[r].at = "none"
  BY DEF Init, NoSession
<1> QED
  BY <1>1, <1>2 DEF Init, WholeInv, OneAtATime, HashedIsWritten, LandedIsWhole, Running

\* What Land puts in place.
LEMMA LandPlaces ==
    ASSUME WholeInv, NEW r \in Sessions, Land(r)
    PROVE  /\ ses'[r].got = ses[r].got /\ ses'[r].sha = ses[r].sha /\ ses[r].got = ses[r].sha
           /\ ses[r].sha \in Versions
           /\ \/ ses'[r].at \in {"raised", "failed"} /\ dest' = dest
                 /\ (ses[r].trailer = None => ses'[r].at = "raised")
              \/ /\ ses'[r].at = "placed"
                 /\ dest' = [data |-> ses[r].sha, mtime |-> ses[r].sha]
<1>1. /\ ses[r].at = "land" /\ part = ses[r].got /\ ses[r].got = ses[r].sha
      /\ ses[r].sha \in Versions
  BY DEF Land, WholeInv, TypeInv, HashedIsWritten, SessionsCoherent, Running
<1>2. PICK at \in {"raised", "failed", "placed"} : Go(r, at)
  BY DEF Land, NotReplaced
<1>3. ses'[r].at = at /\ ses'[r].got = ses[r].got /\ ses'[r].sha = ses[r].sha
  BY <1>2, GoOn DEF WholeInv, TypeInv, Steps, Receiving
<1>4. \/ NotReplaced(r) /\ dest' = dest
      \/ Go(r, "placed") /\ dest' = [data |-> part, mtime |-> ses[r].sha]
  BY DEF Land
<1>5. ASSUME NEW a \in {"raised", "failed", "placed"}, Go(r, a) PROVE ses'[r].at = a
  BY <1>5, GoOn DEF WholeInv, TypeInv, Steps, Receiving
<1>6. NotReplaced(r) => /\ ses'[r].at \in {"raised", "failed"}
                        /\ ses[r].trailer = None => ses'[r].at = "raised"
  BY <1>5 DEF NotReplaced
<1> QED
  BY <1>1, <1>3, <1>4, <1>5, <1>6

\* Who else touches the destination.
LEMMA DestChanges ==
    ASSUME [Next]_vars
    PROVE  \/ dest' = dest \/ JobWrites \/ Prune \/ \E r \in Sessions : Land(r)
BY DEF Next, ClientStep, HostStep, ResumePart, WriteSide, TruncatePart, Receive, CutOff, Check, Copied,
       Settle, UpdateIndex, StartPush, PlanHave, PlanNeed, Resume, Interrupt, Edit, Manifest,
       Reply, RemoteError, Drop, Crash, LandBusy, PlanCopy, StreamFile, StreamEdited, Stream, vars, disk

\* Only a verified file is renamed, and it is still what was hashed.
LEMMA NextWholeInv ==
    ASSUME "linger" \notin Faults, WholeInv, [Next]_vars
    PROVE  WholeInv'
<1>1. TypeInv' /\ OneAtATime' /\ HashedIsWritten'
  BY NextTypeInv, NextOneAtATime, NextHashed DEF WholeInv, TypeInv
<1>2. LandedIsWhole'
  <2>1. CASE dest' = dest
    BY <2>1 DEF WholeInv, LandedIsWhole
  <2>2. CASE JobWrites
    BY <2>2 DEF JobWrites, LandedIsWhole, Contents
  <2>3. CASE Prune
    BY <2>3 DEF Prune, LandedIsWhole
  <2>4. ASSUME NEW r \in Sessions, Land(r) PROVE LandedIsWhole'
    <3>1. dest' = dest \/ dest'.data \in Versions
      BY <2>4, LandPlaces
    <3> QED
      BY <3>1 DEF WholeInv, LandedIsWhole, Contents
  <2> QED
    BY <2>1, <2>2, <2>3, <2>4, DestChanges
<1> QED
  BY <1>1, <1>2 DEF WholeInv

\* While no receiver outlives its connection, the destination is always a whole version
\* that was promised or what the job wrote.
THEOREM WholeFiles == ASSUME "linger" \notin Faults PROVE Spec => []LandedIsWhole
<1>1. WholeInv /\ [Next]_vars => WholeInv'
  BY NextWholeInv
<1>2. WholeInv => LandedIsWhole
  BY DEF WholeInv
<1> QED
  BY <1>1, <1>2, InitWholeInv, PTL DEF Spec

(***************************************************************************)
(* The index, and what the end of a push says.                             *)
(***************************************************************************)
\* How a process on the host goes on.
LEMMA HostGoes ==
    ASSUME TypeOK, NEW r \in Sessions, HostStep(r) \/ LandBusy(r)
    PROVE  \/ ses'[r] = NoSession /\ ses[r].at = "write"
           \/ /\ ses'[r].sha = ses[r].sha /\ ses'[r].trailer = ses[r].trailer
              /\ \/ ses'[r].at \in {"sidecar", "write"} /\ ses[r].at \in {"open", "sidecar", "write"}
                 \/ ses'[r].at = "failed" /\ ses[r].at \in {"open", "write"}
                 \/ ses'[r].at = "failed" /\ ses[r].at = "land" /\ ses[r].trailer # None
                 \/ ses'[r].at = "copy" /\ ses[r].at = "copy"
                 \/ ses'[r].at = "land" /\ ses[r].at \in {"write", "copy"}
                 \/ ses'[r].at = "raised" /\ ses[r].at \in {"land", "placed"}
                 \/ ses'[r].at = "placed" /\ Land(r) /\ part # None
                 \/ ses'[r].at = "update" /\ Settle(r) /\ dest # None
                 \/ ses'[r].at = "ok" /\ UpdateIndex(r)
<1>a. ses[r] \in Processes
  BY DEF TypeOK
<1>b. ASSUME NEW at \in Steps, Go(r, at)
      PROVE  ses'[r].at = at /\ ses'[r].sha = ses[r].sha /\ ses'[r].trailer = ses[r].trailer
  BY <1>b, GoOn
<1>1. CASE ResumePart(r)
  <2>1. CASE PartialOffset(ses[r].sha) >= ses[r].off
    <3> DEFINE x == [ses[r] EXCEPT !.at = "write", !.got = SubSeq(part, 1, ses[r].off)]
    <3>1. x.at = "write" /\ x.sha = ses[r].sha /\ x.trailer = ses[r].trailer
      BY <1>a DEF Processes
    <3>2. ses' = [ses EXCEPT ![r] = x] /\ ses[r].at = "open"
      BY <1>1, <1>a, <2>1 DEF ResumePart, TypeOK
    <3> HIDE DEF x
    <3>3. ses'[r] = x
      BY <3>2 DEF TypeOK
    <3> QED
      BY <3>1, <3>2, <3>3
  <2>2. CASE ~(PartialOffset(ses[r].sha) >= ses[r].off)
    <3>1. Go(r, "failed") /\ ses[r].at = "open" /\ "failed" \in Steps
      BY <1>1, <2>2 DEF ResumePart, Steps
    <3> QED
      BY <1>b, <3>1
  <2> QED
    BY <2>1, <2>2
<1>2. CASE WriteSide(r) \/ TruncatePart(r)
  <2>1. PICK at \in {"sidecar", "write"} : Go(r, at) /\ ses[r].at \in {"open", "sidecar"}
    BY <1>2 DEF WriteSide, TruncatePart
  <2>2. at \in Steps
    BY DEF Steps, Receiving
  <2> QED
    BY <1>b, <2>1, <2>2
<1>3. CASE Receive(r)
  <2> DEFINE x == [ses[r] EXCEPT !.pipe = Tail(ses[r].pipe),
                                 !.got = Append(ses[r].got, Head(ses[r].pipe))]
  <2>1. x.at = ses[r].at /\ x.sha = ses[r].sha /\ x.trailer = ses[r].trailer
    BY <1>a DEF Processes
  <2>2. ses' = [ses EXCEPT ![r] = x] /\ ses[r].at \in {"write", "copy"}
    BY <1>3 DEF Receive, TypeOK
  <2> HIDE DEF x
  <2>3. ses'[r] = x
    BY <2>2 DEF TypeOK
  <2> QED
    BY <2>1, <2>2, <2>3
<1>4. CASE CutOff(r)
  BY <1>4 DEF CutOff, TypeOK
<1>5. CASE Check(r)
  <2>1. PICK at \in {"land", "failed"} : Go(r, at) /\ ses[r].at = "write"
    BY <1>5 DEF Check
  <2>2. at \in Steps
    BY DEF Steps
  <2> QED
    BY <1>b, <2>1, <2>2
<1>6. CASE Copied(r)
  <2>1. Go(r, "land") /\ ses[r].at = "copy" /\ "land" \in Steps
    BY <1>6 DEF Copied, Steps
  <2> QED
    BY <1>b, <2>1
<1>7. ASSUME NotReplaced(r), ses[r].at = "land"
      PROVE  /\ ses'[r].sha = ses[r].sha /\ ses'[r].trailer = ses[r].trailer
             /\ \/ ses'[r].at = "failed" /\ ses[r].trailer # None
                \/ ses'[r].at = "raised"
  <2>1. \/ Go(r, "raised")
        \/ Go(r, "failed") /\ ses[r].trailer # None
    BY <1>7 DEF NotReplaced
  <2>2. "raised" \in Steps /\ "failed" \in Steps
    BY DEF Steps
  <2> QED
    BY <1>b, <2>1, <2>2
<1>8. CASE Land(r)
  <2>1. ses[r].at = "land" /\ (NotReplaced(r) \/ (Go(r, "placed") /\ part # None))
    BY <1>8 DEF Land
  <2>2. "placed" \in Steps
    BY DEF Steps
  <2> QED
    BY <1>b, <1>7, <1>8, <2>1, <2>2
<1>9. CASE LandBusy(r)
  BY <1>7, <1>9 DEF LandBusy
<1>10. CASE Settle(r)
  <2>1. CASE dest = None
    <3>1. Go(r, "raised") /\ ses[r].at = "placed" /\ "raised" \in Steps
      BY <1>10, <2>1 DEF Settle, Steps
    <3> QED
      BY <1>b, <3>1
  <2>2. CASE dest # None
    <3>1. ses'[r].at = "update" /\ ses'[r].sha = ses[r].sha /\ ses'[r].trailer = ses[r].trailer
      BY <1>10, <1>a, <2>2 DEF Settle, TypeOK, Processes
    <3> QED
      BY <1>10, <2>2, <3>1
  <2> QED
    BY <2>1, <2>2
<1>11. CASE UpdateIndex(r)
  <2>1. Go(r, "ok") /\ "ok" \in Steps
    BY <1>11 DEF UpdateIndex, Steps
  <2> QED
    BY <1>b, <1>11, <2>1
<1> QED
  BY <1>1, <1>2, <1>3, <1>4, <1>5, <1>6, <1>8, <1>9, <1>10, <1>11 DEF HostStep

\* Who writes the index.
LEMMA IndexChanges ==
    ASSUME [Next]_vars
    PROVE  \/ idx' = idx \/ PlanHave \/ Manifest \/ Prune \/ \E r \in Sessions : UpdateIndex(r)
BY DEF Next, ClientStep, HostStep, ResumePart, WriteSide, TruncatePart, Receive, CutOff, Check, Copied,
       Land, Settle, StartPush, PlanNeed, Resume, Interrupt, Edit, JobWrites,
       Reply, RemoteError, Drop, Crash, LandBusy, PlanCopy, StreamFile, StreamEdited, Stream, vars, disk

\* The invariant behind IndexTruthful.
TruthInv == WholeInv /\ MtimesTell

\* A file found in place is the one that was asked for.
LEMMA HaveIsRight ==
    ASSUME TruthInv, NEW v \in Versions, Have(v)
    PROVE  dest # None /\ dest.data = v
<1>1. dest # None /\ dest.data = dest.mtime /\ (idx # None => idx.sha = idx.mtime) /\ Sha = v
  BY DEF TruthInv, MtimesTell, Have
<1> QED
  BY <1>1 DEF Sha, Unchanged

\* What is indexed was hashed when the file had the mtime of the entry.
LEMMA NextMtimes ==
    ASSUME "linger" \notin Faults, "race" \notin Faults, TruthInv, [Next]_vars
    PROVE  MtimesTell'
<1>a. TypeInv /\ TypeOK /\ OneAtATime /\ WholeInv
  BY DEF TruthInv, WholeInv, TypeInv
<1>b. /\ dest # None => dest.data = dest.mtime
      /\ idx # None => idx.sha = idx.mtime
      /\ \A r \in Sessions :
            /\ ses[r].at = "placed" /\ dest # None => dest.mtime = ses[r].sha
            /\ ses[r].at = "update" =>
                  ses[r].entry # None /\ ses[r].entry.sha = ses[r].entry.mtime
  BY DEF TruthInv, MtimesTell
<1>1. dest' # None => dest'.data = dest'.mtime
  <2>1. CASE dest' = dest
    BY <1>b, <2>1
  <2>2. CASE JobWrites \/ Prune
    BY <2>2 DEF JobWrites, Prune
  <2>3. ASSUME NEW r \in Sessions, Land(r) PROVE dest' # None => dest'.data = dest'.mtime
    <3>1. dest' = dest \/ dest' = [data |-> ses[r].sha, mtime |-> ses[r].sha]
      BY <1>a, <2>3, LandPlaces
    <3> QED
      BY <1>b, <3>1
  <2> QED
    BY <2>1, <2>2, <2>3, DestChanges
<1>2. idx' # None => idx'.sha = idx'.mtime
  <2>1. CASE idx' = idx
    BY <1>b, <2>1
  <2>2. CASE PlanHave
    <3>1. push.want \in Versions /\ Have(push.want) /\ idx' = Entry(dest, push.want, TRUE)
      BY <1>a, <2>2 DEF PlanHave, TypeInv, SessionsCoherent, Ended
    <3>2. dest # None /\ dest.data = push.want
      BY <3>1, HaveIsRight
    <3>3. idx'.sha = push.want /\ idx'.mtime = dest.mtime
      BY <3>1 DEF Entry
    <3> QED
      BY <1>b, <3>2, <3>3
  <2>3. CASE Manifest
    <3>1. dest # None /\ idx' = Entry(dest, dest.data, idx # None /\ idx.pushed)
      BY <2>3 DEF Manifest
    <3>2. idx'.sha = dest.data /\ idx'.mtime = dest.mtime
      BY <3>1 DEF Entry
    <3> QED
      BY <1>b, <3>1, <3>2
  <2>4. CASE Prune
    BY <2>4 DEF Prune
  <2>5. ASSUME NEW r \in Sessions, UpdateIndex(r) PROVE idx'.sha = idx'.mtime
    BY <1>b, <2>5 DEF UpdateIndex
  <2> QED
    BY <2>1, <2>2, <2>3, <2>4, <2>5, IndexChanges
<1> DEFINE Placed(q) == /\ ses'[q].at = "placed" /\ dest' # None => dest'.mtime = ses'[q].sha
                        /\ ses'[q].at = "update" =>
                              ses'[q].entry # None /\ ses'[q].entry.sha = ses'[q].entry.mtime
<1>3. \A q \in Sessions : Placed(q)
  <2>1. ASSUME NEW r \in Sessions, HostStep(r) \/ LandBusy(r), NEW q \in Sessions PROVE Placed(q)
    <3>1. CASE q # r
      <4>1. Running(r) /\ ses'[q] = ses[q]
        BY <1>a, <2>1, <3>1, HostStepIsOwn
      <4>2. ~Running(q)
        BY <1>a, <3>1, <4>1 DEF OneAtATime
      <4> QED
        BY <4>1, <4>2 DEF Running
    <3>2. CASE q = r /\ ses'[r].at = "placed"
      <4>1. Land(r)
        BY <1>a, <2>1, <3>2, HostGoes DEF NoSession
      <4>2. dest' = [data |-> ses[r].sha, mtime |-> ses[r].sha] /\ ses'[r].sha = ses[r].sha
        BY <1>a, <3>2, <4>1, LandPlaces
      <4> QED
        BY <3>2, <4>2
    <3>3. CASE q = r /\ ses'[r].at = "update"
      <4>1. Settle(r) /\ dest # None
        BY <1>a, <2>1, <3>3, HostGoes DEF NoSession
      <4>2. ses[r] \in Processes /\ ses[r].at = "placed" /\ ses[r].got = ses[r].sha
        BY <1>a, <4>1 DEF Settle, TypeOK, TypeInv, SessionsCoherent
      <4>3. ses'[r].entry = Entry(dest, ses[r].got, TRUE)
        <5> DEFINE x == [ses[r] EXCEPT !.at = "update", !.entry = Entry(dest, ses[r].got, TRUE)]
        <5>1. x.entry = Entry(dest, ses[r].got, TRUE)
          BY <4>2 DEF Processes
        <5>2. ses' = [ses EXCEPT ![r] = x]
          BY <1>a, <4>1 DEF Settle, TypeOK
        <5> HIDE DEF x
        <5> QED
          BY <1>a, <5>1, <5>2 DEF TypeOK
      <4>4. Entry(dest, ses[r].got, TRUE) \in Entries
        BY <1>a, <4>1, <4>2, ProcessParts, EntryType DEF TypeOK
      <4>5. ses'[r].entry # None
        BY <4>3, <4>4, NamesAssumption DEF Entries, Contents, Bytes
      <4>6. ses'[r].entry.sha = ses[r].sha /\ ses'[r].entry.mtime = dest.mtime
        BY <4>2, <4>3 DEF Entry
      <4> QED
        BY <1>b, <3>3, <4>1, <4>2, <4>5, <4>6
    <3> QED
      BY <3>1, <3>2, <3>3
  <2>2. ASSUME NEW r \in Sessions,
               \/ PlanCopy(r) \/ StreamFile(r)
               \/ \E v \in Versions, k \in 1..Len(local) : StreamEdited(r, v, k),
               NEW q \in Sessions
        PROVE  Placed(q)
    <3>1. /\ push.at \in {"plan", "stream"} /\ \A p \in Sessions \ {r} : ses'[p] = ses[p]
          /\ ses'[r].at \in {"open", "copy"}
      BY <1>a, <2>2, Starts
    <3>2. ~Running(q)
      BY <1>a, <3>1 DEF OneAtATime
    <3> QED
      BY <3>1, <3>2 DEF Running
  <2>3. ASSUME \/ StartPush \/ PlanHave \/ PlanNeed \/ Resume \/ Interrupt
               \/ Edit \/ JobWrites \/ Manifest \/ Prune \/ UNCHANGED vars
               \/ \E r \in Sessions : Reply(r) \/ RemoteError(r) \/ Drop(r) \/ Crash(r),
               NEW q \in Sessions
        PROVE  Placed(q)
    <3>1. Fades(q)
      BY <1>a, <2>3, OthersFade
    <3>2. CASE ~Running(q)'
      BY <3>2 DEF Running
    <3>3. CASE Running(q)'
      <4>1. /\ ses'[q].at = ses[q].at /\ ses'[q].sha = ses[q].sha /\ ses'[q].entry = ses[q].entry
        BY <3>1, <3>3, FadesRunning
      <4>2. CASE ses[q].at = "placed" /\ dest' # None
        <5>1. ~JobWrites /\ ~Prune
          BY <4>2 DEF JobWrites, Prune
        <5>2. \A r \in Sessions : ~Land(r)
          <6> SUFFICES ASSUME NEW r \in Sessions, Land(r) PROVE FALSE
            OBVIOUS
          <6>1. ses[r].at = "land" /\ r # q
            BY <4>2 DEF Land
          <6> QED
            BY <1>a, <4>2, <6>1 DEF OneAtATime, Running
        <5>3. dest' = dest
          BY <5>1, <5>2, DestChanges
        <5> QED
          BY <1>b, <4>1, <4>2, <5>3
      <4> QED
        BY <1>b, <4>1, <4>2
    <3> QED
      BY <3>2, <3>3
  <2> QED
    BY <2>1, <2>2, <2>3, StepKinds
<1> QED
  BY <1>1, <1>2, <1>3 DEF MtimesTell

\* A cached hash is trusted only while it is the hash of the file, if no job writes the
\* file between its rename and its stat and no receiver outlives its connection.
THEOREM TrueIndex ==
    ASSUME "linger" \notin Faults, "race" \notin Faults
    PROVE  Spec => []IndexTruthful
<1>1. Init => TruthInv
  <2> SUFFICES ASSUME Init PROVE TruthInv
    OBVIOUS
  <2>1. \A r \in Sessions : ses[r].at = "none"
    BY DEF Init, NoSession
  <2> QED
    BY <2>1, InitWholeInv DEF Init, TruthInv, MtimesTell
<1>2. TruthInv /\ [Next]_vars => TruthInv'
  BY NextWholeInv, NextMtimes DEF TruthInv
<1>3. TruthInv => IndexTruthful
  BY DEF TruthInv, MtimesTell, IndexTruthful, Unchanged
<1> QED
  BY <1>1, <1>2, <1>3, PTL DEF Spec

\* The invariant behind DoneMeansThere.
DoneInv == TruthInv /\ CopyOfWanted

\* A copy goes on for what is wanted, and nothing but a job replaces what it placed.
LEMMA NextCopy ==
    ASSUME "linger" \notin Faults, DoneInv, [Next]_vars, push'.at = "copying"
    PROVE  CopyOfWanted'
<1>a. TypeInv /\ TypeOK /\ OneAtATime /\ WholeInv /\ CopyOfWanted
  BY DEF DoneInv, TruthInv, WholeInv, TypeInv
<1> DEFINE Copying(q) ==
      /\ ses'[q].at \in {"none", "copy", "land", "placed", "update", "ok", "raised"}
      /\ Running(q)' => ses'[q].sha = push'.want /\ ses'[q].trailer = None
      /\ ses'[q].at \in {"placed", "update", "ok"} =>
            dest' # None /\ dest'.data \in {push'.want, Output}
<1>1. ASSUME NEW r \in Sessions, HostStep(r) \/ LandBusy(r), NEW q \in Sessions PROVE Copying(q)
  <2>1. /\ Running(r) /\ push' = push /\ push.at = "copying"
        /\ \A p \in Sessions \ {r} : ses'[p] = ses[p]
    BY <1>a, <1>1, HostStepIsOwn
  <2>2. CASE q # r
    <3>1. ~Running(q) /\ ses'[q] = ses[q]
      BY <1>a, <2>1, <2>2 DEF OneAtATime
    <3> QED
      BY <3>1 DEF Running
  <2>3. CASE q = r
    <3>1. /\ ses[r].at \in {"copy", "land", "placed", "update", "ok", "raised"}
          /\ ses[r].sha = push.want /\ ses[r].trailer = None
          /\ ses[r].at \in {"placed", "update", "ok"} =>
                dest # None /\ dest.data \in {push.want, Output}
      BY <1>a, <2>1 DEF CopyOfWanted, Running
    <3>2. /\ ses'[r].sha = push.want /\ ses'[r].trailer = None
          /\ \/ ses'[r].at \in {"copy", "land", "raised"}
             \/ ses'[r].at = "placed" /\ Land(r)
             \/ ses'[r].at = "update" /\ Settle(r)
             \/ ses'[r].at = "ok" /\ UpdateIndex(r)
      BY <1>a, <1>1, <3>1, HostGoes
    <3>3. CASE ses'[r].at = "placed" /\ Land(r)
      <4>1. dest' = [data |-> ses[r].sha, mtime |-> ses[r].sha] /\ ses[r].sha \in Versions
        BY <1>a, <3>3, LandPlaces
      <4>2. dest' # None
        <5>1. dest' \in Files
          BY <1>a, <4>1, ContentsAreBytes DEF Files, Contents
        <5> QED
          BY <5>1, NamesAssumption DEF Files, Contents, Bytes
      <4> QED
        BY <2>1, <2>3, <3>1, <3>2, <3>3, <4>1, <4>2
    <3>4. CASE ses'[r].at = "update" /\ Settle(r)
      <4>1. ses[r].at = "placed" /\ dest' = dest
        BY <3>4 DEF Settle
      <4> QED
        BY <2>1, <2>3, <3>1, <3>2, <3>4, <4>1
    <3>5. CASE ses'[r].at = "ok" /\ UpdateIndex(r)
      <4>1. ses[r].at = "update" /\ dest' = dest
        BY <3>5 DEF UpdateIndex
      <4> QED
        BY <2>1, <2>3, <3>1, <3>2, <3>5, <4>1
    <3> QED
      BY <2>1, <2>3, <3>2, <3>3, <3>4, <3>5
  <2> QED
    BY <2>2, <2>3
<1>2. ASSUME NEW r \in Sessions,
             \/ PlanCopy(r) \/ StreamFile(r)
             \/ \E v \in Versions, k \in 1..Len(local) : StreamEdited(r, v, k),
             NEW q \in Sessions
      PROVE  Copying(q)
  <2>1. /\ push.at \in {"plan", "stream"} /\ \A p \in Sessions \ {r} : ses'[p] = ses[p]
        /\ ses'[r].sha = push.want /\ push'.want = push.want
        /\ ses'[r].at = "copy" /\ ses'[r].trailer = None
    BY <1>a, <1>2, Starts
  <2>2. ~Running(q)
    BY <1>a, <2>1 DEF OneAtATime
  <2> QED
    BY <2>1, <2>2 DEF Running
<1>3. ASSUME \/ StartPush \/ PlanHave \/ PlanNeed \/ Resume \/ Interrupt
             \/ Edit \/ JobWrites \/ Manifest \/ Prune \/ UNCHANGED vars
             \/ \E r \in Sessions : Reply(r) \/ RemoteError(r) \/ Drop(r) \/ Crash(r),
             NEW q \in Sessions
      PROVE  Copying(q)
  <2>1. push' = push
    BY <1>a, <1>3, PushMoves
  <2>2. Fades(q)
    BY <1>a, <1>3, OthersFade
  <2>3. CASE ~Running(q)'
    BY <2>3 DEF Running
  <2>4. CASE Running(q)'
    <3>1. /\ ses'[q].at = ses[q].at /\ ses'[q].sha = ses[q].sha
          /\ ses'[q].trailer \in {None, ses[q].trailer} /\ Running(q)
      BY <2>2, <2>4, FadesRunning
    <3>2. /\ ses[q].at \in {"none", "copy", "land", "placed", "update", "ok", "raised"}
          /\ ses[q].sha = push.want /\ ses[q].trailer = None
          /\ ses[q].at \in {"placed", "update", "ok"} =>
                dest # None /\ dest.data \in {push.want, Output}
      BY <1>a, <2>1, <3>1 DEF CopyOfWanted
    <3>3. CASE dest' = dest
      BY <2>1, <3>1, <3>2, <3>3
    <3>4. CASE JobWrites
      <4>1. dest' = [data |-> Output, mtime |-> Output]
        BY <3>4 DEF JobWrites
      <4>2. dest' # None
        BY <4>1, ConstantsAssumption, ContentsAreBytes, NamesAssumption DEF Contents, Bytes
      <4> QED
        BY <2>1, <3>1, <3>2, <4>1, <4>2
    <3>5. CASE Prune
      BY <2>1, <3>5 DEF Prune, Ended
    <3>6. ASSUME NEW r \in Sessions, Land(r) PROVE Copying(q)
      BY <1>1, <3>6 DEF HostStep
    <3> QED
      BY <3>3, <3>4, <3>5, <3>6, DestChanges
  <2> QED
    BY <2>3, <2>4
<1>4. \A q \in Sessions : Copying(q)
  BY <1>1, <1>2, <1>3, StepKinds
<1> QED
  BY <1>4 DEF CopyOfWanted

\* How a push comes to be done.
LEMMA DoneBy ==
    ASSUME TypeOK, [Next]_vars, push.at # "done", push'.at = "done"
    PROVE  \/ PlanHave
           \/ \E r \in Sessions : /\ push.at = "copying"
                                  /\ ses[r].at \in {"ok", "failed"} /\ Awaited(r)
<1>1. ASSUME NEW r \in Sessions, HostStep(r) \/ LandBusy(r) PROVE FALSE
  BY <1>1, HostStepIsOwn
<1>2. ASSUME NEW r \in Sessions,
             \/ PlanCopy(r) \/ StreamFile(r)
             \/ \E v \in Versions, k \in 1..Len(local) : StreamEdited(r, v, k)
      PROVE  FALSE
  BY <1>2, Starts
<1>3. ~StartPush /\ ~PlanNeed /\ ~Resume
  <2>1. ~StartPush
    BY DEF StartPush
  <2>2. ~PlanNeed
    BY DEF PlanNeed, TypeOK, Pushes
  <2>3. ~Resume
    BY DEF Resume, TypeOK, Pushes
  <2> QED
    BY <2>1, <2>2, <2>3
<1>4. ~Interrupt /\ ~Edit /\ ~JobWrites /\ ~Manifest /\ ~Prune /\ ~UNCHANGED vars
  <2>1. ~Interrupt
    BY DEF Interrupt, TypeOK, Pushes
  <2> QED
    BY <2>1 DEF Edit, JobWrites, Manifest, Prune, vars
<1>5. ASSUME NEW r \in Sessions, RemoteError(r) \/ Drop(r) \/ Crash(r) PROVE FALSE
  BY <1>5 DEF RemoteError, Drop, Crash, Notices, TypeOK, Pushes
<1>6. ASSUME NEW r \in Sessions, Reply(r)
      PROVE  push.at = "copying" /\ ses[r].at \in {"ok", "failed"} /\ Awaited(r)
  <2>1. Awaited(r) /\ push.at # "sent" /\ ses[r].at \in {"ok", "failed"}
    BY <1>6 DEF Reply, TypeOK, Pushes
  <2> QED
    BY <2>1 DEF Awaited
<1> QED
  BY <1>1, <1>2, <1>3, <1>4, <1>5, <1>6, StepKinds

\* A push that ends well left what it promised at the destination, or a job wrote it
\* since: if no job writes the file between its rename and its stat and no receiver
\* outlives its connection.
THEOREM DoneIsThere ==
    ASSUME "linger" \notin Faults, "race" \notin Faults
    PROVE  Spec => DoneMeansThere
<1>1. Init => DoneInv
  <2> SUFFICES ASSUME Init PROVE DoneInv
    OBVIOUS
  <2>1. \A r \in Sessions : ses[r].at = "none"
    BY DEF Init, NoSession
  <2> QED
    BY <2>1, InitWholeInv DEF Init, DoneInv, TruthInv, MtimesTell, CopyOfWanted
<1>2. DoneInv /\ [Next]_vars => DoneInv'
  <2> SUFFICES ASSUME DoneInv, [Next]_vars PROVE DoneInv'
    OBVIOUS
  <2>1. TruthInv'
    BY NextWholeInv, NextMtimes DEF TruthInv, DoneInv
  <2>2. CopyOfWanted'
    BY NextCopy DEF CopyOfWanted
  <2> QED
    BY <2>1, <2>2 DEF DoneInv
<1>3. DoneInv /\ [Next]_vars =>
         [push.at # "done" /\ push'.at = "done" =>
            /\ dest # None
            /\ dest.data = push.want \/ (push.at = "copying" /\ dest.data = Output)]_vars
  <2> SUFFICES ASSUME DoneInv, [Next]_vars, push.at # "done", push'.at = "done"
               PROVE  /\ dest # None
                      /\ dest.data = push.want \/ (push.at = "copying" /\ dest.data = Output)
    OBVIOUS
  <2>a. TruthInv /\ TypeOK /\ TypeInv
    BY DEF DoneInv, TruthInv, WholeInv, TypeInv
  <2>1. CASE PlanHave
    <3>1. push.want \in Versions /\ Have(push.want)
      BY <2>1, <2>a DEF PlanHave, TypeInv, SessionsCoherent, Ended
    <3> QED
      BY <2>a, <3>1, HaveIsRight
  <2>2. ASSUME NEW r \in Sessions, push.at = "copying", ses[r].at \in {"ok", "failed"}, Awaited(r)
        PROVE  dest # None /\ dest.data \in {push.want, Output}
    BY <2>2 DEF DoneInv, CopyOfWanted
  <2> QED
    BY <2>a, <2>1, <2>2, DoneBy
<1> QED
  BY <1>1, <1>2, <1>3, PTL DEF Spec, DoneMeansThere
=============================================================================
