----------------------- MODULE DeploymentLedger_proofs ----------------------
(***************************************************************************)
(* Proofs about DeploymentLedger, for any number of processes, ids, calls  *)
(* and power failures: type correctness, and from the exclusion that flock *)
(* gives, ChainIntact, AppendedSurvives, ReadsAreStable and the refinement *)
(* of AppendOnlyLog.                                                       *)
(***************************************************************************)
EXTENDS DeploymentLedger, SequenceTheorems, TLAPS

----------------------------------------------------------------------------
(* The sequences                                                           *)

LEMMA AppendFacts ==
    ASSUME NEW S, NEW f \in Seq(S), NEW e \in S
    PROVE  /\ Append(f, e) \in Seq(S) /\ Len(Append(f, e)) = Len(f) + 1
           /\ Append(f, e)[Len(f) + 1] = e
           /\ \A i \in 1..Len(f) : Append(f, e)[i] = f[i]
           /\ Len(f) \in Nat
OBVIOUS

LEMMA PrefixFacts ==
    ASSUME NEW S, NEW f \in Seq(S), NEW n \in 0..Len(f)
    PROVE  /\ SubSeq(f, 1, n) \in Seq(S) /\ Len(SubSeq(f, 1, n)) = n
           /\ \A i \in 1..n : SubSeq(f, 1, n)[i] = f[i]
OBVIOUS

LEMMA HashTyped == ASSUME NEW e \in Entries PROVE Hash(e) \in Seq(Ids)
<1>1. e.prev \in Seq(Ids) /\ e.id \in Ids
  BY DEF Entries
<1> QED BY <1>1 DEF Hash

LEMMA HeadHashTyped == ASSUME NEW f \in Seq(Entries) PROVE HeadHash(f) \in Seq(Ids)
<1>1. CASE f = <<>>
  <2>1. <<>> \in Seq(Ids)
    OBVIOUS
  <2> QED BY <1>1, <2>1 DEF HeadHash
<1>2. CASE f # <<>>
  <2>1. f[Len(f)] \in Entries
    BY <1>2
  <2> QED BY <1>2, <2>1, HashTyped DEF HeadHash
<1> QED BY <1>1, <1>2

\* An entry that carries the head's hash and a new id extends the chain.
LEMMA AppendChained ==
    ASSUME NEW f \in Seq(Entries), Chained(f), NEW e \in Entries,
           e.prev = HeadHash(f), \A i \in 1..Len(f) : f[i].id # e.id
    PROVE  Chained(Append(f, e))
<1> DEFINE g == Append(f, e)
<1>1. /\ Len(g) = Len(f) + 1 /\ g[Len(f) + 1] = e /\ Len(f) \in Nat
      /\ \A i \in 1..Len(f) : g[i] = f[i]
  BY AppendFacts
<1> HIDE DEF g
<1>2. ASSUME NEW i \in 1..Len(g) PROVE g[i].prev = (IF i = 1 THEN <<>> ELSE Hash(g[i - 1]))
  <2>1. CASE i = Len(f) + 1
    <3>1. f = <<>> <=> i = 1
      BY <2>1
    <3>2. i # 1 => i - 1 = Len(f) /\ g[i - 1] = f[Len(f)]
      BY <1>1, <2>1
    <3> QED BY <1>1, <2>1, <3>1, <3>2 DEF HeadHash
  <2>2. CASE i # Len(f) + 1
    <3>1. i \in 1..Len(f) /\ (i # 1 => i - 1 \in 1..Len(f))
      BY <1>1, <2>2
    <3> QED BY <1>1, <3>1 DEF Chained
  <2> QED BY <2>1, <2>2
<1>3. \A i, j \in 1..Len(g) : g[i].id = g[j].id => i = j
  BY <1>1 DEF Chained
<1> QED BY <1>2, <1>3 DEF Chained, g

LEMMA PrefixChained ==
    ASSUME NEW f \in Seq(Entries), Chained(f), NEW n \in 0..Len(f)
    PROVE  Chained(SubSeq(f, 1, n))
<1> DEFINE g == SubSeq(f, 1, n)
<1>1. Len(g) = n /\ \A i \in 1..n : g[i] = f[i]
  BY PrefixFacts
<1>2. \A i \in 1..n : i \in 1..Len(f) /\ (i # 1 => i - 1 \in 1..n)
  OBVIOUS
<1> HIDE DEF g
<1> QED BY <1>1, <1>2 DEF Chained, g

LEMMA IdsOfTyped ==
    ASSUME NEW f \in Seq(Entries)
    PROVE  IdsOf(f) \in Seq(Ids) /\ Len(IdsOf(f)) = Len(f)
           /\ \A i \in 1..Len(f) : IdsOf(f)[i] = f[i].id
<1>1. Len(f) \in Nat /\ \A i \in 1..Len(f) : f[i] \in Entries
  OBVIOUS
<1>2. \A i \in 1..Len(f) : f[i].id \in Ids
  BY <1>1 DEF Entries
<1> QED BY <1>1, <1>2 DEF IdsOf

----------------------------------------------------------------------------
(* Types                                                                   *)

\* A job that can follow: of the right type, and naming what it appends.
Sound(j) == j \in Jobs /\ (j.pc \in Appending => j.id \in Ids)

LEMMA IdleSound ==
    ASSUME NEW r \in Results
    PROVE  /\ Sound(Idle(r)) /\ Idle(r).pc = "idle" /\ Idle(r).result = r /\ Idle(r).got = <<>>
           /\ \A d \in Ids : Sound([Idle(r) EXCEPT !.pc = "open", !.id = d])
           /\ Sound([Idle(r) EXCEPT !.pc = "rlock"])
           /\ \A g \in Seq(Ids) : Sound([Idle(r) EXCEPT !.got = g])
<1>1. <<>> \in Seq(Ids)
  OBVIOUS
<1> QED BY <1>1 DEF Sound, Idle, Jobs, Pcs, Appending

\* What a step does to the variables but the job.
FileTyped ==
    /\ file \in Seq(Entries) /\ torn \in BOOLEAN /\ synced \in 0..Len(file)
    /\ lock \in [ex : SUBSET Procs, sh : SUBSET Procs] /\ told \in SUBSET Ids

LEMMA BecomeTyped ==
    ASSUME TypeOK, NEW p \in Procs, NEW j, Sound(j), Become(p, j), FileTyped',
           UNCHANGED <<calls, outages>>
    PROVE  TypeOK'
<1>1. job' \in [Procs -> Jobs] /\ \A q \in Procs : job'[q].pc \in Appending => job'[q].id \in Ids
  BY DEF TypeOK, Sound, Become
<1> QED BY <1>1 DEF TypeOK, FileTyped

LEMMA ReleaseTyped ==
    ASSUME TypeOK, NEW p \in Procs, Release(p)
    PROVE  /\ lock' \in [ex : SUBSET Procs, sh : SUBSET Procs]
           /\ lock'.ex = lock.ex \ {p} /\ lock'.sh = lock.sh \ {p}
BY DEF TypeOK, Release

\* A write that ends early, whatever it leaves.
LEMMA WriteEndsTyped ==
    ASSUME TypeOK, NEW p \in Procs, job[p].pc = "write", WriteEndsEarly(p), UNCHANGED synced
    PROVE  file' \in Seq(Entries) /\ torn' \in BOOLEAN /\ synced' \in 0..Len(file')
<1>1. file \in Seq(Entries) /\ synced \in 0..Len(file) /\ Len(file) \in Nat /\ torn \in BOOLEAN
  BY DEF TypeOK
<1>2. NewEntry(p) \in Entries
  BY DEF TypeOK, NewEntry, Entries, Appending, Jobs
<1>3. CASE file' = Append(file, NewEntry(p)) /\ UNCHANGED torn
  <2>1. file' \in Seq(Entries) /\ Len(file') = Len(file) + 1
    BY <1>1, <1>2, <1>3, AppendFacts
  <2> QED BY <1>1, <1>3, <2>1
<1>4. CASE UNCHANGED file /\ torn' \in {torn, TRUE}
  BY <1>1, <1>4
<1> QED BY <1>3, <1>4 DEF WriteEndsEarly

LEMMA InitTyped == Init => TypeOK
<1> SUFFICES ASSUME Init PROVE TypeOK
    OBVIOUS
<1>1. Sound(Idle("none")) /\ Idle("none").pc \notin Appending
  BY IdleSound DEF Results, Appending
<1>2. job \in [Procs -> Jobs] /\ \A p \in Procs : job[p].pc \notin Appending
  BY <1>1 DEF Init, Sound
<1>3. file \in Seq(Entries) /\ synced \in 0..Len(file)
  BY DEF Init
<1>4. calls \in 0..MaxCalls /\ outages \in 0..MaxOutages
  BY BoundsAssumption DEF Init
<1>5. torn \in BOOLEAN /\ told \in SUBSET Ids /\ lock \in [ex : SUBSET Procs, sh : SUBSET Procs]
  BY DEF Init
<1>6. \A p \in Procs : job[p].pc \in Appending => job[p].id \in Ids
  BY <1>2
<1> QED BY <1>2, <1>3, <1>4, <1>5, <1>6 DEF TypeOK

LEMMA AppendStepTyped == ASSUME TypeOK, NEW p \in Procs, AppendStep(p) PROVE TypeOK'
<1> DEFINE LockTyped == lock \in [ex : SUBSET Procs, sh : SUBSET Procs]
<1>0. Sound(job[p]) /\ FileTyped /\ Sound(Idle("failed")) /\ Sound(Idle("appended"))
  BY IdleSound DEF TypeOK, Sound, FileTyped, Results
<1>1. CASE OpenLedger(p)
  <2>1. Sound([job[p] EXCEPT !.pc = "lock"])
    BY <1>0, <1>1 DEF OpenLedger, Sound, Jobs, Pcs, Appending
  <2>2. FileTyped'
    BY <1>0, <1>1, ReleaseTyped DEF OpenLedger, Return, FileTyped
  <2> QED BY <1>0, <1>1, <2>1, <2>2, BecomeTyped DEF OpenLedger, Goto, Return
<1>2. CASE LockExclusive(p)
  <2>1. Sound([job[p] EXCEPT !.pc = "check"])
    BY <1>0, <1>2 DEF LockExclusive, Sound, Jobs, Pcs, Appending
  <2>2. FileTyped'
    BY <1>0, <1>2 DEF LockExclusive, FileTyped
  <2> QED BY <1>2, <2>1, <2>2, BecomeTyped DEF LockExclusive, Goto
<1>3. CASE CheckAndChain(p)
  <2>1. HeadHash(file) \in Seq(Ids)
    BY HeadHashTyped DEF TypeOK
  <2>2. Sound([job[p] EXCEPT !.pc = "write", !.prev = HeadHash(file)])
    BY <1>0, <1>3, <2>1 DEF CheckAndChain, Sound, Jobs, Pcs, Appending
  <2>3. FileTyped'
    BY <1>0, <1>3 DEF CheckAndChain, FileTyped
  <2> QED BY <1>3, <2>2, <2>3, BecomeTyped DEF CheckAndChain
<1>4. CASE CheckRefuses(p)
  <2>1. FileTyped'
    BY <1>0, <1>4, ReleaseTyped DEF CheckRefuses, Return, FileTyped
  <2> QED BY <1>0, <1>4, <2>1, BecomeTyped DEF CheckRefuses, Return
<1>5. CASE WriteLine(p)
  <2>1. Sound([job[p] EXCEPT !.pc = "fsync"])
    BY <1>0, <1>5 DEF WriteLine, Sound, Jobs, Pcs, Appending
  <2>2. WriteEndsEarly(p) /\ job[p].pc = "write" /\ UNCHANGED synced
    BY <1>5 DEF WriteLine, WriteEndsEarly
  <2>3. FileTyped'
    BY <1>0, <1>5, <2>2, WriteEndsTyped DEF WriteLine, FileTyped
  <2> QED BY <1>5, <2>1, <2>3, BecomeTyped DEF WriteLine, Goto
<1>6. CASE WriteFails(p)
  <2>1. FileTyped'
    BY <1>0, <1>6, ReleaseTyped, WriteEndsTyped DEF WriteFails, Return, FileTyped
  <2> QED BY <1>0, <1>6, <2>1, BecomeTyped DEF WriteFails, Return
<1>7. CASE SyncLedger(p)
  <2>1. job[p].id \in Ids /\ Len(file) \in 0..Len(file)
    BY <1>0, <1>7 DEF SyncLedger, Sound, Appending, FileTyped
  <2>2. FileTyped'
    BY <1>0, <1>7, <2>1, ReleaseTyped DEF SyncLedger, Return, FileTyped
  <2> QED BY <1>0, <1>7, <2>2, BecomeTyped DEF SyncLedger, Return
<1>8. CASE SyncFails(p)
  <2>1. FileTyped'
    BY <1>0, <1>8, ReleaseTyped DEF SyncFails, Return, FileTyped
  <2> QED BY <1>0, <1>8, <2>1, BecomeTyped DEF SyncFails, Return
<1> QED
  BY <1>1, <1>2, <1>3, <1>4, <1>5, <1>6, <1>7, <1>8 DEF AppendStep

LEMMA ReadStepTyped == ASSUME TypeOK, NEW p \in Procs, ReadStep(p) PROVE TypeOK'
<1>0. Sound(job[p]) /\ FileTyped /\ Sound(Idle("failed"))
  BY IdleSound DEF TypeOK, Sound, FileTyped, Results
<1>1. CASE LockShared(p)
  <2>1. Sound([job[p] EXCEPT !.pc = "read"])
    BY <1>0, <1>1 DEF LockShared, Sound, Jobs, Pcs, Appending
  <2>2. FileTyped'
    BY <1>0, <1>1 DEF LockShared, FileTyped
  <2> QED BY <1>1, <2>1, <2>2, BecomeTyped DEF LockShared, Goto
<1>2. CASE ReadFails(p)
  <2>1. FileTyped'
    BY <1>0, <1>2, ReleaseTyped DEF ReadFails, Return, FileTyped
  <2> QED BY <1>0, <1>2, <2>1, BecomeTyped DEF ReadFails, Return
<1>3. CASE ReadAll(p)
  <2>1. Sound([Idle("read") EXCEPT !.got = IdsOf(file)])
    BY IdleSound, IdsOfTyped DEF TypeOK, Results
  <2>2. FileTyped'
    BY <1>0, <1>3, ReleaseTyped DEF ReadAll, FileTyped
  <2> QED BY <1>0, <1>3, <2>1, <2>2, BecomeTyped DEF ReadAll
<1> QED BY <1>1, <1>2, <1>3 DEF ReadStep

LEMMA NextTyped == ASSUME TypeOK, [Next]_vars PROVE TypeOK'
<1>1. ASSUME NEW p \in Procs, NEW j, Sound(j), Become(p, j), calls < MaxCalls, calls' = calls + 1,
             UNCHANGED <<file, torn, synced, lock, told, outages>>
      PROVE  TypeOK'
  <2>1. job' \in [Procs -> Jobs] /\ \A q \in Procs : job'[q].pc \in Appending => job'[q].id \in Ids
    BY <1>1 DEF TypeOK, Sound, Become
  <2>2. calls' \in 0..MaxCalls
    BY <1>1, BoundsAssumption DEF TypeOK
  <2> QED BY <1>1, <2>1, <2>2 DEF TypeOK
<1>2. ASSUME NEW p \in Procs, NEW d \in Ids, StartAppend(p, d) PROVE TypeOK'
  <2>1. Sound([Idle("none") EXCEPT !.pc = "open", !.id = d])
    BY IdleSound DEF Results
  <2> QED BY <1>1, <1>2, <2>1 DEF StartAppend
<1>3. ASSUME NEW p \in Procs, StartRead(p) PROVE TypeOK'
  <2>1. Sound([Idle("none") EXCEPT !.pc = "rlock"])
    BY IdleSound DEF Results
  <2> QED BY <1>1, <1>3, <2>1 DEF StartRead
<1>4. ASSUME NEW p \in Procs, Kill(p) PROVE TypeOK'
  <2>1. FileTyped'
    <3>1. file' \in Seq(Entries) /\ torn' \in BOOLEAN /\ synced' \in 0..Len(file')
      BY <1>4, WriteEndsTyped DEF Kill, TypeOK
    <3> QED BY <1>4, <3>1, ReleaseTyped DEF Kill, Return, FileTyped, TypeOK
  <2> QED BY <1>4, <2>1, IdleSound, BecomeTyped DEF Kill, Return, Results
<1>5. CASE PowerFailure
  <2>1. PICK n \in synced..Len(file) :
            file' = SubSeq(file, 1, n) /\ torn' \in {FALSE, torn \/ n < Len(file)} /\ synced' = n
    BY <1>5 DEF PowerFailure
  <2>2. n \in 0..Len(file) /\ file \in Seq(Entries)
    BY DEF TypeOK
  <2>3. file' \in Seq(Entries) /\ Len(file') = n
    BY <2>1, <2>2, PrefixFacts
  <2>4. torn' \in BOOLEAN /\ synced' \in 0..Len(file')
    <3>1. n \in 0..n
      BY <2>2
    <3>2. torn' \in BOOLEAN
      BY <2>1 DEF TypeOK
    <3> QED BY <2>1, <2>3, <3>1, <3>2
  <2>5. job' \in [Procs -> Jobs] /\ \A p \in Procs : job'[p].pc \notin Appending
    <3>1. Sound(Idle("none")) /\ Idle("none").pc \notin Appending
      BY IdleSound DEF Results, Appending
    <3> QED BY <1>5, <3>1 DEF PowerFailure, Sound
  <2>6. outages' \in 0..MaxOutages
    BY <1>5, BoundsAssumption DEF PowerFailure, TypeOK
  <2>7. lock' \in [ex : SUBSET Procs, sh : SUBSET Procs] /\ UNCHANGED <<told, calls>>
    BY <1>5 DEF PowerFailure
  <2> QED BY <2>3, <2>4, <2>5, <2>6, <2>7 DEF TypeOK
<1>6. CASE UNCHANGED vars
  BY <1>6 DEF vars, TypeOK
<1> QED
  BY <1>2, <1>3, <1>4, <1>5, <1>6, AppendStepTyped, ReadStepTyped DEF Next

(* DeploymentLedger is type correct.                                       *)
THEOREM TypeCorrect == Spec => []TypeOK
BY InitTyped, NextTyped, PTL DEF Spec

----------------------------------------------------------------------------
(* The inductive invariant                                                 *)

\* Who holds the lock is where the lock says it is.
LockOK(p) ==
    /\ p \in lock.ex <=> job[p].pc \in {"check", "write", "fsync"}
    /\ p \in lock.sh <=> job[p].pc = "read"

Exclusive == (\A p, q \in lock.ex : p = q) /\ (lock.ex = {} \/ lock.sh = {})

\* What a writer found out about the file still holds when it writes, and
\* its entry is the last one when it syncs.
WriterOK(p) ==
    /\ job[p].pc = "write" =>
          /\ ~torn /\ job[p].prev = HeadHash(file)
          /\ \A i \in 1..Len(file) : file[i].id # job[p].id
    /\ job[p].pc = "fsync" => Len(file) # 0 /\ file[Len(file)].id = job[p].id

ReadOK(p) == job[p].result = "read" => IsPrefix(job[p].got, IdsOf(file))

ToldOK == \A d \in told : \E i \in 1..synced : file[i].id = d

LInv ==
    /\ Chained(file) /\ Exclusive /\ ToldOK
    /\ \A p \in Procs : LockOK(p) /\ WriterOK(p) /\ ReadOK(p)

\* What every step but a power failure does to the lines.
Extends == file' = file \/ \E e \in Entries : file' = Append(file, e)

LEMMA ExtendsFacts ==
    ASSUME TypeOK, Extends
    PROVE  /\ Len(file) \in Nat /\ Len(file') \in Nat /\ Len(file) <= Len(file')
           /\ \A i \in 1..Len(file) : file'[i] = file[i]
           /\ IdsOf(file) \in Seq(Ids) /\ IdsOf(file') \in Seq(Ids)
           /\ Len(IdsOf(file)) = Len(file) /\ Len(IdsOf(file')) = Len(file')
           /\ \A i \in 1..Len(file) : IdsOf(file')[i] = IdsOf(file)[i]
<1>1. file \in Seq(Entries) /\ Len(file) \in Nat
  BY DEF TypeOK
<1>2. CASE file' = file
  BY <1>1, <1>2, IdsOfTyped
<1>3. CASE \E e \in Entries : file' = Append(file, e)
  <2>1. PICK e \in Entries : file' = Append(file, e)
    BY <1>3
  <2>2. /\ file' \in Seq(Entries) /\ Len(file') = Len(file) + 1
        /\ \A i \in 1..Len(file) : file'[i] = file[i]
    BY <1>1, <2>1, AppendFacts
  <2>3. /\ IdsOf(file) \in Seq(Ids) /\ Len(IdsOf(file)) = Len(file)
        /\ \A i \in 1..Len(file) : IdsOf(file)[i] = file[i].id
    BY <1>1, IdsOfTyped
  <2>4. /\ IdsOf(file') \in Seq(Ids) /\ Len(IdsOf(file')) = Len(file')
        /\ \A i \in 1..Len(file') : IdsOf(file')[i] = file'[i].id
    BY <2>2, IdsOfTyped
  <2> QED BY <1>1, <2>2, <2>3, <2>4
<1> QED BY <1>2, <1>3 DEF Extends

LEMMA PrefixStays ==
    ASSUME NEW g \in Seq(Ids), NEW s \in Seq(Ids), NEW t \in Seq(Ids), IsPrefix(g, s),
           Len(s) <= Len(t), \A i \in 1..Len(s) : t[i] = s[i]
    PROVE  IsPrefix(g, t)
<1>1. Len(g) \in Nat /\ Len(s) \in Nat /\ Len(t) \in Nat /\ Len(g) <= Len(s)
  BY DEF IsPrefix
<1>2. /\ SubSeq(s, 1, Len(g)) \in Seq(Ids) /\ Len(SubSeq(s, 1, Len(g))) = Len(g)
      /\ \A i \in 1..Len(g) : SubSeq(s, 1, Len(g))[i] = s[i]
  BY <1>1, PrefixFacts
<1>3. /\ SubSeq(t, 1, Len(g)) \in Seq(Ids) /\ Len(SubSeq(t, 1, Len(g))) = Len(g)
      /\ \A i \in 1..Len(g) : SubSeq(t, 1, Len(g))[i] = t[i]
  BY <1>1, PrefixFacts
<1>4. \A i \in 1..Len(g) : t[i] = s[i]
  BY <1>1
<1>5. SubSeq(s, 1, Len(g)) = SubSeq(t, 1, Len(g))
  BY <1>2, <1>3, <1>4, SeqEqual
<1> QED BY <1>1, <1>5 DEF IsPrefix

\* A step of p that leaves the lines alone, or holds the lock, disturbs no
\* other process.
LEMMA OthersKept ==
    ASSUME TypeOK, LInv, NEW p \in Procs, Extends, UNCHANGED <<file, torn>> \/ p \in lock.ex,
           lock'.ex \ {p} = lock.ex \ {p}, lock'.sh \ {p} = lock.sh \ {p},
           NEW q \in Procs, q # p, job'[q] = job[q]
    PROVE  LockOK(q)' /\ WriterOK(q)' /\ ReadOK(q)'
<1>1. LockOK(q)'
  BY DEF LInv, LockOK
<1>2. WriterOK(q)'
  <2>1. CASE UNCHANGED <<file, torn>>
    BY <2>1 DEF LInv, WriterOK
  <2>2. CASE p \in lock.ex
    BY <2>2 DEF LInv, Exclusive, LockOK, WriterOK
  <2> QED BY <2>1, <2>2
<1>3. ReadOK(q)'
  <2> SUFFICES ASSUME job[q].result = "read" PROVE IsPrefix(job[q].got, IdsOf(file)')
    BY DEF ReadOK
  <2>1. job[q].got \in Seq(Ids) /\ IsPrefix(job[q].got, IdsOf(file))
    BY DEF TypeOK, Jobs, LInv, ReadOK
  <2>2. IdsOf(file)' = IdsOf(file')
    OBVIOUS
  <2> QED BY <2>1, <2>2, ExtendsFacts, PrefixStays
<1> QED BY <1>1, <1>2, <1>3

\* A step of p that takes it to job j.
LEMMA StepKeeps ==
    ASSUME TypeOK, LInv, NEW p \in Procs, NEW j, Become(p, j), Extends,
           UNCHANGED <<file, torn>> \/ p \in lock.ex,
           lock'.ex \ {p} = lock.ex \ {p}, lock'.sh \ {p} = lock.sh \ {p},
           Chained(file'), Exclusive', ToldOK', LockOK(p)', WriterOK(p)', ReadOK(p)'
    PROVE  LInv'
<1>1. \A q \in Procs : q # p => job'[q] = job[q]
  BY DEF TypeOK, Become
<1>2. \A q \in Procs : LockOK(q)' /\ WriterOK(q)' /\ ReadOK(q)'
  BY <1>1, OthersKept
<1> QED BY <1>2 DEF LInv

LEMMA ToldKept ==
    ASSUME TypeOK, ToldOK, Extends, UNCHANGED <<synced, told>>
    PROVE  ToldOK'
<1>1. \A i \in 1..synced : i \in 1..Len(file)
  BY DEF TypeOK
<1> QED BY <1>1, ExtendsFacts DEF ToldOK

\* A return: the lock is given back, and nothing is claimed of the file.
LEMMA ReturnKeeps ==
    ASSUME TypeOK, LInv, NEW p \in Procs, NEW r \in Results \ {"read"}, Return(p, r), Extends,
           UNCHANGED <<file, torn>> \/ p \in lock.ex, Chained(file'), ToldOK'
    PROVE  LInv'
<1>1. job'[p] = Idle(r) /\ job'[p].pc = "idle" /\ job'[p].result # "read"
  BY IdleSound DEF TypeOK, Return, Become
<1>2. lock'.ex = lock.ex \ {p} /\ lock'.sh = lock.sh \ {p}
  BY ReleaseTyped DEF Return
<1>3. LockOK(p)' /\ WriterOK(p)' /\ ReadOK(p)'
  BY <1>1, <1>2 DEF LockOK, WriterOK, ReadOK
<1>4. Exclusive'
  BY <1>2 DEF LInv, Exclusive
<1>5. Become(p, Idle(r))
  BY DEF Return
<1>6. lock'.ex \ {p} = lock.ex \ {p} /\ lock'.sh \ {p} = lock.sh \ {p}
  BY <1>2
<1> QED BY <1>3, <1>4, <1>5, <1>6, StepKeeps

\* What a write that ends early leaves in the file still chains.
LEMMA WriteEndsChained ==
    ASSUME TypeOK, LInv, NEW p \in Procs, job[p].pc = "write", WriteEndsEarly(p)
    PROVE  Extends /\ Chained(file') /\ p \in lock.ex
<1>1. NewEntry(p) \in Entries
  BY DEF TypeOK, NewEntry, Entries, Appending, Jobs
<1>2. /\ NewEntry(p).prev = HeadHash(file)
      /\ \A i \in 1..Len(file) : file[i].id # NewEntry(p).id
  BY DEF LInv, WriterOK, NewEntry
<1>3. Chained(Append(file, NewEntry(p)))
  BY <1>1, <1>2, AppendChained DEF TypeOK, LInv
<1>4. p \in lock.ex
  BY DEF LInv, LockOK
<1> QED BY <1>1, <1>3, <1>4 DEF WriteEndsEarly, Extends, LInv

LEMMA InitKept == Init => LInv
<1> SUFFICES ASSUME Init PROVE LInv
    OBVIOUS
<1>1. \A p \in Procs : job[p].pc = "idle" /\ job[p].result # "read"
  BY IdleSound DEF Init, Results
<1>2. Chained(file) /\ Exclusive /\ ToldOK
  BY DEF Init, Chained, Exclusive, ToldOK
<1>3. \A p \in Procs : LockOK(p) /\ WriterOK(p) /\ ReadOK(p)
  BY <1>1 DEF Init, LockOK, WriterOK, ReadOK
<1> QED BY <1>2, <1>3 DEF LInv

LEMMA AppendStepKept == ASSUME TypeOK, LInv, NEW p \in Procs, AppendStep(p) PROVE LInv'
<1>0. Sound(job[p]) /\ Chained(file) /\ ToldOK /\ Exclusive /\ LockOK(p) /\ WriterOK(p) /\ ReadOK(p)
  BY DEF TypeOK, Sound, LInv
<1>a. "failed" \in Results \ {"read"} /\ "appended" \in Results \ {"read"}
  BY DEF Results
<1>b. ASSUME UNCHANGED <<file, synced, told>> PROVE Extends /\ Chained(file') /\ ToldOK'
  BY <1>0, <1>b, ToldKept DEF Extends
<1>1. CASE OpenLedger(p)
  <2>1. CASE Return(p, "failed")
    BY <1>1, <1>a, <1>b, <2>1, ReturnKeeps DEF OpenLedger
  <2>2. CASE Goto(p, "lock") /\ UNCHANGED lock
    <3>1. job'[p] = [job[p] EXCEPT !.pc = "lock"]
      BY <2>2 DEF TypeOK, Goto, Become
    <3>2. job'[p].pc = "lock" /\ job'[p].result = job[p].result /\ job'[p].got = job[p].got
      BY <1>0, <3>1 DEF Sound, Jobs
    <3>3. Exclusive' /\ LockOK(p)' /\ WriterOK(p)' /\ ReadOK(p)'
      BY <1>0, <1>1, <2>2, <3>2 DEF OpenLedger, Exclusive, LockOK, WriterOK, ReadOK
    <3> QED BY <1>1, <1>b, <2>2, <3>3, StepKeeps DEF OpenLedger, Goto
  <2> QED BY <1>1, <2>1, <2>2 DEF OpenLedger
<1>2. CASE LockExclusive(p)
  <2>1. job'[p] = [job[p] EXCEPT !.pc = "check"]
    BY <1>2 DEF TypeOK, LockExclusive, Goto, Become
  <2>2. job'[p].pc = "check" /\ job'[p].result = job[p].result /\ job'[p].got = job[p].got
    BY <1>0, <2>1 DEF Sound, Jobs
  <2>3. lock'.ex = {p} /\ lock'.sh = {} /\ lock.ex = {} /\ lock.sh = {}
    BY <1>2 DEF TypeOK, LockExclusive
  <2>4. Exclusive' /\ LockOK(p)' /\ WriterOK(p)' /\ ReadOK(p)'
    BY <1>0, <1>2, <2>2, <2>3 DEF LockExclusive, Exclusive, LockOK, WriterOK, ReadOK
  <2> QED BY <1>2, <1>b, <2>3, <2>4, StepKeeps DEF LockExclusive, Goto
<1>3. CASE CheckAndChain(p)
  <2> DEFINE j == [job[p] EXCEPT !.pc = "write", !.prev = HeadHash(file)]
  <2>1. job'[p] = j
    BY <1>3 DEF TypeOK, CheckAndChain, Become
  <2>2. /\ job'[p].pc = "write" /\ job'[p].prev = HeadHash(file) /\ job'[p].id = job[p].id
        /\ job'[p].result = job[p].result /\ job'[p].got = job[p].got
    BY <1>0, <2>1 DEF Sound, Jobs
  <2>3. WriterOK(p)'
    BY <1>3, <2>2 DEF CheckAndChain, Parses, WriterOK
  <2>4. Exclusive' /\ LockOK(p)' /\ ReadOK(p)'
    BY <1>0, <1>3, <2>2 DEF CheckAndChain, Exclusive, LockOK, ReadOK
  <2> QED BY <1>3, <1>b, <2>3, <2>4, StepKeeps DEF CheckAndChain
<1>4. CASE CheckRefuses(p)
  BY <1>4, <1>a, <1>b, ReturnKeeps DEF CheckRefuses
<1>5. CASE WriteLine(p)
  <2>1. Extends /\ Chained(file') /\ p \in lock.ex
    BY <1>5, WriteEndsChained DEF WriteLine, WriteEndsEarly
  <2>2. job'[p] = [job[p] EXCEPT !.pc = "fsync"]
    BY <1>5 DEF TypeOK, WriteLine, Goto, Become
  <2>3. /\ job'[p].pc = "fsync" /\ job'[p].id = job[p].id
        /\ job'[p].result = job[p].result /\ job'[p].got = job[p].got
    BY <1>0, <2>2 DEF Sound, Jobs
  <2>4. WriterOK(p)'
    <3>1. NewEntry(p) \in Entries /\ NewEntry(p).id = job[p].id /\ file \in Seq(Entries)
      BY <1>5 DEF TypeOK, NewEntry, Entries, Appending, Jobs, WriteLine
    <3>2. Len(file') = Len(file) + 1 /\ file'[Len(file) + 1] = NewEntry(p) /\ Len(file) \in Nat
      BY <1>5, <3>1, AppendFacts DEF WriteLine
    <3> QED BY <2>3, <3>1, <3>2 DEF WriterOK
  <2>5. ReadOK(p)'
    <3> SUFFICES ASSUME job[p].result = "read" PROVE IsPrefix(job[p].got, IdsOf(file'))
      BY <2>3 DEF ReadOK
    <3>1. job[p].got \in Seq(Ids) /\ IsPrefix(job[p].got, IdsOf(file))
      BY <1>0 DEF Sound, Jobs, ReadOK
    <3> QED BY <2>1, <3>1, ExtendsFacts, PrefixStays
  <2>6. Exclusive' /\ LockOK(p)' /\ ToldOK'
    BY <1>0, <1>5, <2>1, <2>3, ToldKept DEF WriteLine, Exclusive, LockOK
  <2> QED BY <1>5, <2>1, <2>4, <2>5, <2>6, StepKeeps DEF WriteLine, Goto
<1>6. CASE WriteFails(p)
  <2>1. Extends /\ Chained(file') /\ p \in lock.ex
    BY <1>6, WriteEndsChained DEF WriteFails
  <2> QED BY <1>0, <1>6, <1>a, <2>1, ToldKept, ReturnKeeps DEF WriteFails
<1>7. CASE SyncLedger(p)
  <2>1. Len(file) # 0 /\ file[Len(file)].id = job[p].id /\ Len(file) \in Nat
    BY <1>0, <1>7 DEF SyncLedger, WriterOK, TypeOK
  <2>2. \A i \in 1..synced : i \in 1..Len(file)
    BY DEF TypeOK
  <2>3. Len(file) \in 1..Len(file)
    BY <2>1
  <2>4. ToldOK'
    BY <1>0, <1>7, <2>1, <2>2, <2>3 DEF SyncLedger, ToldOK
  <2> QED BY <1>0, <1>7, <1>a, <2>4, ReturnKeeps DEF SyncLedger, Extends
<1>8. CASE SyncFails(p)
  BY <1>8, <1>a, <1>b, ReturnKeeps DEF SyncFails
<1> QED
  BY <1>1, <1>2, <1>3, <1>4, <1>5, <1>6, <1>7, <1>8 DEF AppendStep

LEMMA ReadStepKept == ASSUME TypeOK, LInv, NEW p \in Procs, ReadStep(p) PROVE LInv'
<1>0. Sound(job[p]) /\ Chained(file) /\ ToldOK /\ Exclusive /\ LockOK(p) /\ WriterOK(p) /\ ReadOK(p)
  BY DEF TypeOK, Sound, LInv
<1>b. ASSUME UNCHANGED <<file, synced, told>> PROVE Extends /\ Chained(file') /\ ToldOK'
  BY <1>0, <1>b, ToldKept DEF Extends
<1>1. CASE LockShared(p)
  <2>1. job'[p] = [job[p] EXCEPT !.pc = "read"]
    BY <1>1 DEF TypeOK, LockShared, Goto, Become
  <2>2. job'[p].pc = "read" /\ job'[p].result = job[p].result /\ job'[p].got = job[p].got
    BY <1>0, <2>1 DEF Sound, Jobs
  <2>3. lock'.ex = {} /\ lock'.sh = lock.sh \cup {p} /\ lock.ex = {}
    BY <1>1 DEF TypeOK, LockShared
  <2>4. Exclusive' /\ LockOK(p)' /\ WriterOK(p)' /\ ReadOK(p)'
    BY <1>0, <1>1, <2>2, <2>3 DEF LockShared, Exclusive, LockOK, WriterOK, ReadOK
  <2>5. lock'.ex \ {p} = lock.ex \ {p} /\ lock'.sh \ {p} = lock.sh \ {p}
    BY <2>3
  <2> QED BY <1>1, <1>b, <2>4, <2>5, StepKeeps DEF LockShared, Goto
<1>2. CASE ReadFails(p)
  <2>1. "failed" \in Results \ {"read"}
    BY DEF Results
  <2> QED BY <1>2, <1>b, <2>1, ReturnKeeps DEF ReadFails
<1>3. CASE ReadAll(p)
  <2> DEFINE j == IF Parses THEN [Idle("read") EXCEPT !.got = IdsOf(file)] ELSE Idle("failed")
  <2>1. job'[p] = j /\ UNCHANGED <<file, torn, synced, told>>
    BY <1>3 DEF TypeOK, ReadAll, Become
  <2>2. lock'.ex = lock.ex \ {p} /\ lock'.sh = lock.sh \ {p}
    BY <1>3, ReleaseTyped DEF ReadAll
  <2>3. j.pc = "idle" /\ (j.result = "read" => j.got = IdsOf(file))
    BY IdleSound, Zenon DEF Idle, Results
  <2>4. ReadOK(p)'
    <3>1. file \in Seq(Entries) /\ IdsOf(file) \in Seq(Ids)
      BY IdsOfTyped DEF TypeOK
    <3>2. IsPrefix(IdsOf(file), IdsOf(file))
      BY <3>1 DEF IsPrefix
    <3> QED BY <2>1, <2>3, <3>2 DEF ReadOK
  <2>5. Exclusive' /\ LockOK(p)' /\ WriterOK(p)'
    BY <1>0, <2>1, <2>2, <2>3 DEF Exclusive, LockOK, WriterOK
  <2>6. lock'.ex \ {p} = lock.ex \ {p} /\ lock'.sh \ {p} = lock.sh \ {p}
    BY <2>2
  <2> QED BY <1>3, <1>b, <2>1, <2>4, <2>5, <2>6, StepKeeps DEF ReadAll
<1> QED BY <1>1, <1>2, <1>3 DEF ReadStep

LEMMA NextKept == ASSUME TypeOK, LInv, [Next]_vars PROVE LInv'
<1>1. ASSUME NEW p \in Procs, NEW j, j.pc \in {"open", "rlock"}, j.result = "none", Become(p, j),
             job[p].pc = "idle", UNCHANGED <<file, torn, synced, lock, told>>
      PROVE  LInv'
  <2>1. job'[p] = j
    BY <1>1 DEF TypeOK, Become
  <2>2. Exclusive' /\ LockOK(p)' /\ WriterOK(p)' /\ ReadOK(p)'
    BY <1>1, <2>1 DEF LInv, Exclusive, LockOK, WriterOK, ReadOK
  <2>3. Extends /\ Chained(file') /\ ToldOK'
    BY <1>1, ToldKept DEF Extends, LInv
  <2> QED BY <1>1, <2>2, <2>3, StepKeeps
<1>2. ASSUME NEW p \in Procs, NEW d \in Ids, StartAppend(p, d) PROVE LInv'
  <2> DEFINE j == [Idle("none") EXCEPT !.pc = "open", !.id = d]
  <2>1. j.pc \in {"open", "rlock"} /\ j.result = "none"
    BY DEF Idle
  <2>2. Become(p, j) /\ job[p].pc = "idle" /\ UNCHANGED <<file, torn, synced, lock, told>>
    BY <1>2 DEF StartAppend
  <2> HIDE DEF j
  <2> QED BY <1>1, <2>1, <2>2
<1>3. ASSUME NEW p \in Procs, StartRead(p) PROVE LInv'
  <2> DEFINE j == [Idle("none") EXCEPT !.pc = "rlock"]
  <2>1. j.pc \in {"open", "rlock"} /\ j.result = "none"
    BY DEF Idle
  <2>2. Become(p, j) /\ job[p].pc = "idle" /\ UNCHANGED <<file, torn, synced, lock, told>>
    BY <1>3 DEF StartRead
  <2> HIDE DEF j
  <2> QED BY <1>1, <2>1, <2>2
<1>4. ASSUME NEW p \in Procs, Kill(p) PROVE LInv'
  <2>1. Extends /\ Chained(file') /\ (UNCHANGED <<file, torn>> \/ p \in lock.ex)
    BY <1>4, WriteEndsChained DEF Kill, Extends, LInv
  <2>2. ToldOK' /\ "none" \in Results \ {"read"}
    BY <1>4, <2>1, ToldKept DEF Kill, LInv, Results
  <2> QED BY <1>4, <2>1, <2>2, ReturnKeeps DEF Kill
<1>5. CASE PowerFailure
  <2>1. PICK n \in synced..Len(file) : file' = SubSeq(file, 1, n) /\ synced' = n
    BY <1>5 DEF PowerFailure
  <2>2. n \in 0..Len(file) /\ file \in Seq(Entries) /\ \A i \in 1..synced : i \in 1..n
    BY DEF TypeOK
  <2>3. Chained(file')
    BY <2>1, <2>2, PrefixChained DEF LInv
  <2>4. ToldOK'
    BY <1>5, <2>1, <2>2, PrefixFacts DEF LInv, ToldOK, PowerFailure
  <2>5. \A p \in Procs : job'[p].pc = "idle" /\ job'[p].result # "read"
    BY <1>5, IdleSound DEF PowerFailure, Results
  <2>6. lock'.ex = {} /\ lock'.sh = {}
    BY <1>5 DEF PowerFailure
  <2>7. \A p \in Procs : LockOK(p)' /\ WriterOK(p)' /\ ReadOK(p)'
    BY <2>5, <2>6 DEF LockOK, WriterOK, ReadOK
  <2>8. Exclusive'
    BY <2>6 DEF Exclusive
  <2> QED BY <2>3, <2>4, <2>7, <2>8 DEF LInv
<1>6. CASE UNCHANGED vars
  <2>1. /\ UNCHANGED <<file, torn, synced, lock, job, told>>
    BY <1>6 DEF vars
  <2>2. \A p \in Procs : LockOK(p)' /\ WriterOK(p)' /\ ReadOK(p)'
    BY <2>1 DEF LInv, LockOK, WriterOK, ReadOK
  <2> QED BY <2>1, <2>2 DEF LInv, Exclusive, ToldOK
<1> QED
  BY <1>2, <1>3, <1>4, <1>5, <1>6, AppendStepKept, ReadStepKept DEF Next

LEMMA InvariantKept == Spec => [](TypeOK /\ LInv)
BY InitTyped, NextTyped, InitKept, NextKept, PTL DEF Spec

(* The lines of the ledger chain, with no id twice, whatever appenders     *)
(* run concurrently, fail or die, for any number of them.                  *)
THEOREM LinesChain == Spec => []ChainIntact
<1>1. LInv => ChainIntact
  BY DEF LInv, ChainIntact
<1> QED BY <1>1, InvariantKept, PTL

(* An entry whose append returned is in the ledger after any number of     *)
(* power failures.                                                         *)
THEOREM AppendsSurvive == Spec => []AppendedSurvives
<1>1. TypeOK /\ LInv => AppendedSurvives
  BY DEF TypeOK, LInv, ToldOK, AppendedSurvives
<1> QED BY <1>1, InvariantKept, PTL

(* What read_all returned stays a prefix of the ledger.                    *)
THEOREM ReadsStay == Spec => []ReadsAreStable
<1>1. LInv => ReadsAreStable
  BY DEF LInv, ReadOK, ReadsAreStable
<1> QED BY <1>1, InvariantKept, PTL

----------------------------------------------------------------------------
(* The ledger implements an append-only log                                *)

LEMMA IdsOfAppend ==
    ASSUME NEW f \in Seq(Entries), NEW e \in Entries
    PROVE  IdsOf(Append(f, e)) = Append(IdsOf(f), e.id)
<1>1. /\ Append(f, e) \in Seq(Entries) /\ Len(Append(f, e)) = Len(f) + 1 /\ Len(f) \in Nat
      /\ Append(f, e)[Len(f) + 1] = e /\ \A i \in 1..Len(f) : Append(f, e)[i] = f[i]
  BY AppendFacts
<1>2. e.id \in Ids
  BY DEF Entries
<1>3. /\ IdsOf(f) \in Seq(Ids) /\ Len(IdsOf(f)) = Len(f)
      /\ \A i \in 1..Len(f) : IdsOf(f)[i] = f[i].id
  BY IdsOfTyped
<1>4. /\ IdsOf(Append(f, e)) \in Seq(Ids) /\ Len(IdsOf(Append(f, e))) = Len(f) + 1
      /\ \A i \in 1..(Len(f) + 1) : IdsOf(Append(f, e))[i] = Append(f, e)[i].id
  BY <1>1, IdsOfTyped
<1>5. /\ Append(IdsOf(f), e.id) \in Seq(Ids) /\ Len(Append(IdsOf(f), e.id)) = Len(f) + 1
      /\ Append(IdsOf(f), e.id)[Len(f) + 1] = e.id
      /\ \A i \in 1..Len(f) : Append(IdsOf(f), e.id)[i] = f[i].id
  BY <1>2, <1>3, AppendFacts
<1>6. \A i \in 1..(Len(f) + 1) : IdsOf(Append(f, e))[i] = Append(IdsOf(f), e.id)[i]
  BY <1>1, <1>4, <1>5
<1> QED BY <1>4, <1>5, <1>6, SeqEqual

LEMMA IdsOfPrefix ==
    ASSUME NEW f \in Seq(Entries), NEW n \in 0..Len(f)
    PROVE  IdsOf(SubSeq(f, 1, n)) = SubSeq(IdsOf(f), 1, n)
<1>1. /\ SubSeq(f, 1, n) \in Seq(Entries) /\ Len(SubSeq(f, 1, n)) = n
      /\ \A i \in 1..n : SubSeq(f, 1, n)[i] = f[i]
  BY PrefixFacts
<1>2. /\ IdsOf(f) \in Seq(Ids) /\ Len(IdsOf(f)) = Len(f)
      /\ \A i \in 1..Len(f) : IdsOf(f)[i] = f[i].id
  BY IdsOfTyped
<1>3. /\ IdsOf(SubSeq(f, 1, n)) \in Seq(Ids) /\ Len(IdsOf(SubSeq(f, 1, n))) = n
      /\ \A i \in 1..n : IdsOf(SubSeq(f, 1, n))[i] = SubSeq(f, 1, n)[i].id
  BY <1>1, IdsOfTyped
<1>4. /\ SubSeq(IdsOf(f), 1, n) \in Seq(Ids) /\ Len(SubSeq(IdsOf(f), 1, n)) = n
      /\ \A i \in 1..n : SubSeq(IdsOf(f), 1, n)[i] = IdsOf(f)[i]
  BY <1>2, PrefixFacts
<1>5. \A i \in 1..n : i \in 1..Len(f)
  OBVIOUS
<1>6. \A i \in 1..n : IdsOf(SubSeq(f, 1, n))[i] = SubSeq(IdsOf(f), 1, n)[i]
  BY <1>1, <1>2, <1>3, <1>4, <1>5
<1> QED BY <1>3, <1>4, <1>6, SeqEqual

LEMMA IdsInFile ==
    ASSUME NEW f \in Seq(Entries)
    PROVE  L!IdsIn(IdsOf(f)) = {f[i].id : i \in 1..Len(f)}
<1>1. Len(IdsOf(f)) = Len(f) /\ \A i \in 1..Len(f) : IdsOf(f)[i] = f[i].id
  BY IdsOfTyped
<1> QED BY <1>1 DEF L!IdsIn

LEMMA InitImplements == Init => L!Init
<1> SUFFICES ASSUME Init PROVE L!Init
    OBVIOUS
<1>1. <<>> \in Seq(Entries) /\ <<>> \in Seq(Ids) /\ Len(<<>>) = 0
  OBVIOUS
<1>2. IdsOf(<<>>) \in Seq(Ids) /\ Len(IdsOf(<<>>)) = 0
  BY <1>1, IdsOfTyped
<1>3. IdsOf(<<>>) = <<>>
  BY <1>2
<1> QED BY <1>3 DEF Init, L!Init

LEMMA StepImplements == ASSUME TypeOK, LInv, [Next]_vars PROVE [L!Next]_(L!vars)
<1>0. file \in Seq(Entries)
  BY DEF TypeOK
<1>1. ASSUME UNCHANGED <<file, torn, told>> PROVE UNCHANGED L!vars
  BY <1>1 DEF L!vars
<1>2. ASSUME NEW p \in Procs, job[p].pc = "write", WriteEndsEarly(p), UNCHANGED told
      PROVE  [L!Next]_(L!vars)
  <2>1. CASE UNCHANGED <<file, torn>>
    BY <1>1, <1>2, <2>1
  <2>2. CASE torn' = TRUE /\ UNCHANGED file
    <3>1. L!CutShort
      BY <1>2, <2>2 DEF L!CutShort
    <3> QED BY <3>1 DEF L!Next
  <2>3. CASE file' = Append(file, NewEntry(p)) /\ UNCHANGED torn
    <3>1. NewEntry(p) \in Entries /\ NewEntry(p).id = job[p].id /\ job[p].id \in Ids
      BY <1>2 DEF TypeOK, NewEntry, Entries, Appending, Jobs
    <3>2. ~torn /\ \A i \in 1..Len(file) : file[i].id # job[p].id
      BY <1>2 DEF LInv, WriterOK
    <3>3. job[p].id \notin L!IdsIn(IdsOf(file))
      BY <1>0, <3>2, IdsInFile
    <3>4. IdsOf(file') = Append(IdsOf(file), job[p].id)
      BY <1>0, <2>3, <3>1, IdsOfAppend
    <3>5. L!AppendEntry(job[p].id)
      BY <1>2, <2>3, <3>2, <3>3, <3>4 DEF L!AppendEntry
    <3> QED BY <3>1, <3>5 DEF L!Next
  <2> QED BY <1>2, <2>1, <2>2, <2>3 DEF WriteEndsEarly
<1>3. ASSUME NEW p \in Procs, AppendStep(p) PROVE [L!Next]_(L!vars)
  <2>1. CASE WriteLine(p)
    BY <1>2, <2>1 DEF WriteLine, WriteEndsEarly
  <2>2. CASE WriteFails(p)
    BY <1>2, <2>2 DEF WriteFails
  <2>3. CASE SyncLedger(p)
    <3>1. job[p].id \in Ids /\ Len(file) # 0 /\ file[Len(file)].id = job[p].id
      BY <2>3 DEF SyncLedger, TypeOK, Appending, LInv, WriterOK
    <3>2. Len(file) \in 1..Len(file)
      BY <1>0, <3>1
    <3>3. job[p].id \in L!IdsIn(IdsOf(file))
      BY <1>0, <3>1, <3>2, IdsInFile
    <3>4. L!Acknowledge(job[p].id)
      BY <2>3, <3>3 DEF SyncLedger, L!Acknowledge
    <3> QED BY <3>1, <3>4 DEF L!Next
  <2>4. CASE OpenLedger(p) \/ LockExclusive(p) \/ CheckAndChain(p) \/ CheckRefuses(p) \/ SyncFails(p)
    BY <1>1, <2>4 DEF OpenLedger, LockExclusive, CheckAndChain, CheckRefuses, SyncFails
  <2> QED BY <1>3, <2>1, <2>2, <2>3, <2>4 DEF AppendStep
<1>4. ASSUME NEW p \in Procs, ReadStep(p) PROVE [L!Next]_(L!vars)
  BY <1>1, <1>4 DEF ReadStep, LockShared, ReadFails, ReadAll
<1>5. ASSUME NEW p \in Procs, Kill(p) PROVE [L!Next]_(L!vars)
  BY <1>1, <1>2, <1>5 DEF Kill
<1>6. CASE PowerFailure
  <2>1. PICK n \in synced..Len(file) :
            /\ file' = SubSeq(file, 1, n) /\ torn' \in {FALSE, torn \/ n < Len(file)}
            /\ synced' = n
    BY <1>6 DEF PowerFailure
  <2>2. n \in 0..Len(file) /\ n \in 0..Len(IdsOf(file)) /\ \A i \in 1..synced : i \in 1..n
    BY <1>0, IdsOfTyped DEF TypeOK
  <2>3. IdsOf(file') = SubSeq(IdsOf(file), 1, n)
    BY <1>0, <2>1, <2>2, IdsOfPrefix
  <2>4. torn' \in BOOLEAN
    BY <2>1 DEF TypeOK
  <2>5. told \subseteq L!IdsIn(IdsOf(file'))
    <3>1. /\ file' \in Seq(Entries) /\ Len(file') = n
          /\ \A i \in 1..n : file'[i] = file[i]
      BY <1>0, <2>1, <2>2, PrefixFacts
    <3>2. told \subseteq {file'[i].id : i \in 1..Len(file')}
      BY <2>2, <3>1 DEF LInv, ToldOK
    <3> QED BY <3>1, <3>2, IdsInFile
  <2>6. L!Lose(n)
    BY <1>6, <2>3, <2>4, <2>5 DEF PowerFailure, L!Lose
  <2> QED BY <2>2, <2>6 DEF L!Next
<1>7. CASE UNCHANGED vars
  BY <1>1, <1>7 DEF vars
<1>8. ASSUME NEW p \in Procs, (\E d \in Ids : StartAppend(p, d)) \/ StartRead(p)
      PROVE  [L!Next]_(L!vars)
  BY <1>1, <1>8 DEF StartAppend, StartRead
<1> QED
  BY <1>3, <1>4, <1>5, <1>6, <1>7, <1>8 DEF Next

(* The ledger file is an append-only log: entries are only added at its    *)
(* end, an acknowledged one is never lost, a torn one closes it.           *)
THEOREM Refinement == Spec => AppendOnlyLogSpec
BY InitImplements, StepImplements, InvariantKept, PTL DEF Spec, L!Spec, AppendOnlyLogSpec

=============================================================================
