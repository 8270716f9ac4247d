---------------------------- MODULE BackupProofs -----------------------------
(***************************************************************************)
(* Proofs about Backup: type correctness, that the last completed backup   *)
(* is kept, and that the schedule of daily and weekly files is kept.       *)
(***************************************************************************)
EXTENDS Backup, FiniteSetTheorems, TLAPS

-----------------------------------------------------------------------------
(* Finite sets.                                                            *)

\* Inclusion is well founded on the subsets of a finite set.
LEMMA MinimalSet ==
    ASSUME NEW S, IsFiniteSet(S), NEW I \in SUBSET (SUBSET S), I # {}
    PROVE  \E U \in I : \A V \in I : V \subseteq U => V = U
<1>1. I \subseteq FiniteSubsetsOf(S)
  BY FS_FiniteSubsetsOfFinite
<1>2. PICK U \in I : \A V \in I : ~ (<<V, U>> \in StrictSubsetOrdering(S))
  BY <1>1, FS_StrictSubsetOrderingWellFounded, WFMin
<1>3. ASSUME NEW V \in I, V \subseteq U
      PROVE  V = U
  <2>1. V # U => <<V, U>> \in StrictSubsetOrdering(S)
    BY <1>3, Zenon DEF StrictSubsetOrdering
  <2> QED
    BY <1>2, <2>1
<1> QED
  BY <1>3

\* Max is what it is named for.
LEMMA LargestNumber ==
    ASSUME NEW S, \A x \in S : x \in Nat, IsFiniteSet(S), S # {}
    PROVE  Max(S) \in S /\ \A x \in S : x <= Max(S)
<1> DEFINE above(x) == {y \in S : y > x}
           I == {above(x) : x \in S}
<1>0. I \in SUBSET (SUBSET S) /\ I # {}
  OBVIOUS
<1>1. PICK U \in I : \A V \in I : V \subseteq U => V = U
  <2> HIDE DEF I
  <2> QED
    BY <1>0, MinimalSet
<1>2. PICK x \in S : U = above(x)
  OBVIOUS
<1>3. ASSUME NEW y \in S, y > x
      PROVE  FALSE
  <2>1. above(y) \in I
    OBVIOUS
  <2>3. above(y) \subseteq above(x)
    <3>1. \A z \in S : z \in Nat /\ (z > y => z > x)
      BY <1>3
    <3> QED
      BY <3>1
  <2>2. y \in above(x) /\ y \notin above(y)
    BY <1>3
  <2> QED
    BY <1>1, <1>2, <2>1, <2>2, <2>3
<1>4. \A y \in S : x >= y
  BY <1>3
<1> QED
  BY <1>4 DEF Max

-----------------------------------------------------------------------------
(* The age of files.                                                       *)

\* The files newer than x.
NewerThan(x, fs) == {g \in fs : Newer(g, x)}

Time == [day : Int, nth : Int]

LEMMA NewerOrder ==
    ASSUME NEW f, NEW g, NEW h,
           f.day \in Int, f.nth \in Int, g.day \in Int, g.nth \in Int,
           h.day \in Int, h.nth \in Int
    PROVE  /\ ~ Newer(f, f)
           /\ Newer(f, g) /\ Newer(g, h) => Newer(f, h)
           /\ Newer(f, g) => ~ Newer(g, f)
           /\ Newer(f, g) => ~ (f.day = g.day /\ f.nth = g.nth)
  BY DEF Newer

\* The file that is written now is newer than all others.
LEMMA NowIsNewest ==
    ASSUME day \in 0..LastDay,
           NEW fs \in SUBSET File, IsFiniteSet(fs), \A f \in fs : f.day <= day,
           NEW complete, complete \in BOOLEAN, NEW by \in Jobs \cup {"none"},
           NEW n, n = Now(fs, complete, by)
    PROVE  /\ n \in File
           /\ n.day = day /\ n.complete = complete /\ n.by = by
           /\ \A f \in fs : Newer(n, f)
<1> DEFINE today == {g \in fs : g.day = day}
           nths == {f.nth : f \in today}
<1>1. \A f \in fs : f.day \in Nat /\ f.nth \in Nat
  BY DEF File
<1>2. IsFiniteSet(nths \cup {0})
  <2>1. IsFiniteSet(today)
    BY FS_Subset
  <2>2. [f \in today |-> f.nth] \in Surjection(today, nths)
    BY DEF Surjection
  <2>3. IsFiniteSet(nths)
    BY <2>1, <2>2, FS_Surjection, Zenon
  <2> HIDE DEF nths
  <2> QED
    BY <2>3, FS_AddElement
<1>3. /\ Max(nths \cup {0}) \in Nat
      /\ \A f \in today : f.nth <= Max(nths \cup {0})
  <2>1. nths \cup {0} \in SUBSET Nat
    BY <1>1
  <2>2. nths \cup {0} # {} /\ \A f \in today : f.nth \in nths \cup {0}
    OBVIOUS
  <2> HIDE DEF nths
  <2> QED
    BY <1>2, <2>1, <2>2, LargestNumber
<1>4. n = [day |-> day, complete |-> complete, by |-> by, nth |-> Max(nths \cup {0}) + 1]
  BY DEF Now
<1> HIDE DEF nths
<1>5. n \in File /\ n.day = day /\ n.complete = complete /\ n.by = by
  BY <1>3, <1>4 DEF File
<1>6. ASSUME NEW f \in fs
      PROVE  Newer(n, f)
  <2>1. CASE f.day = day
    <3>1. f \in today /\ f.nth <= Max(nths \cup {0}) /\ f.nth \in Nat
      BY <2>1, <1>1, <1>3
    <3>2. n.nth = Max(nths \cup {0}) + 1
      BY <1>4
    <3> QED
      BY <2>1, <3>1, <3>2, <1>3, <1>5 DEF Newer
  <2>2. CASE f.day # day
    BY <2>2, <1>1, <1>4 DEF Newer
  <2> QED
    BY <2>1, <2>2
<1> QED
  BY <1>5, <1>6

\* If k files are newer than x, then so are k of those with fewer than k newer ones:
\* the oldest of the newest files newer than x would have k newer ones otherwise.
LEMMA NewestAreFew ==
    ASSUME NEW fs \in SUBSET File, IsFiniteSet(fs), NEW k \in Nat,
           NEW x, x.day \in Int, x.nth \in Int,
           Cardinality(NewerThan(x, fs)) >= k
    PROVE  Cardinality({g \in NewerThan(x, fs) : Rank(g, fs) < k}) >= k
<1> DEFINE A == NewerThan(x, fs)
           D == {g \in A : Rank(g, fs) < k}
           I == {NewerThan(g, fs) : g \in A \ D}
<1>1. \A g \in fs : g.day \in Int /\ g.nth \in Int
  BY DEF File
<1>2. A \subseteq fs /\ D \subseteq A
  BY DEF NewerThan
<1>3. IsFiniteSet(A) /\ IsFiniteSet(D)
  BY <1>2, FS_Subset
<1>4. Cardinality(D) \in Nat /\ Cardinality(A) \in Nat
  BY <1>3, FS_CardinalityType
<1> SUFFICES ASSUME Cardinality(D) < k
             PROVE  FALSE
  BY <1>4
<1>5. A \ D # {}
  BY <1>2, <1>4
<1>6. I \in SUBSET (SUBSET fs) /\ I # {}
  BY <1>5 DEF NewerThan
<1>7. PICK g \in A \ D : \A h \in A \ D : NewerThan(h, fs) \subseteq NewerThan(g, fs)
                                            => NewerThan(h, fs) = NewerThan(g, fs)
  <2>1. PICK U \in I : \A V \in I : V \subseteq U => V = U
    <3> HIDE DEF I
    <3> QED
      BY <1>6, MinimalSet
  <2>2. PICK g \in A \ D : U = NewerThan(g, fs)
    OBVIOUS
  <2>3. \A h \in A \ D : NewerThan(h, fs) \in I
    OBVIOUS
  <2> QED
    BY <2>1, <2>2, <2>3
<1>8. ASSUME NEW h \in NewerThan(g, fs)
      PROVE  h \in D
  <2>1. /\ h \in fs /\ Newer(h, g) /\ g \in fs /\ Newer(g, x)
        /\ g.day \in Int /\ g.nth \in Int /\ h.day \in Int /\ h.nth \in Int
    BY <1>1, <1>2, <1>7, <1>8 DEF NewerThan
  <2>2. h \in A
    BY <2>1, NewerOrder DEF NewerThan
  <2>3. NewerThan(h, fs) \subseteq NewerThan(g, fs)
    <3>1. ASSUME NEW e \in fs, Newer(e, h)
          PROVE  Newer(e, g)
      BY <1>1, <2>1, <3>1, NewerOrder
    <3> QED
      BY <3>1 DEF NewerThan
  <2>4. h \notin NewerThan(h, fs)
    BY <2>1, NewerOrder DEF NewerThan
  <2> QED
    BY <1>7, <1>8, <2>2, <2>3, <2>4
<1>9. Cardinality(NewerThan(g, fs)) <= Cardinality(D)
  BY <1>3, <1>8, FS_Subset
<1>10. Rank(g, fs) >= k /\ Rank(g, fs) \in Nat
  <2>1. Rank(g, fs) \in Nat
    <3>1. {h \in fs : Newer(h, g)} \subseteq fs
      OBVIOUS
    <3> QED
      BY <3>1, FS_Subset, FS_CardinalityType DEF Rank
  <2> QED
    BY <1>7, <2>1
<1> QED
  <2>1. Rank(g, fs) = Cardinality(NewerThan(g, fs))
    BY DEF Rank, NewerThan
  <2> HIDE DEF D
  <2> QED
    BY <2>1, <1>4, <1>9, <1>10

-----------------------------------------------------------------------------
(* The directory.                                                          *)

\* No two files are of the same age, and none is from a day to come.
Directory(fs) ==
    /\ fs \subseteq File
    /\ IsFiniteSet(fs)
    /\ \A f, g \in fs : f.day = g.day /\ f.nth = g.nth => f = g
    /\ \A f \in fs : f.day <= day

DirectoryInv == TypeOK /\ Directory(files)

LEMMA InitDirectoryInv == Init => DirectoryInv
<1> SUFFICES ASSUME Init
             PROVE  DirectoryInv
  OBVIOUS
<1>1. TypeOK
  <2>1. 0 \in 0..LastDay /\ 0 \in 0..MaxLost
    BY BackupAssumption
  <2>2. latest \in [day : 0..LastDay, nth : Nat]
    BY <2>1 DEF Init
  <2> QED
    BY <2>1, <2>2 DEF Init, TypeOK
<1>2. Directory(files)
  BY FS_EmptySet DEF Init, Directory
<1> QED
  BY <1>1, <1>2 DEF DirectoryInv

LEMMA SubDirectory ==
    ASSUME NEW fs, Directory(fs), NEW gs \in SUBSET fs
    PROVE  Directory(gs)
<1>1. IsFiniteSet(gs)
  BY FS_Subset DEF Directory
<1> QED
  BY <1>1 DEF Directory

\* A file is written to a directory.
LEMMA AddNow ==
    ASSUME TypeOK, NEW fs, Directory(fs),
           NEW complete, complete \in BOOLEAN, NEW by \in Jobs \cup {"none"},
           NEW n, n = Now(fs, complete, by)
    PROVE  /\ Directory(fs \cup {n})
           /\ n.day = day /\ n.by = by
           /\ \A f \in fs \cup {n} : ~ Newer(f, n)
<1>1. /\ fs \subseteq File /\ day \in 0..LastDay /\ IsFiniteSet(fs)
      /\ \A f, g \in fs : f.day = g.day /\ f.nth = g.nth => f = g
      /\ \A f \in fs : f.day <= day
  BY DEF TypeOK, Directory
<1>2. /\ n \in File
      /\ n.day = day /\ n.by = by
      /\ \A f \in fs : Newer(n, f)
  BY <1>1, NowIsNewest
<1>3. \A f \in fs \cup {n} : f.day \in Int /\ f.nth \in Int
  BY <1>1, <1>2 DEF File
<1>4. /\ \A f \in fs : ~ Newer(f, n) /\ ~ (f.day = n.day /\ f.nth = n.nth)
      /\ ~ Newer(n, n)
  BY <1>2, <1>3, NewerOrder
<1>5. IsFiniteSet(fs \cup {n})
  BY <1>1, FS_AddElement
<1>6. day \in Int
  BY <1>1
<1>7. Directory(fs \cup {n})
  BY <1>1, <1>2, <1>4, <1>5, <1>6 DEF Directory
<1> QED
  BY <1>2, <1>4, <1>7

\* The directory before it is pruned.
LEMMA CompleteDirectory ==
    ASSUME DirectoryInv, NEW j \in Jobs, Own(j) # {},
           NEW n, n = Now(files \ Own(j), TRUE, "none")
    PROVE  /\ Complete(j) = (files \ Own(j)) \cup {n}
           /\ Directory(Complete(j))
           /\ n.day = day /\ n.complete /\ n.by = "none"
           /\ \A f \in Complete(j) : ~ Newer(f, n)
<1> DEFINE rest == files \ Own(j)
           complete == TRUE
<1>1. Complete(j) = rest \cup {n}
  BY DEF Complete
<1>2. Directory(rest)
  BY SubDirectory DEF DirectoryInv
<1>3. n = Now(rest, complete, "none") /\ complete \in BOOLEAN
  OBVIOUS
<1>4. n.complete
  BY DEF Now
<1> HIDE DEF rest, complete
<1>5. /\ Directory(rest \cup {n})
      /\ n.day = day /\ n.by = "none"
      /\ \A f \in rest \cup {n} : ~ Newer(f, n)
  BY <1>2, <1>3, AddNow DEF DirectoryInv
<1> QED
  BY <1>1, <1>4, <1>5 DEF rest

\* The files as a job leaves them when it does not get to its end: the same, but
\* for who writes them.
LEMMA AbandonedDirectory ==
    ASSUME DirectoryInv, NEW j \in Jobs
    PROVE  /\ Directory(Abandoned(j))
           /\ \A f \in files : \E g \in Abandoned(j) :
                 g.day = f.day /\ g.nth = f.nth /\ g.complete = f.complete
           /\ \A g \in Abandoned(j) : \E f \in files :
                 /\ g.day = f.day /\ g.nth = f.nth
                 /\ g.by = IF f.by = j THEN "none" ELSE f.by
<1> DEFINE left == [f \in files |->
                      [day |-> f.day, nth |-> f.nth, complete |-> f.complete,
                       by |-> IF f.by = j THEN "none" ELSE f.by]]
<1>1. /\ files \subseteq File /\ IsFiniteSet(files)
      /\ \A f, g \in files : f.day = g.day /\ f.nth = g.nth => f = g
      /\ \A f \in files : f.day <= day
  BY DEF DirectoryInv, Directory
<1>2. \A f \in files : /\ left[f] \in File
                       /\ left[f].day = f.day /\ left[f].nth = f.nth
                       /\ left[f].complete = f.complete
                       /\ left[f].by = IF f.by = j THEN "none" ELSE f.by
  BY <1>1 DEF File
<1>3. /\ \A f \in files : left[f] \in Abandoned(j)
      /\ \A g \in Abandoned(j) : \E f \in files : g = left[f]
  BY DEF Abandoned
<1>4. left \in [files -> Abandoned(j)]
  BY DEF Abandoned
<1> HIDE DEF left
<1>5. left \in Surjection(files, Abandoned(j))
  BY <1>3, <1>4 DEF Surjection
<1>6. IsFiniteSet(Abandoned(j))
  BY <1>1, <1>5, FS_Surjection, Zenon
<1>7. ASSUME NEW f \in Abandoned(j), NEW g \in Abandoned(j), f.day = g.day, f.nth = g.nth
      PROVE  f = g
  BY <1>1, <1>2, <1>3, <1>7
<1>8. Directory(Abandoned(j))
  BY <1>1, <1>2, <1>3, <1>6, <1>7 DEF Directory
<1> QED
  BY <1>2, <1>3, <1>8

LEMMA DirectoryStep == DirectoryInv /\ [Next]_vars => DirectoryInv'
<1> SUFFICES ASSUME DirectoryInv, [Next]_vars
             PROVE  DirectoryInv'
  OBVIOUS
<1> USE BackupAssumption
<1>t. TypeOK /\ Directory(files)
  BY DEF DirectoryInv
<1>1. CASE NextDay
  <2>1. TypeOK'
    BY <1>1, <1>t DEF NextDay, TypeOK
  <2>2. \A f \in files : f.day \in Int /\ day \in Int
    BY <1>t DEF TypeOK, File
  <2>3. Directory(files)'
    BY <1>1, <1>t, <2>2 DEF NextDay, Directory
  <2> QED
    BY <2>1, <2>3 DEF DirectoryInv
<1>2. ASSUME NEW j \in Jobs, Start(j)
      PROVE  DirectoryInv'
  <2>1. TypeOK'
    BY <1>2, <1>t DEF Start, TypeOK
  <2>2. Directory(files)'
    BY <1>2, <1>t DEF Start, Directory
  <2> QED
    BY <2>1, <2>2 DEF DirectoryInv
<1>3. ASSUME NEW j \in Jobs, Write(j)
      PROVE  DirectoryInv'
  <2> DEFINE complete == FALSE
             n == Now(files, complete, j)
  <2>1. files' = files \cup {n} /\ UNCHANGED day
    BY <1>3 DEF Write
  <2>2. complete \in BOOLEAN
    OBVIOUS
  <2> HIDE DEF complete
  <2>3. Directory(files \cup {n})
    BY <1>t, <2>2, AddNow
  <2> HIDE DEF n
  <2>4. Directory(files)'
    BY <2>1, <2>3 DEF Directory
  <2>5. TypeOK'
    BY <1>3, <1>t, <2>1, <2>3 DEF Write, TypeOK, Directory
  <2> QED
    BY <2>4, <2>5 DEF DirectoryInv
<1>4. ASSUME NEW j \in Jobs, Finish(j)
      PROVE  DirectoryInv'
  <2>1. files' \in SUBSET Complete(j) /\ UNCHANGED day
    BY <1>4 DEF Finish
  <2>2. /\ Directory(Complete(j))
        /\ latest' \in [day : 0..LastDay, nth : Nat]
    <3>1. CASE Own(j) = {}
      <4>1. Complete(j) = files /\ UNCHANGED latest
        BY <1>4, <3>1 DEF Finish, Complete
      <4> QED
        BY <1>t, <4>1 DEF TypeOK
    <3>2. CASE Own(j) # {}
      <4>1. PICK n : n = Now(files \ Own(j), TRUE, "none")
        OBVIOUS
      <4>2. /\ Complete(j) = (files \ Own(j)) \cup {n}
            /\ Directory(Complete(j))
        BY <3>2, <4>1, CompleteDirectory
      <4>3. n \in File
        BY <4>2 DEF Directory
      <4>4. latest' = [day |-> n.day, nth |-> n.nth]
        BY <1>4, <3>2, <4>1 DEF Finish
      <4> QED
        BY <4>2, <4>3, <4>4 DEF File
    <3> QED
      BY <3>1, <3>2
  <2>3. Directory(files')
    BY <2>1, <2>2, SubDirectory
  <2>4. Directory(files)'
    BY <2>1, <2>3 DEF Directory
  <2>5. TypeOK'
    BY <1>4, <1>t, <2>1, <2>2, <2>3 DEF Finish, TypeOK, Directory
  <2> QED
    BY <2>4, <2>5 DEF DirectoryInv
<1>5. ASSUME NEW j \in Jobs, Raise(j) \/ Lose(j)
      PROVE  DirectoryInv'
  <2>1. files' = Abandoned(j) /\ UNCHANGED day
    BY <1>5 DEF Raise, Lose
  <2>2. Directory(Abandoned(j))
    BY AbandonedDirectory
  <2>3. Directory(files)'
    BY <2>1, <2>2 DEF Directory
  <2>4. TypeOK'
    <3>1. CASE Raise(j)
      BY <3>1, <1>t, <2>1, <2>2 DEF Raise, TypeOK, Directory
    <3>2. CASE Lose(j)
      BY <3>2, <1>t, <2>1, <2>2 DEF Lose, TypeOK, Directory
    <3> QED
      BY <1>5, <3>1, <3>2
  <2> QED
    BY <2>3, <2>4 DEF DirectoryInv
<1>6. CASE UNCHANGED vars
  BY <1>6, <1>t DEF vars, TypeOK, DirectoryInv, Directory
<1> QED
  BY <1>1, <1>2, <1>3, <1>4, <1>5, <1>6 DEF Next

\* The state of the backups has its type: in particular the files of a day, of which
\* there may be any number, are numbered (backup.py:107-153).
THEOREM TypeCorrect == Spec => []TypeOK
<1>1. DirectoryInv => TypeOK
  BY DEF DirectoryInv
<1> QED
  BY <1>1, InitDirectoryInv, DirectoryStep, PTL DEF Spec

-----------------------------------------------------------------------------
(* The last completed backup.                                              *)

\* Pruning leaves the newest KeepDaily files.
LEMMA PruneKeepsNewest ==
    ASSUME NEW fs, NEW gone \in SUBSET (fs \ Retained(fs)),
           NEW f \in fs, Rank(f, fs) < KeepDaily
    PROVE  f \in fs \ gone
  BY DEF Retained

\* As many files newer than x as before, or at least KeepDaily of them, are left.
LEMMA PruneKeepsEnough ==
    ASSUME TypeOK, NEW fs, Directory(fs), NEW gone \in SUBSET (fs \ Retained(fs)),
           Cardinality(NewerThan(latest, fs)) >= KeepDaily
    PROVE  Cardinality(NewerThan(latest, fs \ gone)) >= KeepDaily
<1> DEFINE kept == {g \in NewerThan(latest, fs) : Rank(g, fs) < KeepDaily}
<1>1. Cardinality(kept) >= KeepDaily
  <2>1. latest.day \in Int /\ latest.nth \in Int
    BY DEF TypeOK
  <2>2. fs \in SUBSET File /\ IsFiniteSet(fs) /\ KeepDaily \in Nat
    BY BackupAssumption DEF Directory
  <2> QED
    BY <2>1, <2>2, NewestAreFew
<1>2. kept \subseteq NewerThan(latest, fs \ gone)
  BY PruneKeepsNewest DEF NewerThan
<1>3. IsFiniteSet(NewerThan(latest, fs \ gone))
  BY FS_Subset DEF NewerThan, Directory
<1>4. Cardinality(kept) <= Cardinality(NewerThan(latest, fs \ gone))
  BY <1>2, <1>3, FS_Subset
<1>5. Cardinality(kept) \in Nat /\ Cardinality(NewerThan(latest, fs \ gone)) \in Nat
  BY <1>2, <1>3, FS_Subset, FS_CardinalityType
<1> QED
  BY <1>1, <1>4, <1>5, BackupAssumption

\* The two ways in which LatestKept holds of a directory.
Present(fs) == \E f \in fs : f.complete /\ f.day = latest.day /\ f.nth = latest.nth
Outnumbered(fs) == Cardinality(NewerThan(latest, fs)) >= KeepDaily

LEMMA LatestKeptAs == LatestKept <=> (latest.nth > 0 => Present(files) \/ Outnumbered(files))
  BY DEF LatestKept, Present, Outnumbered, NewerThan

\* Files are added, or changed in nothing but who writes them.
LEMMA OutnumberedMore ==
    ASSUME NEW fs, NEW gs, fs \subseteq File, gs \subseteq File, IsFiniteSet(gs),
           \A f, g \in fs : f.day = g.day /\ f.nth = g.nth => f = g,
           \A f \in fs : \E g \in gs : g.day = f.day /\ g.nth = f.nth,
           Outnumbered(fs)
    PROVE  Outnumbered(gs)
<1> DEFINE from == NewerThan(latest, fs)
           to == NewerThan(latest, gs)
           same == [f \in from |-> CHOOSE g \in gs : g.day = f.day /\ g.nth = f.nth]
<1>1. \A f \in from : /\ same[f] \in to
                      /\ same[f].day = f.day /\ same[f].nth = f.nth
  BY DEF NewerThan, Newer
<1>2. same \in Injection(from, to)
  <2>1. same \in [from -> to]
    BY <1>1
  <2>2. \A f, g \in from : same[f] = same[g] => f = g
    <3>1. from \subseteq fs
      BY DEF NewerThan
    <3> HIDE DEF same, from
    <3> QED
      BY <1>1, <3>1
  <2> HIDE DEF same, from, to
  <2> QED
    BY <2>1, <2>2 DEF Injection, IsInjective
<1>3. IsFiniteSet(to)
  BY FS_Subset DEF NewerThan
<1> HIDE DEF same, from, to
<1>4. IsFiniteSet(from) /\ Cardinality(from) <= Cardinality(to)
  BY <1>2, <1>3, FS_Injection
<1>5. Cardinality(from) \in Nat /\ Cardinality(to) \in Nat
  BY <1>3, <1>4, FS_CardinalityType
<1> QED
  BY <1>4, <1>5, BackupAssumption DEF Outnumbered, from, to

LEMMA LatestStep == DirectoryInv /\ LatestKept /\ [Next]_vars => LatestKept'
<1> SUFFICES ASSUME DirectoryInv, LatestKept, [Next]_vars
             PROVE  LatestKept'
  OBVIOUS
<1>t. TypeOK /\ Directory(files)
  BY DEF DirectoryInv
<1>k. latest.nth > 0 => Present(files) \/ Outnumbered(files)
  BY LatestKeptAs
<1>d. /\ files \subseteq File /\ IsFiniteSet(files)
      /\ \A f, g \in files : f.day = g.day /\ f.nth = g.nth => f = g
  BY <1>t DEF Directory
<1>p. ASSUME NEW fs, files' = fs, UNCHANGED latest,
             latest.nth > 0 => Present(fs) \/ Outnumbered(fs)
      PROVE  LatestKept'
  BY <1>p DEF LatestKept, Present, Outnumbered, NewerThan
<1>1. CASE UNCHANGED <<files, latest>>
  BY <1>1 DEF LatestKept
<1>2. ASSUME NEW j \in Jobs, Write(j)
      PROVE  LatestKept'
  <2>1. PICK n : n = Now(files, FALSE, j)
    OBVIOUS
  <2>2. files' = files \cup {n} /\ UNCHANGED latest
    BY <1>2, <2>1 DEF Write
  <2>3. Present(files) => Present(files \cup {n})
    BY DEF Present
  <2>4. files \cup {n} \subseteq File /\ IsFiniteSet(files \cup {n})
    <3>1. DirectoryInv'
      BY DirectoryStep
    <3> QED
      BY <2>2, <3>1 DEF DirectoryInv, Directory
  <2>5. Outnumbered(files) => Outnumbered(files \cup {n})
    BY <1>d, <2>4, OutnumberedMore
  <2> QED
    BY <1>k, <1>p, <2>2, <2>3, <2>5
<1>3. ASSUME NEW j \in Jobs, Finish(j), Own(j) = {}
      PROVE  LatestKept'
  <2>1. Complete(j) = files /\ UNCHANGED latest
    BY <1>3 DEF Finish, Complete
  <2>2. PICK gone \in SUBSET (files \ Retained(files)) : files' = files \ gone
    BY <1>3, <2>1 DEF Finish
  <2>3. Outnumbered(files) => Outnumbered(files \ gone)
    BY <1>t, PruneKeepsEnough DEF Outnumbered
  <2>4. Present(files) => Present(files \ gone) \/ Outnumbered(files)
    <3>1. ASSUME NEW f \in files, f.complete, f.day = latest.day, f.nth = latest.nth,
                 ~ Outnumbered(files)
          PROVE  Present(files \ gone)
      <4>1. Rank(f, files) = Cardinality(NewerThan(latest, files))
        <5>1. {g \in files : Newer(g, f)} = NewerThan(latest, files)
          BY <3>1 DEF NewerThan, Newer
        <5> QED
          BY <5>1 DEF Rank
      <4>2. Cardinality(NewerThan(latest, files)) \in Nat
        BY <1>d, FS_Subset, FS_CardinalityType DEF NewerThan
      <4>3. Rank(f, files) < KeepDaily
        BY <3>1, <4>1, <4>2, BackupAssumption DEF Outnumbered
      <4>4. f \in files \ gone
        BY <4>3, PruneKeepsNewest
      <4> QED
        BY <3>1, <4>4 DEF Present
    <3> QED
      BY <3>1 DEF Present
  <2> QED
    BY <1>k, <1>p, <2>1, <2>2, <2>3, <2>4
<1>4. ASSUME NEW j \in Jobs, Finish(j), Own(j) # {}
      PROVE  LatestKept'
  <2>1. PICK n : n = Now(files \ Own(j), TRUE, "none")
    OBVIOUS
  <2>2. /\ Complete(j) = (files \ Own(j)) \cup {n}
        /\ n.complete
        /\ \A f \in Complete(j) : ~ Newer(f, n)
    BY <1>4, <2>1, CompleteDirectory
  <2>3. Rank(n, Complete(j)) < KeepDaily
    <3>1. {f \in Complete(j) : Newer(f, n)} = {}
      BY <2>2
    <3> QED
      BY <3>1, FS_EmptySet, BackupAssumption DEF Rank
  <2>4. n \in files'
    <3>1. PICK gone \in SUBSET (Complete(j) \ Retained(Complete(j))) :
            files' = Complete(j) \ gone
      BY <1>4 DEF Finish
    <3> QED
      BY <2>2, <2>3, <3>1, PruneKeepsNewest
  <2>5. latest' = [day |-> n.day, nth |-> n.nth]
    BY <1>4, <2>1 DEF Finish
  <2> QED
    BY <2>2, <2>4, <2>5 DEF LatestKept
<1>5. ASSUME NEW j \in Jobs, Raise(j) \/ Lose(j)
      PROVE  LatestKept'
  <2>1. files' = Abandoned(j) /\ UNCHANGED latest
    BY <1>5 DEF Raise, Lose
  <2>2. /\ Directory(Abandoned(j))
        /\ \A f \in files : \E g \in Abandoned(j) :
              g.day = f.day /\ g.nth = f.nth /\ g.complete = f.complete
    BY AbandonedDirectory
  <2>3. Present(files) => Present(Abandoned(j))
    BY <2>2 DEF Present
  <2>4. Outnumbered(files) => Outnumbered(Abandoned(j))
    BY <1>d, <2>2, OutnumberedMore DEF Directory
  <2> QED
    BY <1>k, <1>p, <2>1, <2>3, <2>4
<1>6. CASE NextDay \/ (\E j \in Jobs : Start(j)) \/ UNCHANGED vars
  BY <1>1, <1>6 DEF NextDay, Start, vars
<1> QED
  BY <1>2, <1>3, <1>4, <1>5, <1>6 DEF Next

\* However tasks overlap, raise and are lost, the last completed backup survives every
\* pruning until KeepDaily newer files have taken its place (backup.py:107-178).
THEOREM LatestSurvives == Spec => []LatestKept
<1>1. Init => LatestKept
  BY DEF Init, LatestKept
<1> QED
  BY <1>1, InitDirectoryInv, DirectoryStep, LatestStep, PTL DEF Spec

-----------------------------------------------------------------------------
(* The schedule.                                                           *)

\* The days to keep, of those on which a file was written.
DayRank(d, days) == Cardinality({e \in days : e > d})
DailyOf(days) == {d \in days : DayRank(d, days) < KeepDaily}
SundaysOf(days) == {d \in days \ DailyOf(days) : Sunday(d)}
WeeklyOf(days) == {d \in SundaysOf(days) : DayRank(d, SundaysOf(days)) < KeepWeekly}
Due(days) == DailyOf(days) \cup WeeklyOf(days)

LEMMA ScheduleKeptAs ==
    ScheduleKept <=> (~irregular => \A d \in Due(written) : \E f \in files : f.day = d)
  BY DEF ScheduleKept, DaysRetained, Due, DailyOf, SundaysOf, WeeklyOf, DayRank

LEMMA DayRankMore ==
    ASSUME NEW ds, NEW es, IsFiniteSet(es), ds \subseteq es, NEW d
    PROVE  /\ DayRank(d, ds) \in Nat /\ DayRank(d, es) \in Nat
           /\ DayRank(d, ds) <= DayRank(d, es)
<1> DEFINE some == {e \in ds : e > d}
           more == {e \in es : e > d}
<1>1. some \subseteq more /\ more \subseteq es
  OBVIOUS
<1> HIDE DEF some, more
<1>2. IsFiniteSet(more)
  BY <1>1, FS_Subset
<1>3. IsFiniteSet(some) /\ Cardinality(some) <= Cardinality(more)
  BY <1>1, <1>2, FS_Subset
<1>4. Cardinality(some) \in Nat /\ Cardinality(more) \in Nat
  BY <1>2, <1>3, FS_CardinalityType
<1> QED
  BY <1>3, <1>4 DEF DayRank, some, more

\* A day that was not due is not due later.
LEMMA DueNoLater ==
    ASSUME NEW days, IsFiniteSet(days), NEW today
    PROVE  Due(days \cup {today}) \subseteq Due(days) \cup {today}
<1> DEFINE later == days \cup {today}
<1>1. IsFiniteSet(later) /\ days \subseteq later
  BY FS_AddElement
<1>2. \A d \in days : d \in DailyOf(later) => d \in DailyOf(days)
  <2>1. ASSUME NEW d \in days, d \in DailyOf(later)
        PROVE  d \in DailyOf(days)
    <3>1. /\ DayRank(d, days) \in Nat /\ DayRank(d, later) \in Nat
          /\ DayRank(d, days) <= DayRank(d, later)
      BY <1>1, DayRankMore
    <3>2. DayRank(d, later) < KeepDaily
      BY <2>1 DEF DailyOf
    <3> QED
      BY <3>1, <3>2, BackupAssumption DEF DailyOf
  <2> QED
    BY <2>1
<1>3. SundaysOf(days) \subseteq SundaysOf(later)
  BY <1>1, <1>2 DEF SundaysOf
<1>4. ASSUME NEW d \in SundaysOf(days), d \in WeeklyOf(later)
      PROVE  d \in WeeklyOf(days)
  <2>1. IsFiniteSet(SundaysOf(later))
    BY <1>1, FS_Subset DEF SundaysOf
  <2>2. /\ DayRank(d, SundaysOf(days)) \in Nat /\ DayRank(d, SundaysOf(later)) \in Nat
        /\ DayRank(d, SundaysOf(days)) <= DayRank(d, SundaysOf(later))
    BY <1>3, <2>1, DayRankMore
  <2>3. DayRank(d, SundaysOf(later)) < KeepWeekly
    BY <1>4 DEF WeeklyOf
  <2> QED
    BY <2>2, <2>3, BackupAssumption DEF WeeklyOf
<1>5. ASSUME NEW d \in Due(later), d # today
      PROVE  d \in Due(days)
  <2>1. d \in days
    BY <1>5 DEF Due, DailyOf, WeeklyOf, SundaysOf
  <2>2. CASE d \in DailyOf(days)
    BY <2>2 DEF Due
  <2>3. CASE d \notin DailyOf(days)
    <3>1. d \in WeeklyOf(later)
      BY <1>2, <1>5, <2>1, <2>3 DEF Due
    <3>2. d \in SundaysOf(days)
      BY <2>1, <2>3, <3>1 DEF WeeklyOf, SundaysOf
    <3> QED
      BY <1>4, <3>1, <3>2 DEF Due
  <2> QED
    BY <2>2, <2>3
<1> QED
  BY <1>5

\* With one file per day, a file has no more newer ones than its day has later days.
LEMMA RankOfDay ==
    ASSUME NEW fs, fs \subseteq File,
           \A f, g \in fs : f.day = g.day => f = g,
           NEW days, IsFiniteSet(days), \A f \in fs : f.day \in days,
           NEW f \in fs
    PROVE  /\ Rank(f, fs) \in Nat /\ DayRank(f.day, days) \in Nat
           /\ Rank(f, fs) <= DayRank(f.day, days)
<1> DEFINE newer == {g \in fs : Newer(g, f)}
           later == {e \in days : e > f.day}
           dayOf == [g \in newer |-> g.day]
<1>1. \A g \in fs : g.day \in Int /\ g.nth \in Int
  BY DEF File
<1>2. \A g \in newer : dayOf[g] \in later
  <2>1. ASSUME NEW g \in newer
        PROVE  g.day > f.day
    BY <1>1 DEF Newer
  <2> QED
    BY <2>1
<1>3. dayOf \in Injection(newer, later)
  <2>1. dayOf \in [newer -> later]
    BY <1>2
  <2>2. \A g, h \in newer : dayOf[g] = dayOf[h] => g = h
    OBVIOUS
  <2> HIDE DEF dayOf, newer, later
  <2> QED
    BY <2>1, <2>2 DEF Injection, IsInjective
<1>4. IsFiniteSet(later)
  BY FS_Subset
<1> HIDE DEF dayOf, newer, later
<1>5. IsFiniteSet(newer) /\ Cardinality(newer) <= Cardinality(later)
  BY <1>3, <1>4, FS_Injection
<1>6. Cardinality(newer) \in Nat /\ Cardinality(later) \in Nat
  BY <1>4, <1>5, FS_CardinalityType
<1> QED
  BY <1>5, <1>6 DEF Rank, DayRank, newer, later

\* Pruning keeps the files of the days that are due.
LEMMA PruneKeepsDue ==
    ASSUME NEW fs, fs \subseteq File,
           \A f, g \in fs : f.day = g.day => f = g,
           NEW days, IsFiniteSet(days), \A f \in fs : f.day \in days,
           NEW f \in fs, f.day \in Due(days)
    PROVE  f \in Retained(fs)
<1> DEFINE daily == {g \in fs : Rank(g, fs) < KeepDaily}
           sundays == {g \in fs \ daily : Sunday(g.day)}
<1>r. Retained(fs) = daily \cup {g \in sundays : Rank(g, sundays) < KeepWeekly}
  BY DEF Retained
<1>1. \A g \in fs : g.day \in DailyOf(days) => g \in daily
  <2>1. ASSUME NEW g \in fs, g.day \in DailyOf(days)
        PROVE  Rank(g, fs) < KeepDaily
    <3>1. /\ Rank(g, fs) \in Nat /\ DayRank(g.day, days) \in Nat
          /\ Rank(g, fs) <= DayRank(g.day, days)
      BY RankOfDay
    <3>2. DayRank(g.day, days) < KeepDaily
      BY <2>1 DEF DailyOf
    <3> QED
      BY <3>1, <3>2, BackupAssumption
  <2> QED
    BY <2>1
<1>2. CASE f.day \in DailyOf(days) \/ f \in daily
  BY <1>1, <1>2, <1>r
<1>3. CASE f.day \notin DailyOf(days) /\ f \notin daily
  <2>1. f.day \in WeeklyOf(days) /\ f.day \in SundaysOf(days)
    BY <1>3 DEF Due, WeeklyOf
  <2>2. f \in sundays
    BY <1>3, <2>1 DEF SundaysOf
  <2>3. \A g \in sundays : g.day \in SundaysOf(days)
    BY <1>1 DEF SundaysOf
  <2>4. sundays \subseteq fs
    OBVIOUS
  <2>5. IsFiniteSet(SundaysOf(days))
    BY FS_Subset DEF SundaysOf
  <2> HIDE DEF daily, sundays
  <2>6. /\ Rank(f, sundays) \in Nat /\ DayRank(f.day, SundaysOf(days)) \in Nat
        /\ Rank(f, sundays) <= DayRank(f.day, SundaysOf(days))
    BY <2>2, <2>3, <2>4, <2>5, RankOfDay
  <2>7. DayRank(f.day, SundaysOf(days)) < KeepWeekly
    BY <2>1 DEF WeeklyOf
  <2> QED
    BY <1>r, <2>2, <2>6, <2>7, BackupAssumption
<1> QED
  BY <1>2, <1>3

\* A job that is writing writes the file of today.
BeingWritten == \A f \in files : f.by # "none" => f.day = day /\ job[f.by] = "write"

DaysWritten == written \subseteq 0..day /\ \A f \in files : f.day \in written

OnePerDay == ~irregular => \A f, g \in files : f.day = g.day => f = g

ScheduleInv ==
    /\ BeingWritten
    /\ DaysWritten
    /\ OnePerDay
    /\ ScheduleKept

LEMMA ScheduleStep == DirectoryInv /\ ScheduleInv /\ [Next]_vars => ScheduleInv'
<1> SUFFICES ASSUME DirectoryInv, ScheduleInv, [Next]_vars
             PROVE  ScheduleInv'
  OBVIOUS
<1>t. TypeOK /\ Directory(files) /\ files \subseteq File /\ day \in 0..LastDay
  BY DEF DirectoryInv, TypeOK, Directory
<1>i. /\ \A f \in files : f.by # "none" => f.day = day /\ job[f.by] = "write"
      /\ written \subseteq 0..day
      /\ \A f \in files : f.day \in written
      /\ ~irregular => \A f, g \in files : f.day = g.day => f = g
      /\ ~irregular => \A d \in Due(written) : \E f \in files : f.day = d
  BY ScheduleKeptAs DEF ScheduleInv, BeingWritten, DaysWritten, OnePerDay
<1>w. IsFiniteSet(written)
  <2>1. IsFiniteSet(0..day)
    BY <1>t, FS_Interval
  <2> QED
    BY <1>i, <2>1, FS_Subset
<1>p. ASSUME \A f \in files' : f.by # "none" => f.day = day' /\ job'[f.by] = "write",
             written' \subseteq 0..day',
             \A f \in files' : f.day \in written',
             ~irregular' => \A f, g \in files' : f.day = g.day => f = g,
             ~irregular' => \A d \in Due(written') : \E f \in files' : f.day = d
      PROVE  ScheduleInv'
  <2>1. ScheduleKept'
    BY <1>p DEF ScheduleKept, DaysRetained, Due, DailyOf, SundaysOf, WeeklyOf, DayRank
  <2> QED
    BY <1>p, <2>1 DEF ScheduleInv, BeingWritten, DaysWritten, OnePerDay
<1>1. CASE NextDay
  <2>1. \A f \in files : f.by = "none"
    <3>1. \A f \in files : f.by \in Jobs \cup {"none"}
      BY <1>t DEF File
    <3> QED
      BY <1>1, <1>i, <3>1 DEF NextDay
  <2>2. UNCHANGED <<files, written, irregular>> /\ day' = day + 1
    BY <1>1 DEF NextDay
  <2>3. 0..day \subseteq 0..(day + 1)
    BY <1>t
  <2> QED
    BY <1>i, <1>p, <2>1, <2>2, <2>3
<1>2. ASSUME NEW j \in Jobs, Start(j)
      PROVE  ScheduleInv'
  <2>1. UNCHANGED <<day, files, written, irregular>>
    BY <1>2 DEF Start
  <2>2. \A f \in files : f.by # "none" => job'[f.by] = "write"
    BY <1>2, <1>i, <1>t DEF Start, TypeOK, File
  <2> QED
    BY <1>i, <1>p, <2>1, <2>2
<1>3. ASSUME NEW j \in Jobs, Write(j)
      PROVE  ScheduleInv'
  <2>1. PICK n : n = Now(files, FALSE, j)
    OBVIOUS
  <2>2. /\ files' = files \cup {n} /\ written' = written \cup {day}
        /\ irregular' = (irregular \/ day \in written)
        /\ UNCHANGED day
        /\ job' = [job EXCEPT ![j] = "write"]
    BY <1>3, <2>1 DEF Write
  <2>3. n.day = day /\ n.by = j
    BY <2>1 DEF Now
  <2>4. \A f \in files' : f.by # "none" => f.day = day' /\ job'[f.by] = "write"
    <3>1. job \in [Jobs -> {"idle", "dump", "write"}]
      BY <1>t DEF TypeOK
    <3>2. \A f \in files : f.by \in Jobs \cup {"none"}
      BY <1>t DEF File
    <3> QED
      BY <1>i, <2>2, <2>3, <3>1, <3>2
  <2>5. written' \subseteq 0..day' /\ \A f \in files' : f.day \in written'
    BY <1>i, <1>t, <2>2, <2>3
  <2>6. ~irregular' => \A f, g \in files' : f.day = g.day => f = g
    BY <1>i, <2>2, <2>3
  <2>7. ~irregular' => \A d \in Due(written') : \E f \in files' : f.day = d
    <3>1. Due(written') \subseteq Due(written) \cup {day}
      BY <1>w, <2>2, DueNoLater
    <3> QED
      BY <1>i, <2>2, <2>3, <3>1
  <2> QED
    BY <1>p, <2>4, <2>5, <2>6, <2>7
<1>4. ASSUME NEW j \in Jobs, Finish(j)
      PROVE  ScheduleInv'
  <2> DEFINE fs == Complete(j)
  <2>1. /\ job[j] = "write" /\ job' = [job EXCEPT ![j] = "idle"]
        /\ UNCHANGED <<day, written, irregular>>
    BY <1>4 DEF Finish
  <2>2. PICK gone \in SUBSET (fs \ Retained(fs)) : files' = fs \ gone
    BY <1>4 DEF Finish
  <2>3. \A f \in Own(j) : f.day = day
    BY <1>i, BackupAssumption DEF Own
  <2>4. /\ fs \subseteq File
        /\ \A f \in fs : f.by # "none" => f \in files /\ f.by # j
        /\ \A f \in fs : f.day \in written
        /\ ~irregular => \A f, g \in fs : f.day = g.day => f = g
        /\ \A f \in files : \E g \in fs : g.day = f.day
    <3>1. CASE Own(j) = {}
      <4>1. fs = files
        BY <3>1 DEF Complete
      <4> QED
        BY <1>i, <1>t, <3>1, <4>1 DEF Own
    <3>2. CASE Own(j) # {}
      <4>1. PICK n : n = Now(files \ Own(j), TRUE, "none")
        OBVIOUS
      <4>2. /\ fs = (files \ Own(j)) \cup {n}
            /\ Directory(fs)
            /\ n.day = day /\ n.by = "none"
        BY <3>2, <4>1, CompleteDirectory
      <4>3. day \in written
        BY <1>i, <2>3, <3>2 DEF Own
      <4>4. ~irregular => \A f \in files \ Own(j) : f.day # day
        BY <1>i, <2>3, <3>2 DEF Own
      <4>5. fs \subseteq File
        BY <4>2 DEF Directory
      <4> HIDE DEF fs
      <4>6. \A f \in fs : f.by # "none" => f \in files /\ f.by # j
        BY <4>2 DEF Own
      <4>7. ~irregular => \A f, g \in fs : f.day = g.day => f = g
        BY <1>i, <4>2, <4>4
      <4>8. \A f \in files : \E g \in fs : g.day = f.day
        BY <2>3, <4>2
      <4> QED
        BY <1>i, <4>2, <4>3, <4>5, <4>6, <4>7, <4>8
    <3> QED
      BY <3>1, <3>2
  <2> HIDE DEF fs
  <2>5. \A f \in files' : f.by # "none" => f.day = day' /\ job'[f.by] = "write"
    <3>1. job \in [Jobs -> {"idle", "dump", "write"}]
      BY <1>t DEF TypeOK
    <3>2. \A f \in files : f.by \in Jobs \cup {"none"}
      BY <1>t DEF File
    <3> QED
      BY <1>i, <2>1, <2>2, <2>4, <3>1, <3>2
  <2>6. ASSUME ~irregular, NEW d \in Due(written)
        PROVE  \E f \in files' : f.day = d
    <3>1. PICK f \in fs : f.day = d
      BY <1>i, <2>4, <2>6
    <3>2. f \in Retained(fs)
      BY <1>w, <2>4, <2>6, <3>1, PruneKeepsDue
    <3> QED
      BY <2>2, <3>1, <3>2
  <2> QED
    BY <1>i, <1>p, <2>1, <2>2, <2>4, <2>5, <2>6
<1>5. ASSUME NEW j \in Jobs, Raise(j) \/ Lose(j)
      PROVE  ScheduleInv'
  <2>1. /\ files' = Abandoned(j) /\ job' = [job EXCEPT ![j] = "idle"]
        /\ UNCHANGED <<day, written, irregular>>
    BY <1>5 DEF Raise, Lose
  <2>2. /\ Directory(Abandoned(j))
        /\ \A f \in files : \E g \in Abandoned(j) : g.day = f.day
        /\ \A g \in Abandoned(j) : \E f \in files :
              /\ g.day = f.day /\ g.nth = f.nth
              /\ g.by = IF f.by = j THEN "none" ELSE f.by
    BY AbandonedDirectory
  <2>3. \A f \in files' : f.by # "none" => f.day = day' /\ job'[f.by] = "write"
    <3>1. job \in [Jobs -> {"idle", "dump", "write"}]
      BY <1>t DEF TypeOK
    <3>2. \A f \in files : f.by \in Jobs \cup {"none"}
      BY <1>t DEF File
    <3> QED
      BY <1>i, <2>1, <2>2, <3>1, <3>2
  <2>4. ~irregular => \A f, g \in files' : f.day = g.day => f = g
    <3>1. \A f, g \in files' : f.day = g.day /\ f.nth = g.nth => f = g
      BY <2>1, <2>2 DEF Directory
    <3> QED
      BY <1>i, <2>1, <2>2, <3>1
  <2> QED
    BY <1>i, <1>p, <2>1, <2>2, <2>3, <2>4
<1>6. CASE UNCHANGED vars
  BY <1>i, <1>p, <1>6 DEF vars
<1> QED
  BY <1>1, <1>2, <1>3, <1>4, <1>5, <1>6 DEF Next

\* Whatever overlaps, fails and is pruned: as long as every day got at most one file,
\* the newest KeepDaily days have theirs, and of the Sundays before them the newest
\* KeepWeekly (backup.py:155-178, docs/30-improvements.md:107).
THEOREM ScheduleSurvives == Spec => []ScheduleKept
<1>1. Init => ScheduleInv
  <2> SUFFICES ASSUME Init
               PROVE  ScheduleInv
    OBVIOUS
  <2>1. Due(written) = {}
    BY DEF Init, Due, DailyOf, WeeklyOf, SundaysOf
  <2> QED
    BY <2>1, ScheduleKeptAs
    DEF Init, ScheduleInv, BeingWritten, DaysWritten, OnePerDay
<1>2. ScheduleInv => ScheduleKept
  BY DEF ScheduleInv
<1> QED
  BY <1>1, <1>2, InitDirectoryInv, DirectoryStep, ScheduleStep, PTL DEF Spec
=============================================================================
