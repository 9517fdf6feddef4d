------------------------ MODULE BundleDirectoryProofs ------------------------
(***************************************************************************)
(* What BundleDirectory promises, for every finite set of keys and owners  *)
(* and every capacity, lifetime and bound.                                 *)
(*                                                                         *)
(* The calls of the directory work on its three indexes as on one value,   *)
(* so their effects are stated once per operation on a directory d (DirOK  *)
(* is kept, and what becomes of each identity).  Independently of them,    *)
(* Fences relates the history of an identity's invalidations to its        *)
(* advertisement and its retirement, and Registers relates an owner's      *)
(* authority to the registration under way.  DirectoryIInv joins the       *)
(* three; each action is then one lemma, which also says what it may do to *)
(* an advertisement (LossExplained).                                       *)
(***************************************************************************)
EXTENDS BundleDirectory, FiniteSetTheorems, TLAPS

\* The values of the indexes: BundleAdvertisement and RetiredGeneration.
Advertisements == [generation : 0 .. MaxGeneration, epoch : 0 .. MaxEpoch,
                   expires : 0 .. MaxTime + AdTtl]
Retirements == [generation : 0 .. MaxGeneration, until : 0 .. MaxTime + AdTtl + LeaseTtl,
                source : {"none", "Absent", "LiveAdvertisement"}]
Directories == [ads : [Identities -> Advertisements], retired : [Identities -> Retirements],
                absent : [Owners -> 0 .. AbsentPerOwner], expired : [Keys -> 0 .. MaxTime + LeaseTtl]]

\* The retirements of an owner that count against its allowance of absent ones.
Counted(d, o) == {i \in Of(o) : d.retired[i].source = "Absent"}

\* ensure_new_identity counts an identity once as an advertisement and once as a
\* retirement: both together stay within the capacity of identities.
Room(d) ==
    /\ Cardinality(Live(d)) + Cardinality(Retired(d)) <= IdentityGlobal
    /\ \A o \in Owners :
         Cardinality(Live(d) \cap Of(o)) + Cardinality(Retired(d) \cap Of(o)) <= IdentityPerOwner

\* What every call leaves of the indexes: their types, generations that were
\* published, a source for every retirement, exact allowances, and room for the
\* retirements of a removal.
DirOK(d) ==
    /\ d \in Directories
    /\ \A i \in Live(d) : d.ads[i].generation \in Generations
    /\ \A i \in Retired(d) : d.retired[i].source # "none"
    /\ \A o \in Owners : d.absent[o] = Cardinality(Counted(d, o))
    /\ Room(d)

\* The larger and the smaller of two numbers, as merge_retirement and
\* bounded_absent_deadline take them.
LEMMA MaxMin ==
  ASSUME NEW a \in Int, NEW b \in Int
  PROVE  /\ Max({a, b}) \in {a, b} /\ Max({a, b}) >= a /\ Max({a, b}) >= b
         /\ Min({a, b}) \in {a, b} /\ Min({a, b}) <= a /\ Min({a, b}) <= b
<1>1. \E x \in {a, b} : \A y \in {a, b} : x >= y
  OBVIOUS
<1>2. \E x \in {a, b} : \A y \in {a, b} : x <= y
  OBVIOUS
<1>3. Max({a, b}) \in {a, b} /\ \A y \in {a, b} : Max({a, b}) >= y
  BY Zenon, <1>1 DEF Max
<1>4. Min({a, b}) \in {a, b} /\ \A y \in {a, b} : Min({a, b}) <= y
  BY Zenon, <1>2 DEF Min
<1> QED
  BY Zenon, <1>3, <1>4

\* The capacities, lifetimes and bounds are numbers.
LEMMA Constants ==
  /\ AdsPerOwner \in Nat /\ AdsGlobal \in Nat /\ AbsentPerOwner \in Nat /\ AbsentGlobal \in Nat
  /\ LeaseTtl \in Nat /\ AdTtl \in Nat /\ HistoryCapacity \in Nat
  /\ MaxTime \in Nat /\ MaxGeneration \in Nat /\ MaxEpoch \in Nat
  /\ IdentityPerOwner \in Nat /\ IdentityGlobal \in Nat
BY DirectoryConstants DEF IdentityPerOwner, IdentityGlobal

\* The directory of finitely many keys and owners has finitely many identities.
LEMMA IdentitiesFinite == IsFiniteSet(Identities)
BY Zenon, DirectoryConstants, FS_Product DEF Identities

\* The entries that the capacities count are finite.
LEMMA IdentitySets ==
  ASSUME NEW d
  PROVE  /\ IsFiniteSet(Live(d)) /\ IsFiniteSet(Retired(d))
         /\ \A o : IsFiniteSet(Of(o)) /\ IsFiniteSet(Live(d) \cap Of(o))
                /\ IsFiniteSet(Retired(d) \cap Of(o)) /\ IsFiniteSet(Counted(d, o))
<1>1. /\ Live(d) \subseteq Identities /\ Retired(d) \subseteq Identities
      /\ \A o : Of(o) \subseteq Identities /\ Counted(d, o) \subseteq Identities
  BY Zenon DEF Live, Retired, Of, Counted
<1>2. \A S \in SUBSET Identities : IsFiniteSet(S)
  BY Zenon, IdentitiesFinite, FS_Subset
<1> QED
  BY Zenon, <1>1, <1>2

\* Members that move from one finite set to another, as a retired advertisement
\* moves between the indexes, do not add to the sum of their sizes.
LEMMA MoveCount ==
  ASSUME NEW A, NEW B, IsFiniteSet(A), IsFiniteSet(B), NEW M \in SUBSET A,
         NEW X \in SUBSET (A \ M), NEW Y \in SUBSET (B \cup M)
  PROVE  Cardinality(X) + Cardinality(Y) <= Cardinality(A) + Cardinality(B)
<1>1. /\ IsFiniteSet(M) /\ IsFiniteSet(A \ M) /\ IsFiniteSet(B \cup M) /\ IsFiniteSet(B \cap M)
  BY Zenon, FS_Subset, FS_Union
<1>2. Cardinality(A \ M) = Cardinality(A) - Cardinality(M)
  <2>1. A \cap M = M
    OBVIOUS
  <2> QED
    BY Zenon, <2>1, <1>1, FS_Difference
<1>3. Cardinality(B \cup M) = Cardinality(B) + Cardinality(M) - Cardinality(B \cap M)
  BY Zenon, <1>1, FS_Union
<1>4. Cardinality(X) <= Cardinality(A \ M) /\ Cardinality(Y) <= Cardinality(B \cup M)
  BY Zenon, <1>1, FS_Subset
<1>5. /\ IsFiniteSet(X) /\ IsFiniteSet(Y)
  BY Zenon, <1>1, FS_Subset
<1>6. /\ Cardinality(A) \in Nat /\ Cardinality(B) \in Nat /\ Cardinality(M) \in Nat
      /\ Cardinality(X) \in Nat /\ Cardinality(Y) \in Nat /\ Cardinality(B \cap M) \in Nat
  BY Zenon, <1>1, <1>5, FS_CardinalityType
<1> QED
  BY <1>2, <1>3, <1>4, <1>6

\* Withdrawing advertisements M and retiring some of them (retire_live,
\* remove_owner) needs no room that was not there.
LEMMA MoveRoom ==
  ASSUME NEW d, NEW e, NEW M \in SUBSET Live(d), Room(d),
         Live(e) \subseteq Live(d) \ M, Retired(e) \subseteq Retired(d) \cup M
  PROVE  Room(e)
<1>1. Cardinality(Live(e)) + Cardinality(Retired(e)) <= Cardinality(Live(d)) + Cardinality(Retired(d))
  BY Zenon, MoveCount, IdentitySets
<1>2. ASSUME NEW o \in Owners
      PROVE  Cardinality(Live(e) \cap Of(o)) + Cardinality(Retired(e) \cap Of(o))
               <= Cardinality(Live(d) \cap Of(o)) + Cardinality(Retired(d) \cap Of(o))
  <2>1. /\ M \cap Of(o) \in SUBSET (Live(d) \cap Of(o))
        /\ Live(e) \cap Of(o) \in SUBSET ((Live(d) \cap Of(o)) \ (M \cap Of(o)))
        /\ Retired(e) \cap Of(o) \in SUBSET ((Retired(d) \cap Of(o)) \cup (M \cap Of(o)))
    OBVIOUS
  <2> QED
    BY Zenon, <2>1, MoveCount, IdentitySets
<1>3. ASSUME NEW c
      PROVE  /\ Cardinality(Live(c)) \in Nat /\ Cardinality(Retired(c)) \in Nat
             /\ \A o : /\ Cardinality(Live(c) \cap Of(o)) \in Nat
                       /\ Cardinality(Retired(c) \cap Of(o)) \in Nat
  BY Zenon, IdentitySets, FS_CardinalityType
<1>4. Cardinality(Live(e)) + Cardinality(Retired(e)) <= IdentityGlobal
  <2> DEFINE le == Cardinality(Live(e))  re == Cardinality(Retired(e))
             ld == Cardinality(Live(d))  rd == Cardinality(Retired(d))
  <2>1. /\ le \in Nat /\ re \in Nat /\ ld \in Nat /\ rd \in Nat
        /\ le + re <= ld + rd /\ ld + rd <= IdentityGlobal
    BY Zenon, <1>1, <1>3 DEF Room
  <2> HIDE DEF le, re, ld, rd
  <2>2. le + re <= IdentityGlobal
    BY <2>1, Constants
  <2> QED
    BY Zenon, <2>2 DEF le, re
<1>5. ASSUME NEW o \in Owners
      PROVE  Cardinality(Live(e) \cap Of(o)) + Cardinality(Retired(e) \cap Of(o)) <= IdentityPerOwner
  <2> DEFINE le == Cardinality(Live(e) \cap Of(o))  re == Cardinality(Retired(e) \cap Of(o))
             ld == Cardinality(Live(d) \cap Of(o))  rd == Cardinality(Retired(d) \cap Of(o))
  <2>1. /\ le \in Nat /\ re \in Nat /\ ld \in Nat /\ rd \in Nat
        /\ le + re <= ld + rd /\ ld + rd <= IdentityPerOwner
    BY Zenon, <1>2, <1>3 DEF Room
  <2> HIDE DEF le, re, ld, rd
  <2>2. le + re <= IdentityPerOwner
    BY <2>1, Constants
  <2> QED
    BY Zenon, <2>2 DEF le, re
<1> QED
  BY Zenon, <1>4, <1>5 DEF Room

\* An identity that is new to one of two sets uses the room that is left.
LEMMA AddCount ==
  ASSUME NEW A, NEW B, IsFiniteSet(A), IsFiniteSet(B), NEW i, NEW N \in Nat,
         Cardinality(A) + Cardinality(B) < N,
         NEW X \in SUBSET (A \cup {i}), NEW Y \in SUBSET (B \cup {i}),
         X \subseteq A \/ Y \subseteq B
  PROVE  Cardinality(X) + Cardinality(Y) <= N
<1> DEFINE a == Cardinality(A)  b == Cardinality(B)  x == Cardinality(X)  y == Cardinality(Y)
           ai == Cardinality(A \cup {i})  bi == Cardinality(B \cup {i})
<1>1. IsFiniteSet(A \cup {i}) /\ IsFiniteSet(B \cup {i})
  BY Zenon, FS_AddElement
<1>2. ai \in {a, a + 1} /\ bi \in {b, b + 1} /\ a \in Nat /\ b \in Nat
  BY Zenon, FS_AddElement, FS_CardinalityType
<1>3. x <= ai /\ y <= bi /\ x \in Nat /\ y \in Nat
  BY Zenon, <1>1, FS_Subset, FS_CardinalityType
<1>4. x <= a \/ y <= b
  BY Zenon, FS_Subset
<1> HIDE DEF a, b, x, y, ai, bi
<1>5. a + b < N
  BY Zenon DEF a, b
<1>6. x + y <= N
  BY <1>2, <1>3, <1>4, <1>5
<1> QED
  BY Zenon, <1>6 DEF x, y

\* An identity that ensure_new_identity admits, published or retired in advance,
\* fits.
LEMMA AddRoom ==
  ASSUME NEW d, NEW e, NEW i \in Identities, Room(d), ensure_new_identity(d, i[2]),
         Live(e) \subseteq Live(d) \cup {i}, Retired(e) \subseteq Retired(d) \cup {i},
         Live(e) \subseteq Live(d) \/ Retired(e) \subseteq Retired(d)
  PROVE  Room(e)
<1>1. Cardinality(Live(e)) + Cardinality(Retired(e)) <= IdentityGlobal
  BY Zenon, AddCount, IdentitySets, Constants DEF ensure_new_identity
<1>2. ASSUME NEW o \in Owners
      PROVE  Cardinality(Live(e) \cap Of(o)) + Cardinality(Retired(e) \cap Of(o)) <= IdentityPerOwner
  <2>1. CASE o = i[2]
    <3>1. /\ Live(e) \cap Of(o) \in SUBSET ((Live(d) \cap Of(o)) \cup {i})
          /\ Retired(e) \cap Of(o) \in SUBSET ((Retired(d) \cap Of(o)) \cup {i})
          /\ \/ Live(e) \cap Of(o) \subseteq Live(d) \cap Of(o)
             \/ Retired(e) \cap Of(o) \subseteq Retired(d) \cap Of(o)
      OBVIOUS
    <3>2. /\ Cardinality(Live(d) \cap Of(o)) + Cardinality(Retired(d) \cap Of(o)) < IdentityPerOwner
          /\ IsFiniteSet(Live(d) \cap Of(o)) /\ IsFiniteSet(Retired(d) \cap Of(o))
      BY Zenon, <2>1, IdentitySets DEF ensure_new_identity
    <3> DEFINE A == Live(d) \cap Of(o)  B == Retired(d) \cap Of(o)
               X == Live(e) \cap Of(o)  Y == Retired(e) \cap Of(o)
    <3>3. /\ X \in SUBSET (A \cup {i}) /\ Y \in SUBSET (B \cup {i}) /\ (X \subseteq A \/ Y \subseteq B)
          /\ Cardinality(A) + Cardinality(B) < IdentityPerOwner /\ IsFiniteSet(A) /\ IsFiniteSet(B)
      BY Zenon, <3>1, <3>2
    <3> HIDE DEF A, B, X, Y
    <3>4. Cardinality(X) + Cardinality(Y) <= IdentityPerOwner
      BY Zenon, <3>3, AddCount, Constants
    <3> QED
      BY Zenon, <3>4 DEF X, Y
  <2>2. CASE o # i[2]
    <3>1. i \notin Of(o)
      BY Zenon, <2>2 DEF Of
    <3>2. /\ {} \in SUBSET (Live(d) \cap Of(o))
          /\ Live(e) \cap Of(o) \in SUBSET ((Live(d) \cap Of(o)) \ {})
          /\ Retired(e) \cap Of(o) \in SUBSET ((Retired(d) \cap Of(o)) \cup {})
      BY Zenon, <3>1
    <3> DEFINE le == Cardinality(Live(e) \cap Of(o))  re == Cardinality(Retired(e) \cap Of(o))
               ld == Cardinality(Live(d) \cap Of(o))  rd == Cardinality(Retired(d) \cap Of(o))
    <3>3. le + re <= ld + rd /\ ld + rd <= IdentityPerOwner
      BY Zenon, <3>2, MoveCount, IdentitySets DEF Room
    <3>4. le \in Nat /\ re \in Nat /\ ld \in Nat /\ rd \in Nat
      BY Zenon, IdentitySets, FS_CardinalityType
    <3> HIDE DEF le, re, ld, rd
    <3>5. le + re <= IdentityPerOwner
      BY <3>3, <3>4, Constants
    <3> QED
      BY Zenon, <3>5 DEF le, re
  <2> QED
    BY Zenon, <2>1, <2>2
<1> QED
  BY Zenon, <1>1, <1>2 DEF Room

\* A part taken away from a finite set is subtracted from its size.
LEMMA RemoveCount ==
  ASSUME NEW A, IsFiniteSet(A), NEW R \in SUBSET A
  PROVE  /\ Cardinality(A \ R) = Cardinality(A) - Cardinality(R)
         /\ Cardinality(R) \in 0 .. Cardinality(A) /\ Cardinality(A) \in Nat
<1>1. A \cap R = R
  OBVIOUS
<1>2. Cardinality(A \ R) = Cardinality(A) - Cardinality(R)
  BY Zenon, <1>1, FS_Difference
<1>3. Cardinality(R) <= Cardinality(A) /\ IsFiniteSet(R)
  BY Zenon, FS_Subset
<1>4. Cardinality(R) \in Nat /\ Cardinality(A) \in Nat
  BY Zenon, <1>3, FS_CardinalityType
<1> QED
  BY <1>2, <1>3, <1>4

-----------------------------------------------------------------------------
(***************************************************************************)
(* What the operations on the indexes do.                                  *)
(***************************************************************************)
\* The parts of a directory.
LEMMA DirectoryShape ==
  ASSUME NEW d \in Directories
  PROVE  /\ d.ads \in [Identities -> Advertisements] /\ d.retired \in [Identities -> Retirements]
         /\ d.absent \in [Owners -> 0 .. AbsentPerOwner]
         /\ d.expired \in [Keys -> 0 .. MaxTime + LeaseTtl]
BY Zenon DEF Directories

\* After a call the indexes are the ones it stores.
LEMMA StoreIs ==
  ASSUME NEW d \in Directories, Store(d)
  PROVE  Directory' = d
<1>1. Directory' = [ads |-> d.ads, retired |-> d.retired, absent |-> d.absent, expired |-> d.expired]
  BY Zenon DEF Store, Directory
<1> QED
  BY Zenon, <1>1 DEF Directories

\* The expiry history is not part of what DirOK says.
LEMMA SameIndexes ==
  ASSUME NEW d, DirOK(d), NEW e \in Directories,
         e.ads = d.ads, e.retired = d.retired, e.absent = d.absent
  PROVE  DirOK(e)
<1>1. Live(e) = Live(d) /\ Retired(e) = Retired(d) /\ \A o : Counted(e, o) = Counted(d, o)
  BY Zenon DEF Live, Retired, Counted
<1> QED
  BY Zenon, <1>1 DEF DirOK, Room

\* ExpiredAdvertisementHistory::forget leaves the indexes alone.
LEMMA forgetEffect ==
  ASSUME NEW d \in Directories, NEW keys
  PROVE  /\ forget(d, keys) \in Directories
         /\ forget(d, keys).ads = d.ads /\ forget(d, keys).retired = d.retired
         /\ forget(d, keys).absent = d.absent
<1>1. [k \in Keys |-> IF k \in keys THEN None ELSE d.expired[k]] \in [Keys -> 0 .. MaxTime + LeaseTtl]
  BY DirectoryShape, Constants DEF None
<1> QED
  BY Zenon, <1>1 DEF forget, Directories

\* ExpiredAdvertisementHistory::record leaves the indexes alone, whatever its
\* capacity drops.
LEMMA recordEffect ==
  ASSUME now \in Times, NEW d \in Directories, NEW keys, NEW e \in record(d, keys)
  PROVE  /\ e \in Directories
         /\ e.ads = d.ads /\ e.retired = d.retired /\ e.absent = d.absent
<1> DEFINE kept == {k \in Keys : d.expired[k] > now} \ keys
           fresh == IF LeaseTtl > 0 THEN keys ELSE {}
           until == [k \in Keys |-> IF k \in fresh THEN now + LeaseTtl
                                    ELSE IF k \in kept THEN d.expired[k] ELSE None]
<1>1. PICK s : e = [d EXCEPT !.expired = [k \in Keys |-> IF k \in s THEN until[k] ELSE None]]
  BY Zenon DEF record
<1>2. until \in [Keys -> 0 .. MaxTime + LeaseTtl]
  <2> HIDE DEF kept, fresh
  <2> QED
    BY DirectoryShape, Constants DEF None, Times
<1> HIDE DEF until
<1>3. [k \in Keys |-> IF k \in s THEN until[k] ELSE None] \in [Keys -> 0 .. MaxTime + LeaseTtl]
  BY <1>2, Constants DEF None
<1> QED
  BY Zenon, <1>1, <1>3 DEF Directories

\* What prune leaves of the advertisement and of the retirement of an identity.
Unexpired(d, i) == IF i \in Live(d) /\ d.ads[i].expires <= now THEN NoAd ELSE d.ads[i]
Retained(d, i) == IF i \in Retired(d) /\ d.retired[i].until <= now THEN NotRetired ELSE d.retired[i]

\* prune drops exactly what is over, and returns the allowance of every absent
\* retirement it drops.
LEMMA pruneEffect ==
  ASSUME now \in Times, NEW d, DirOK(d), NEW e \in prune(d)
  PROVE  /\ DirOK(e)
         /\ \A i \in Identities : e.ads[i] = Unexpired(d, i) /\ e.retired[i] = Retained(d, i)
<1> DEFINE over == {i \in Retired(d) : d.retired[i].until <= now}
           gone == {i \in Live(d) : d.ads[i].expires <= now}
           R(o) == {i \in over \cap Of(o) : d.retired[i].source = "Absent"}
           ads == [i \in Identities |-> IF i \in gone THEN NoAd ELSE d.ads[i]]
           ret == [i \in Identities |-> IF i \in over THEN NotRetired ELSE d.retired[i]]
           abs == [o \in Owners |-> d.absent[o] - Cardinality(R(o))]
           c == [d EXCEPT !.retired = ret, !.absent = abs, !.ads = ads]
<1>0. d \in Directories
  BY Zenon DEF DirOK
<1>1. /\ e \in record(c, {i[1] : i \in gone})
  BY Zenon DEF prune
<1>2. ads \in [Identities -> Advertisements]
  <2>1. NoAd \in Advertisements
    BY Constants DEF NoAd, Advertisements, None
  <2> QED
    BY Zenon, <1>0, <2>1, DirectoryShape
<1>3. ret \in [Identities -> Retirements]
  <2>1. NotRetired \in Retirements
    BY Constants DEF NotRetired, Retirements
  <2> QED
    BY Zenon, <1>0, <2>1, DirectoryShape
<1>4. ASSUME NEW o \in Owners
      PROVE  /\ abs[o] \in 0 .. AbsentPerOwner /\ abs[o] = Cardinality(Counted(d, o) \ R(o))
  <2>1. R(o) \in SUBSET Counted(d, o)
    BY Zenon DEF Counted
  <2>2. /\ Cardinality(Counted(d, o) \ R(o)) = Cardinality(Counted(d, o)) - Cardinality(R(o))
        /\ Cardinality(R(o)) \in 0 .. Cardinality(Counted(d, o)) /\ Cardinality(Counted(d, o)) \in Nat
    <3> HIDE DEF R
    <3> QED
      BY Zenon, <2>1, IdentitySets, RemoveCount
  <2>3. d.absent[o] = Cardinality(Counted(d, o)) /\ d.absent[o] \in 0 .. AbsentPerOwner
    BY Zenon, <1>0, DirectoryShape DEF DirOK
  <2>4. abs[o] = d.absent[o] - Cardinality(R(o))
    BY Zenon
  <2> HIDE DEF R, abs
  <2> QED
    BY <2>2, <2>3, <2>4, Constants
<1>5. abs \in [Owners -> 0 .. AbsentPerOwner]
  BY Zenon, <1>4
<1>6. c \in Directories /\ c.ads = ads /\ c.retired = ret /\ c.absent = abs
  <2> HIDE DEF ads, ret, abs
  <2> QED
    BY Zenon, <1>0, <1>2, <1>3, <1>5 DEF Directories
<1>7. e \in Directories /\ e.ads = ads /\ e.retired = ret /\ e.absent = abs
  <2> DEFINE K == {i[1] : i \in gone}
  <2>1. e \in record(c, K)
    BY Zenon, <1>1
  <2> HIDE DEF c, K, ads, ret, abs
  <2>2. e \in Directories /\ e.ads = c.ads /\ e.retired = c.retired /\ e.absent = c.absent
    BY Zenon, <1>6, <2>1, recordEffect
  <2> QED
    BY Zenon, <1>6, <2>2
<1>8. \A i \in Identities : e.ads[i] = Unexpired(d, i) /\ e.retired[i] = Retained(d, i)
  BY Zenon, <1>7 DEF Unexpired, Retained
<1>9. Live(e) \subseteq Live(d) /\ Retired(e) \subseteq Retired(d)
  BY Zenon, <1>8 DEF Unexpired, Retained, Live, Retired
<1>10. Room(e)
  <2>1. /\ {} \in SUBSET Live(d) /\ Live(e) \subseteq Live(d) \ {} /\ Retired(e) \subseteq Retired(d) \cup {}
        /\ Room(d)
    BY Zenon, <1>9 DEF DirOK
  <2> QED
    BY Zenon, <2>1, MoveRoom
<1>11. \A i \in Live(e) : e.ads[i].generation \in Generations
  BY Zenon, <1>8 DEF DirOK, Unexpired, Live
<1>12. \A i \in Retired(e) : e.retired[i].source # "none"
  BY Zenon, <1>8 DEF DirOK, Retained, Retired
<1>13. ASSUME NEW o \in Owners
       PROVE  Counted(e, o) = Counted(d, o) \ R(o)
  <2>1. NotRetired.source # "Absent" /\ Of(o) \subseteq Identities
    BY Zenon DEF NotRetired, Of
  <2>2. ASSUME NEW i \in Of(o)
        PROVE  e.retired[i].source = "Absent" <=> d.retired[i].source = "Absent" /\ i \notin R(o)
    <3>1. i \in Identities /\ (i \in R(o) <=> i \in over /\ d.retired[i].source = "Absent")
      BY Zenon, <2>1
    <3>2. e.retired[i] = IF i \in over THEN NotRetired ELSE d.retired[i]
      BY Zenon, <3>1, <1>7
    <3> QED
      BY Zenon, <3>1, <3>2, <2>1
  <2> QED
    BY Zenon, <2>2 DEF Counted
<1> QED
  BY Zenon, <1>4, <1>7, <1>8, <1>10, <1>11, <1>12, <1>13 DEF DirOK

\* Until when a retirement may be retained.
Deadlines == 0 .. MaxTime + AdTtl + LeaseTtl

\* The retirement m that a retirement r and a request to retire g until u give.
Merged(r, m, g, u) ==
    /\ m.generation \in {r.generation, g} /\ m.generation >= r.generation /\ m.generation >= g
    /\ m.until >= r.until /\ m.until >= u

\* merge_retirement never lowers a generation or a deadline.
LEMMA mergeEffect ==
  ASSUME NEW r \in Retirements, NEW g \in 0 .. MaxGeneration, NEW u \in Deadlines,
         NEW s \in {"Absent", "LiveAdvertisement"}
  PROVE  /\ merge_retirement(r, g, u, s) \in Retirements /\ merge_retirement(r, g, u, s) # NotRetired
         /\ merge_retirement(r, g, u, s).source = s /\ Merged(r, merge_retirement(r, g, u, s), g, u)
<1> DEFINE a == Max({r.generation, g})  b == Max({r.until, u})
<1>1. /\ r.generation \in 0 .. MaxGeneration /\ r.until \in Deadlines
      /\ r.generation \in Int /\ r.until \in Int /\ g \in Int /\ u \in Int
  BY Constants DEF Retirements, Deadlines
<1>2. /\ a \in {r.generation, g} /\ a >= r.generation /\ a >= g
      /\ b \in {r.until, u} /\ b >= r.until /\ b >= u
  BY Zenon, <1>1, MaxMin
<1>3. merge_retirement(r, g, u, s) = [generation |-> a, until |-> b, source |-> s]
  BY Zenon DEF merge_retirement
<1> HIDE DEF a, b
<1>4. a \in 0 .. MaxGeneration /\ b \in Deadlines
  BY Zenon, <1>1, <1>2
<1>5. /\ [generation |-> a, until |-> b, source |-> s] \in Retirements
  BY Zenon, <1>4 DEF Retirements, Deadlines
<1>6. [generation |-> a, until |-> b, source |-> s] # NotRetired
  BY Zenon DEF NotRetired
<1> QED
  BY <1>2, <1>3, <1>5, <1>6 DEF Merged

\* AdvertisementIndex::insert: an advertisement replaces the one of its identity or
\* takes the room of a new one.
LEMMA insertEffect ==
  ASSUME NEW d, DirOK(d), NEW i \in Identities, NEW ad \in Advertisements,
         ad.generation \in Generations, i \in Live(d) \/ ensure_new_identity(d, i[2])
  PROVE  /\ DirOK([d EXCEPT !.ads[i] = ad])
         /\ [d EXCEPT !.ads[i] = ad].retired = d.retired
         /\ \A j \in Identities : [d EXCEPT !.ads[i] = ad].ads[j] = IF j = i THEN ad ELSE d.ads[j]
<1> DEFINE e == [d EXCEPT !.ads[i] = ad]
<1>0. d \in Directories
  BY Zenon DEF DirOK
<1>1. e \in Directories /\ e.ads = [d.ads EXCEPT ![i] = ad] /\ e.retired = d.retired /\ e.absent = d.absent
  BY Zenon, <1>0 DEF Directories
<1> HIDE DEF e
<1>2. \A j \in Identities : e.ads[j] = IF j = i THEN ad ELSE d.ads[j]
  BY Zenon, <1>0, <1>1, DirectoryShape
<1>3. /\ Live(e) \subseteq Live(d) \cup {i} /\ Retired(e) = Retired(d)
      /\ \A o : Counted(e, o) = Counted(d, o)
  BY Zenon, <1>1, <1>2 DEF Live, Retired, Counted
<1>4. Room(e)
  <2>1. CASE i \in Live(d)
    <3>1. /\ {} \in SUBSET Live(d) /\ Live(e) \subseteq Live(d) \ {} /\ Retired(e) \subseteq Retired(d) \cup {}
          /\ Room(d)
      BY Zenon, <1>3, <2>1 DEF DirOK
    <3> QED
      BY Zenon, <3>1, MoveRoom
  <2>2. CASE ensure_new_identity(d, i[2])
    <3>1. Retired(e) \subseteq Retired(d) \cup {i} /\ Room(d)
      BY Zenon, <1>3 DEF DirOK
    <3> QED
      BY Zenon, <2>2, <3>1, <1>3, AddRoom
  <2> QED
    BY Zenon, <2>1, <2>2
<1>5. \A j \in Live(e) : e.ads[j].generation \in Generations
  BY Zenon, <1>2 DEF DirOK, Live
<1>6. DirOK(e)
  BY Zenon, <1>1, <1>3, <1>4, <1>5 DEF DirOK
<1> QED
  BY Zenon, <1>1, <1>2, <1>6 DEF e

\* An advertisement taken out (AdvertisementIndex::remove).
Withdraw(d, i) == [d EXCEPT !.ads[i] = NoAd]

\* Taking an advertisement out leaves the other identities and every retirement.
LEMMA WithdrawEffect ==
  ASSUME NEW d, DirOK(d), NEW i \in Identities
  PROVE  /\ DirOK(Withdraw(d, i)) /\ Withdraw(d, i).retired = d.retired
         /\ \A j \in Identities : Withdraw(d, i).ads[j] = IF j = i THEN NoAd ELSE d.ads[j]
<1> DEFINE e == Withdraw(d, i)
<1>0. d \in Directories /\ NoAd \in Advertisements
  BY Constants DEF DirOK, NoAd, Advertisements, None
<1>1. e \in Directories /\ e.ads = [d.ads EXCEPT ![i] = NoAd] /\ e.retired = d.retired /\ e.absent = d.absent
  BY Zenon, <1>0 DEF Directories, Withdraw
<1> HIDE DEF e
<1>2. \A j \in Identities : e.ads[j] = IF j = i THEN NoAd ELSE d.ads[j]
  BY Zenon, <1>0, <1>1, DirectoryShape
<1>3. /\ Live(e) \subseteq Live(d) /\ Retired(e) = Retired(d)
      /\ \A o : Counted(e, o) = Counted(d, o)
  BY Zenon, <1>1, <1>2 DEF Live, Retired, Counted
<1>4. Room(e)
  <2>1. /\ {} \in SUBSET Live(d) /\ Live(e) \subseteq Live(d) \ {} /\ Retired(e) \subseteq Retired(d) \cup {}
        /\ Room(d)
    BY Zenon, <1>3 DEF DirOK
  <2> QED
    BY Zenon, <2>1, MoveRoom
<1>5. \A j \in Live(e) : e.ads[j].generation \in Generations
  BY Zenon, <1>2 DEF DirOK, Live
<1>6. DirOK(e)
  BY Zenon, <1>1, <1>3, <1>4, <1>5 DEF DirOK
<1> QED
  BY Zenon, <1>1, <1>2, <1>6 DEF e

\* retire_absent of a known identity, or of a new one that fits, merges its
\* retirement and takes one unit of the allowance for the new one only.
LEMMA retire_absentEffect ==
  ASSUME NEW d, DirOK(d), NEW i \in Identities, NEW g \in Generations, NEW u \in Deadlines,
         i \in Retired(d) \/ (ensure_new_identity(d, i[2]) /\ RetirementFits(d, i[2], TRUE))
  PROVE  /\ DirOK(retire_absent(d, i, g, u)) /\ retire_absent(d, i, g, u).ads = d.ads
         /\ Merged(d.retired[i], retire_absent(d, i, g, u).retired[i], g, u)
         /\ \A j \in Identities : j # i => retire_absent(d, i, g, u).retired[j] = d.retired[j]
<1> DEFINE e == retire_absent(d, i, g, u)
           s == IF i \in Retired(d) THEN d.retired[i].source ELSE "Absent"
           m == merge_retirement(d.retired[i], g, u, s)
           o == i[2]
<1>0. /\ d \in Directories /\ o \in Owners /\ g \in 0 .. MaxGeneration
      /\ d.retired[i] \in Retirements
  BY DirectoryShape, Constants DEF DirOK, Identities, Generations
<1>1. s \in {"Absent", "LiveAdvertisement"}
  BY Zenon, <1>0 DEF DirOK, Retirements
<1>2. m \in Retirements /\ m # NotRetired /\ m.source = s /\ Merged(d.retired[i], m, g, u)
  <2> HIDE DEF s
  <2> QED
    BY Zenon, <1>0, <1>1, mergeEffect
<1>3. /\ e.ads = d.ads /\ e.retired = [d.retired EXCEPT ![i] = m] /\ e.expired = d.expired
      /\ e.absent = IF i \in Retired(d) THEN d.absent ELSE [d.absent EXCEPT ![o] = @ + 1]
  <2>1. CASE i \in Retired(d)
    <3>1. e = [d EXCEPT !.retired = [d.retired EXCEPT ![i] = m]]
      BY Zenon, <2>1, <1>0 DEF retire_absent, Directories
    <3> HIDE DEF e, m, s
    <3> QED
      BY Zenon, <2>1, <3>1, <1>0 DEF Directories
  <2>2. CASE i \notin Retired(d)
    <3>1. e = [d EXCEPT !.retired[i] = m, !.absent[o] = @ + 1]
      BY Zenon, <2>2, <1>0 DEF retire_absent
    <3> HIDE DEF e, m, s
    <3> QED
      BY Zenon, <2>2, <3>1, <1>0 DEF Directories
  <2> QED
    BY Zenon, <2>1, <2>2
<1>4. /\ e.retired[i] = m /\ \A j \in Identities : j # i => e.retired[j] = d.retired[j]
  BY Zenon, <1>0, <1>3, DirectoryShape
<1>5. e.absent \in [Owners -> 0 .. AbsentPerOwner]
  <2>1. i \notin Retired(d) => d.absent[o] < AbsentPerOwner
    BY Zenon DEF RetirementFits
  <2>2. i \notin Retired(d) => d.absent[o] + 1 \in 0 .. AbsentPerOwner
    BY <2>1, <1>0, DirectoryShape, Constants
  <2>3. d.absent \in [Owners -> 0 .. AbsentPerOwner]
    BY Zenon, <1>0, DirectoryShape
  <2> HIDE DEF e
  <2> QED
    BY Zenon, <2>2, <2>3, <1>3
<1>6. e \in Directories
  <2>1. e.retired \in [Identities -> Retirements]
    <3>1. d.retired \in [Identities -> Retirements]
      BY Zenon, <1>0, DirectoryShape
    <3> HIDE DEF e, m
    <3> QED
      BY Zenon, <1>2, <1>3, <3>1
  <2>2. e = [ads |-> e.ads, retired |-> e.retired, absent |-> e.absent, expired |-> e.expired]
    BY Zenon, <1>0 DEF retire_absent, Directories
  <2>3. e.ads \in [Identities -> Advertisements] /\ e.expired \in [Keys -> 0 .. MaxTime + LeaseTtl]
    BY Zenon, <1>0, <1>3, DirectoryShape
  <2> HIDE DEF e
  <2> QED
    BY Zenon, <2>1, <2>2, <2>3, <1>5 DEF Directories
<1> HIDE DEF e, m
<1>7. Live(e) = Live(d) /\ Retired(e) = Retired(d) \cup {i}
  BY Zenon, <1>2, <1>3, <1>4 DEF Live, Retired
<1>8. Room(e)
  <2>1. CASE i \in Retired(d)
    <3>1. /\ {} \in SUBSET Live(d) /\ Live(e) \subseteq Live(d) \ {} /\ Retired(e) \subseteq Retired(d) \cup {}
          /\ Room(d)
      BY Zenon, <1>7, <2>1 DEF DirOK
    <3> QED
      BY Zenon, <3>1, MoveRoom
  <2>2. CASE i \notin Retired(d)
    <3>1. /\ Room(d) /\ ensure_new_identity(d, i[2]) /\ Live(e) \subseteq Live(d) \cup {i}
          /\ Retired(e) \subseteq Retired(d) \cup {i} /\ Live(e) \subseteq Live(d)
      BY Zenon, <1>7, <2>2 DEF DirOK
    <3> QED
      BY Zenon, <3>1, AddRoom
  <2> QED
    BY Zenon, <2>1, <2>2
<1>9. ASSUME NEW p \in Owners
      PROVE  e.absent[p] = Cardinality(Counted(e, p))
  <2>0. Of(p) \subseteq Identities /\ d.absent[p] = Cardinality(Counted(d, p))
    BY Zenon DEF Of, DirOK
  <2>1. CASE i \in Retired(d) \/ p # o
    <3>1. /\ e.absent[p] = d.absent[p]
      BY Zenon, <2>1, <1>0, <1>3, DirectoryShape
    <3>2. ASSUME NEW j \in Of(p)
          PROVE  e.retired[j].source = "Absent" <=> d.retired[j].source = "Absent"
      <4>1. CASE j = i
        BY Zenon, <4>1, <2>1, <1>2, <1>4 DEF Of
      <4>2. CASE j # i
        BY Zenon, <4>2, <2>0, <1>4
      <4> QED
        BY Zenon, <4>1, <4>2
    <3>3. Counted(e, p) = Counted(d, p)
      BY Zenon, <3>2 DEF Counted
    <3> QED
      BY Zenon, <2>0, <3>1, <3>3
  <2>2. CASE i \notin Retired(d) /\ p = o
    <3>1. e.absent[p] = d.absent[p] + 1
      BY Zenon, <2>2, <1>0, <1>3, DirectoryShape
    <3>2. i \notin Counted(d, p)
      <4>1. d.retired[i] = NotRetired /\ NotRetired.source # "Absent"
        BY Zenon, <2>2 DEF Retired, NotRetired
      <4> QED
        BY Zenon, <4>1 DEF Counted
    <3>3. i \in Of(p) /\ e.retired[i].source = "Absent"
      BY Zenon, <2>2, <1>2, <1>4 DEF Of
    <3>4. Counted(e, p) = Counted(d, p) \cup {i}
      BY Zenon, <2>0, <3>2, <3>3, <1>4 DEF Counted
    <3> QED
      BY Zenon, <2>0, <3>1, <3>2, <3>4, FS_AddElement, IdentitySets
  <2> QED
    BY Zenon, <2>1, <2>2
<1>10. \A j \in Live(e) : e.ads[j].generation \in Generations
  BY Zenon, <1>3, <1>7 DEF DirOK
<1>11. ASSUME NEW j \in Retired(e)
       PROVE  e.retired[j].source # "none"
  <2>1. CASE j = i
    <3>1. s # "none"
      BY Zenon, <1>1
    <3> QED
      BY Zenon, <2>1, <3>1, <1>2, <1>4
  <2>2. CASE j # i
    BY Zenon, <2>2, <1>4, <1>7 DEF DirOK, Retired
  <2> QED
    BY Zenon, <2>1, <2>2
<1>12. DirOK(e)
  BY Zenon, <1>6, <1>8, <1>9, <1>10, <1>11 DEF DirOK
<1> QED
  BY Zenon, <1>2, <1>3, <1>4, <1>12 DEF e

\* Changing a function at one point.
LEMMA Except ==
  ASSUME NEW S, NEW T, NEW f \in [S -> T], NEW x \in S, NEW v, NEW g, g = [f EXCEPT ![x] = v]
  PROVE  /\ g = [y \in S |-> IF y = x THEN v ELSE f[y]]
         /\ \A y \in S : g[y] = IF y = x THEN v ELSE f[y]
         /\ v \in T => g \in [S -> T]
BY Zenon

\* Advertisements M withdrawn together, the part N of them retired as live ones.
Withdrawn(d, e, M, N) ==
    /\ e = [ads |-> e.ads, retired |-> e.retired, absent |-> e.absent, expired |-> e.expired]
    /\ e.ads \in [Identities -> Advertisements] /\ e.retired \in [Identities -> Retirements]
    /\ e.expired \in [Keys -> 0 .. MaxTime + LeaseTtl] /\ e.absent = [p \in Owners |-> e.absent[p]]
    /\ \A j \in Identities : e.ads[j] = IF j \in M THEN NoAd ELSE d.ads[j]
    /\ \A j \in N : e.retired[j].source = "LiveAdvertisement"
    /\ \A j \in Identities \ N : e.retired[j] = d.retired[j]
    /\ \A p \in Owners : e.absent[p] = d.absent[p]
                           - Cardinality({j \in N \cap Of(p) : d.retired[j].source = "Absent"})

\* Retiring live advertisements returns the allowance of those that were retired in
\* advance, and stays within the room.
LEMMA retireEffect ==
  ASSUME NEW d, DirOK(d), NEW M \in SUBSET Live(d), NEW N \in SUBSET M, NEW e, Withdrawn(d, e, M, N)
  PROVE  DirOK(e)
<1> DEFINE R(p) == {j \in N \cap Of(p) : d.retired[j].source = "Absent"}
<1>0. d \in Directories /\ Live(d) \subseteq Identities
  BY Zenon DEF DirOK, Live
<1>1. ASSUME NEW p \in Owners
      PROVE  /\ e.absent[p] \in 0 .. AbsentPerOwner /\ e.absent[p] = Cardinality(Counted(e, p))
  <2>1. R(p) \in SUBSET Counted(d, p)
    BY Zenon DEF Counted
  <2>2. /\ Cardinality(Counted(d, p) \ R(p)) = Cardinality(Counted(d, p)) - Cardinality(R(p))
        /\ Cardinality(R(p)) \in 0 .. Cardinality(Counted(d, p)) /\ Cardinality(Counted(d, p)) \in Nat
    <3> HIDE DEF R
    <3> QED
      BY Zenon, <2>1, IdentitySets, RemoveCount
  <2>3. d.absent[p] = Cardinality(Counted(d, p)) /\ d.absent[p] \in 0 .. AbsentPerOwner
    BY Zenon, <1>0, DirectoryShape DEF DirOK
  <2>4. e.absent[p] = d.absent[p] - Cardinality(R(p))
    BY Zenon DEF Withdrawn
  <2>5. ASSUME NEW j \in Of(p)
        PROVE  e.retired[j].source = "Absent" <=> d.retired[j].source = "Absent" /\ j \notin R(p)
    <3>1. CASE j \in N
      <4>1. e.retired[j].source # "Absent"
        BY Zenon, <3>1 DEF Withdrawn
      <4> QED
        BY Zenon, <3>1, <4>1
    <3>2. CASE j \notin N
      <4>1. j \in Identities \ N
        BY Zenon, <3>2 DEF Of
      <4> QED
        BY Zenon, <3>2, <4>1 DEF Withdrawn
    <3> QED
      BY Zenon, <3>1, <3>2
  <2>6. Counted(e, p) = Counted(d, p) \ R(p)
    BY Zenon, <2>5 DEF Counted
  <2>7. e.absent[p] = Cardinality(Counted(e, p))
    BY Zenon, <2>2, <2>3, <2>4, <2>6
  <2> HIDE DEF R
  <2>8. e.absent[p] \in 0 .. AbsentPerOwner
    BY <2>2, <2>3, <2>4, Constants
  <2> QED
    BY Zenon, <2>7, <2>8
<1>2. e.absent \in [Owners -> 0 .. AbsentPerOwner]
  BY Zenon, <1>1 DEF Withdrawn
<1>3. e \in Directories
  BY Zenon, <1>2 DEF Directories, Withdrawn
<1>4. Live(e) \subseteq Live(d) \ M
  BY Zenon DEF Live, Withdrawn
<1>5. Retired(e) \subseteq Retired(d) \cup M
  BY Zenon DEF Retired, Withdrawn
<1>6. Room(e)
  BY Zenon, <1>4, <1>5, MoveRoom DEF DirOK
<1>7. \A j \in Live(e) : e.ads[j].generation \in Generations
  BY Zenon, <1>4 DEF DirOK, Live, Withdrawn
<1>8. ASSUME NEW j \in Retired(e)
      PROVE  e.retired[j].source # "none"
  <2>1. CASE j \in N
    <3>1. "LiveAdvertisement" # "none"
      OBVIOUS
    <3> QED
      BY Zenon, <2>1, <3>1 DEF Withdrawn
  <2>2. CASE j \notin N
    BY Zenon, <2>2 DEF DirOK, Retired, Withdrawn
  <2> QED
    BY Zenon, <2>1, <2>2
<1> QED
  BY Zenon, <1>1, <1>3, <1>6, <1>7, <1>8 DEF DirOK

\* A live advertisement of identity i withdrawn and retired as g until u.
RetiredLive(d, e, i, g, u) ==
    /\ DirOK(e) /\ Merged(d.retired[i], e.retired[i], g, u)
    /\ \A j \in Identities : e.ads[j] = IF j = i THEN NoAd ELSE d.ads[j]
    /\ \A j \in Identities : j # i => e.retired[j] = d.retired[j]

\* retire_live followed by the removal of the advertisement, as invalidate does it.
LEMMA retire_liveEffect ==
  ASSUME NEW d, DirOK(d), NEW i \in Live(d), NEW g \in Generations, NEW u \in Deadlines
  PROVE  RetiredLive(d, Withdraw(retire_live(d, i, g, u), i), i, g, u)
<1> DEFINE e == Withdraw(retire_live(d, i, g, u), i)
           m == merge_retirement(d.retired[i], g, u, "LiveAdvertisement")
           o == i[2]
           n == IF d.retired[i].source = "Absent" THEN 1 ELSE 0
<1>0. /\ d \in Directories /\ i \in Identities /\ o \in Owners /\ g \in 0 .. MaxGeneration
      /\ d.retired[i] \in Retirements
  BY DirectoryShape, Constants DEF DirOK, Live, Identities, Generations
<1>1. m \in Retirements /\ m # NotRetired /\ m.source = "LiveAdvertisement" /\ Merged(d.retired[i], m, g, u)
  BY Zenon, <1>0, mergeEffect
<1>2. /\ d.ads \in [Identities -> Advertisements] /\ d.retired \in [Identities -> Retirements]
      /\ d.absent \in [Owners -> 0 .. AbsentPerOwner] /\ d.expired \in [Keys -> 0 .. MaxTime + LeaseTtl]
      /\ NoAd \in Advertisements
  <2>1. NoAd \in Advertisements
    BY Constants DEF NoAd, Advertisements, None
  <2> QED
    BY Zenon, <1>0, <2>1, DirectoryShape
<1>3. e = [[d EXCEPT !.retired[i] = m, !.absent[o] = @ - n] EXCEPT !.ads[i] = NoAd]
  BY Zenon DEF retire_live, Withdraw
<1> HIDE DEF e, m, n
<1>4. /\ e.ads = [d.ads EXCEPT ![i] = NoAd] /\ e.retired = [d.retired EXCEPT ![i] = m]
      /\ e.absent = [d.absent EXCEPT ![o] = @ - n] /\ e.expired = d.expired
      /\ e = [ads |-> e.ads, retired |-> e.retired, absent |-> e.absent, expired |-> e.expired]
  BY Zenon, <1>0, <1>3 DEF Directories
<1>5. /\ e.ads \in [Identities -> Advertisements]
      /\ \A j \in Identities : e.ads[j] = IF j = i THEN NoAd ELSE d.ads[j]
  <2>1. d.ads \in [Identities -> Advertisements] /\ i \in Identities /\ e.ads = [d.ads EXCEPT ![i] = NoAd]
        /\ NoAd \in Advertisements
    BY Zenon, <1>0, <1>2, <1>4
  <2> QED
    BY Zenon, <2>1
<1>6. /\ e.absent = [p \in Owners |-> IF p = o THEN d.absent[o] - n ELSE d.absent[p]]
  <2>1. d.absent \in [Owners -> 0 .. AbsentPerOwner] /\ o \in Owners
        /\ e.absent = [d.absent EXCEPT ![o] = d.absent[o] - n]
    BY Zenon, <1>0, <1>2, <1>4
  <2> HIDE DEF o
  <2> QED
    BY Zenon, <2>1, Except
<1>7. /\ e.retired \in [Identities -> Retirements]
      /\ e.retired[i] = m /\ \A j \in Identities \ {i} : e.retired[j] = d.retired[j]
  <2>1. d.retired \in [Identities -> Retirements] /\ i \in Identities /\ e.retired = [d.retired EXCEPT ![i] = m]
    BY Zenon, <1>0, <1>2, <1>4
  <2> QED
    BY Zenon, <2>1, <1>1
<1>8. ASSUME NEW p \in Owners
      PROVE  Cardinality({j \in {i} \cap Of(p) : d.retired[j].source = "Absent"}) = IF p = o THEN n ELSE 0
  <2> DEFINE S == {j \in {i} \cap Of(p) : d.retired[j].source = "Absent"}
  <2>1. CASE p = o /\ d.retired[i].source = "Absent"
    <3>1. S = {i}
      BY Zenon, <2>1, <1>0 DEF Of
    <3> HIDE DEF S
    <3> QED
      BY Zenon, <2>1, <3>1, FS_Singleton DEF n, S
  <2>2. CASE ~ (p = o /\ d.retired[i].source = "Absent")
    <3>1. S = {}
      BY Zenon, <2>2, <1>0 DEF Of
    <3> HIDE DEF S
    <3> QED
      BY Zenon, <2>2, <3>1, FS_EmptySet DEF n, S
  <2> QED
    BY Zenon, <2>1, <2>2
<1>9. DirOK(e)
  <2>1. {i} \in SUBSET Live(d) /\ {i} \in SUBSET {i} /\ \A j \in {i} : e.retired[j].source = "LiveAdvertisement"
    BY Zenon, <1>1, <1>7
  <2>2. ASSUME NEW p \in Owners
        PROVE  e.absent[p] = d.absent[p]
                 - Cardinality({j \in {i} \cap Of(p) : d.retired[j].source = "Absent"})
    <3> DEFINE c == Cardinality({j \in {i} \cap Of(p) : d.retired[j].source = "Absent"})
    <3>1. c = IF p = o THEN n ELSE 0
      BY Zenon, <1>8
    <3>2. e.absent[p] = IF p = o THEN d.absent[o] - n ELSE d.absent[p]
      BY Zenon, <1>6
    <3>3. d.absent[p] \in Int
      BY <1>2
    <3> HIDE DEF c
    <3>4. e.absent[p] = d.absent[p] - c
      BY <3>1, <3>2, <3>3
    <3> QED
      BY Zenon, <3>4 DEF c
  <2>3. e.expired \in [Keys -> 0 .. MaxTime + LeaseTtl] /\ e.absent = [p \in Owners |-> e.absent[p]]
    BY Zenon, <1>2, <1>4, <1>6
  <2>4. \A j \in Identities : e.ads[j] = IF j \in {i} THEN NoAd ELSE d.ads[j]
    BY Zenon, <1>5
  <2>5. Withdrawn(d, e, {i}, {i})
    BY Zenon, <2>1, <2>2, <2>3, <2>4, <1>4, <1>5, <1>7 DEF Withdrawn
  <2> QED
    BY Zenon, <2>1, <2>5, retireEffect
<1>10. RetiredLive(d, e, i, g, u)
  BY Zenon, <1>0, <1>1, <1>5, <1>7, <1>9 DEF RetiredLive
<1> QED
  BY Zenon, <1>10 DEF e

\* clear_owner_metadata drops every record of the owner, with its whole allowance,
\* and no other.
LEMMA clear_owner_metadataEffect ==
  ASSUME NEW d, DirOK(d), NEW o \in Owners
  PROVE  /\ DirOK(clear_owner_metadata(d, o))
         /\ \A i \in Identities :
              /\ clear_owner_metadata(d, o).ads[i] = IF i[2] = o THEN NoAd ELSE d.ads[i]
              /\ clear_owner_metadata(d, o).retired[i] = IF i[2] = o THEN NotRetired ELSE d.retired[i]
<1> DEFINE ads == [i \in Identities |-> IF i[2] = o THEN NoAd ELSE d.ads[i]]
           ret == [i \in Identities |-> IF i[2] = o THEN NotRetired ELSE d.retired[i]]
           K == {i[1] : i \in (Live(d) \cup Retired(d)) \cap Of(o)}
           c == [d EXCEPT !.ads = ads, !.retired = ret, !.absent[o] = 0]
           e == clear_owner_metadata(d, o)
<1>0. d \in Directories
  BY Zenon DEF DirOK
<1>1. /\ d.ads \in [Identities -> Advertisements] /\ d.retired \in [Identities -> Retirements]
      /\ d.absent \in [Owners -> 0 .. AbsentPerOwner]
  BY Zenon, <1>0, DirectoryShape
<1>2. ads \in [Identities -> Advertisements] /\ ret \in [Identities -> Retirements]
  <2>1. NoAd \in Advertisements /\ NotRetired \in Retirements
    BY Constants DEF NoAd, NotRetired, Advertisements, Retirements, None
  <2> QED
    BY Zenon, <1>1, <2>1
<1>3. [d.absent EXCEPT ![o] = 0] \in [Owners -> 0 .. AbsentPerOwner]
  BY <1>1, Constants
<1>4. c \in Directories /\ c.ads = ads /\ c.retired = ret /\ c.absent = [d.absent EXCEPT ![o] = 0]
  <2> HIDE DEF ads, ret
  <2> QED
    BY Zenon, <1>0, <1>2, <1>3 DEF Directories
<1>5. e = forget(c, K)
  BY Zenon DEF clear_owner_metadata
<1>6. e \in Directories /\ e.ads = ads /\ e.retired = ret /\ e.absent = [d.absent EXCEPT ![o] = 0]
  <2> HIDE DEF c, K, ads, ret, e
  <2> QED
    BY Zenon, <1>4, <1>5, forgetEffect
<1>7. \A i \in Identities : /\ e.ads[i] = IF i[2] = o THEN NoAd ELSE d.ads[i]
                            /\ e.retired[i] = IF i[2] = o THEN NotRetired ELSE d.retired[i]
  BY Zenon, <1>6
<1> HIDE DEF e
<1>8. Live(e) \subseteq Live(d) /\ Retired(e) \subseteq Retired(d)
  BY Zenon, <1>7 DEF Live, Retired
<1>9. Room(e)
  <2>1. /\ {} \in SUBSET Live(d) /\ Live(e) \subseteq Live(d) \ {} /\ Retired(e) \subseteq Retired(d) \cup {}
        /\ Room(d)
    BY Zenon, <1>8 DEF DirOK
  <2> QED
    BY Zenon, <2>1, MoveRoom
<1>10. ASSUME NEW p \in Owners
       PROVE  e.absent[p] = Cardinality(Counted(e, p))
  <2>1. CASE p = o
    <3>1. NotRetired.source # "Absent"
      BY Zenon DEF NotRetired
    <3>2. Counted(e, p) = {}
      BY Zenon, <2>1, <3>1, <1>7 DEF Counted, Of
    <3>3. e.absent[p] = 0
      BY Zenon, <2>1, <1>1, <1>6
    <3> QED
      BY Zenon, <3>2, <3>3, FS_EmptySet
  <2>2. CASE p # o
    <3>1. Counted(e, p) = Counted(d, p)
      BY Zenon, <2>2, <1>7 DEF Counted, Of
    <3>2. e.absent[p] = d.absent[p]
      BY Zenon, <2>2, <1>1, <1>6
    <3> QED
      BY Zenon, <3>1, <3>2 DEF DirOK
  <2> QED
    BY Zenon, <2>1, <2>2
<1>11. \A i \in Live(e) : e.ads[i].generation \in Generations
  BY Zenon, <1>7 DEF DirOK, Live
<1>12. \A i \in Retired(e) : e.retired[i].source # "none"
  BY Zenon, <1>7 DEF DirOK, Retired
<1>13. DirOK(e)
  BY Zenon, <1>6, <1>9, <1>10, <1>11, <1>12 DEF DirOK
<1> QED
  BY Zenon, <1>7, <1>13 DEF e

\* A live advertisement always has room for its retirement: ensure_capacity does
\* not refuse the removal of an owner.
LEMMA NeverBlocked ==
  ASSUME NEW d, DirOK(d), NEW o \in Owners, NEW i \in Live(d) \cap Of(o)
  PROVE  RetirementFits(d, o, FALSE)
<1> DEFINE l == Cardinality(Live(d))  r == Cardinality(Retired(d))
           lo == Cardinality(Live(d) \cap Of(o))  ro == Cardinality(Retired(d) \cap Of(o))
<1>1. l \in Nat /\ r \in Nat /\ lo \in Nat /\ ro \in Nat
  BY Zenon, IdentitySets, FS_CardinalityType
<1>2. l # 0 /\ lo # 0
  BY Zenon, IdentitySets, FS_EmptySet
<1>3. l + r <= IdentityGlobal /\ lo + ro <= IdentityPerOwner
  BY Zenon DEF DirOK, Room
<1> HIDE DEF l, r, lo, ro
<1>4. r < IdentityGlobal /\ ro < IdentityPerOwner
  BY <1>1, <1>2, <1>3, Constants
<1> QED
  BY Zenon, <1>4 DEF RetirementFits, r, ro

\* bounded_absent_deadline does not extend what was asked, and the deadline of a
\* live retirement covers the expiry of its advertisement.
LEMMA deadlineEffect ==
  ASSUME now \in Times, NEW x \in 0 .. MaxTime + AdTtl
  PROVE  /\ bounded_absent_deadline(x) \in 0 .. MaxTime + LeaseTtl /\ bounded_absent_deadline(x) <= x
         /\ bounded_absent_deadline(x) \in Deadlines
         /\ \A y \in 0 .. MaxTime + AdTtl :
              /\ Max({y, bounded_absent_deadline(x)}) \in Deadlines
              /\ Max({y, bounded_absent_deadline(x)}) >= y
              /\ Max({y, bounded_absent_deadline(x)}) >= bounded_absent_deadline(x)
<1> DEFINE b == bounded_absent_deadline(x)
<1>1. x \in Int /\ now + LeaseTtl \in 0 .. MaxTime + LeaseTtl /\ now + LeaseTtl \in Int
  BY Constants DEF Times
<1>2. b \in {x, now + LeaseTtl} /\ b <= x /\ b <= now + LeaseTtl
  BY Zenon, <1>1, MaxMin DEF bounded_absent_deadline
<1> HIDE DEF b
<1>3. b \in 0 .. MaxTime + LeaseTtl /\ b \in Deadlines /\ b \in Int
  BY <1>1, <1>2, Constants DEF Deadlines
<1>4. ASSUME NEW y \in 0 .. MaxTime + AdTtl
      PROVE  Max({y, b}) \in Deadlines /\ Max({y, b}) >= y /\ Max({y, b}) >= b
  <2>1. y \in Deadlines /\ y \in Int
    BY Constants DEF Deadlines
  <2> QED
    BY Zenon, <2>1, <1>3, MaxMin
<1> QED
  BY Zenon, <1>2, <1>3, <1>4 DEF b

\* remove_owner leaves no advertisement of the owner, and a retirement until its
\* expiry for each that had not expired.
LEMMA RetireAllEffect ==
  ASSUME now \in Times, NEW d, DirOK(d), NEW o \in Owners
  PROVE  /\ DirOK(RetireAll(d, o))
         /\ \A i \in Identities :
              /\ RetireAll(d, o).ads[i] = IF i[2] = o THEN NoAd ELSE d.ads[i]
              /\ IF i \in Live(d) /\ i[2] = o /\ d.ads[i].expires > now
                 THEN /\ RetireAll(d, o).retired[i].generation >= d.ads[i].generation
                      /\ RetireAll(d, o).retired[i].until >= d.ads[i].expires
                 ELSE RetireAll(d, o).retired[i] = d.retired[i]
<1> DEFINE live == Live(d) \cap Of(o)
           blocked == {i \in live : /\ d.ads[i].expires > now /\ i \notin Retired(d)
                                    /\ ~RetirementFits(d, o, FALSE)}
           kept(i) == i \in live \ blocked /\ d.ads[i].expires > now
           N == {i \in live : d.ads[i].expires > now}
           u(i) == Max({d.ads[i].expires, bounded_absent_deadline(d.ads[i].expires)})
           m(i) == merge_retirement(d.retired[i], d.ads[i].generation, u(i), "LiveAdvertisement")
           ads == [i \in Identities |-> IF i \in live \ blocked THEN NoAd ELSE d.ads[i]]
           ret == [i \in Identities |-> IF kept(i) THEN m(i) ELSE d.retired[i]]
           n == Cardinality({i \in live : kept(i) /\ d.retired[i].source = "Absent"})
           K == {i[1] : i \in live \ blocked}
           c == [d EXCEPT !.ads = ads, !.retired = ret, !.absent[o] = @ - n]
           e == RetireAll(d, o)
<1>0. d \in Directories
  BY Zenon DEF DirOK
<1>1. /\ d.ads \in [Identities -> Advertisements] /\ d.retired \in [Identities -> Retirements]
      /\ d.absent \in [Owners -> 0 .. AbsentPerOwner] /\ d.expired \in [Keys -> 0 .. MaxTime + LeaseTtl]
  BY Zenon, <1>0, DirectoryShape
<1>2. blocked = {}
  BY Zenon, NeverBlocked
<1>3. \A i \in Identities : (i \in live <=> i \in Live(d) /\ i[2] = o) /\ (kept(i) <=> i \in N)
  BY Zenon, <1>2 DEF Of, Live
<1>4. ASSUME NEW i \in N
      PROVE  /\ m(i) \in Retirements /\ m(i).source = "LiveAdvertisement"
             /\ m(i).generation >= d.ads[i].generation /\ m(i).until >= d.ads[i].expires
  <2>1. /\ i \in Identities /\ d.ads[i] \in Advertisements /\ d.retired[i] \in Retirements
    BY Zenon, <1>1 DEF Live
  <2>2. d.ads[i].expires \in 0 .. MaxTime + AdTtl /\ d.ads[i].generation \in 0 .. MaxGeneration
    BY Zenon, <2>1 DEF Advertisements
  <2>3. u(i) \in Deadlines /\ u(i) >= d.ads[i].expires
    BY Zenon, <2>2, deadlineEffect
  <2> HIDE DEF u
  <2>4. m(i) \in Retirements /\ m(i).source = "LiveAdvertisement"
        /\ Merged(d.retired[i], m(i), d.ads[i].generation, u(i))
    BY Zenon, <2>1, <2>2, <2>3, mergeEffect
  <2> HIDE DEF m
  <2>5. m(i).until \in Int /\ u(i) \in Int /\ d.ads[i].expires \in Int
    BY <2>2, <2>3, <2>4, Constants DEF Retirements, Deadlines
  <2> QED
    BY <2>3, <2>4, <2>5 DEF Merged
<1> HIDE DEF m
<1>5. /\ \A i \in Identities : ads[i] = IF i \in live THEN NoAd ELSE d.ads[i]
      /\ \A i \in Identities : ret[i] = IF i \in N THEN m(i) ELSE d.retired[i]
  BY Zenon, <1>2, <1>3
<1>6. ads \in [Identities -> Advertisements] /\ ret \in [Identities -> Retirements]
  <2>1. NoAd \in Advertisements
    BY Constants DEF NoAd, Advertisements, None
  <2> QED
    BY Zenon, <1>1, <1>3, <1>4, <2>1
<1>7. c.ads = ads /\ c.retired = ret /\ c.absent = [d.absent EXCEPT ![o] = @ - n] /\ c.expired = d.expired
      /\ c = [ads |-> c.ads, retired |-> c.retired, absent |-> c.absent, expired |-> c.expired]
  <2> DEFINE abs == [d.absent EXCEPT ![o] = @ - n]
  <2>1. c = [d EXCEPT !.ads = ads, !.retired = ret, !.absent = abs]
    BY Zenon, <1>0 DEF Directories
  <2> HIDE DEF ads, ret, abs, c
  <2>2. /\ c.ads = ads /\ c.retired = ret /\ c.absent = abs /\ c.expired = d.expired
        /\ c = [ads |-> c.ads, retired |-> c.retired, absent |-> c.absent, expired |-> c.expired]
    BY Zenon, <1>0, <2>1 DEF Directories
  <2> QED
    BY Zenon, <2>2 DEF abs
<1>8. e = forget(c, K)
  BY Zenon DEF RetireAll, m
<1> HIDE DEF ads, ret, c, K
<1>9. ASSUME NEW p \in Owners
      PROVE  c.absent[p] = d.absent[p]
               - Cardinality({j \in N \cap Of(p) : d.retired[j].source = "Absent"})
  <2> DEFINE S == {j \in N \cap Of(p) : d.retired[j].source = "Absent"}
  <2>1. CASE p = o
    <3>1. S = {i \in live : kept(i) /\ d.retired[i].source = "Absent"}
      BY Zenon, <2>1, <1>2
    <3>2. Cardinality(S) = n
      BY Zenon, <3>1
    <3> HIDE DEF n, S
    <3>3. c.absent[p] = d.absent[p] - n
      BY Zenon, <2>1, <1>1, <1>7
    <3> QED
      BY Zenon, <3>2, <3>3 DEF S
  <2>2. CASE p # o
    <3>1. S = {}
      BY Zenon, <2>2 DEF Of
    <3>2. Cardinality(S) = 0
      BY Zenon, <3>1, FS_EmptySet
    <3> HIDE DEF n, S
    <3>3. c.absent[p] = d.absent[p] /\ d.absent[p] \in Int
      BY <2>2, <1>1, <1>7
    <3>4. c.absent[p] = d.absent[p] - Cardinality(S)
      BY <3>2, <3>3
    <3> QED
      BY Zenon, <3>4 DEF S
  <2> QED
    BY Zenon, <2>1, <2>2
<1>10. c.absent = [p \in Owners |-> c.absent[p]]
  BY Zenon, <1>1, <1>7
<1>11. DirOK(c)
  <2>1. live \in SUBSET Live(d) /\ N \in SUBSET live /\ N \subseteq Identities
    BY Zenon DEF Live
  <2>2. Withdrawn(d, c, live, N)
    BY Zenon, <2>1, <1>1, <1>4, <1>5, <1>6, <1>7, <1>9, <1>10 DEF Withdrawn
  <2> HIDE DEF live, N
  <2> QED
    BY Zenon, <2>1, <2>2, retireEffect
<1>12. DirOK(e) /\ e.ads = ads /\ e.retired = ret
  <2>1. /\ forget(c, K) \in Directories /\ forget(c, K).ads = c.ads /\ forget(c, K).retired = c.retired
        /\ forget(c, K).absent = c.absent
    BY Zenon, <1>11, forgetEffect DEF DirOK
  <2> HIDE DEF e
  <2> QED
    BY Zenon, <2>1, <1>7, <1>8, <1>11, SameIndexes
<1>13. ASSUME NEW i \in Identities
       PROVE  e.ads[i] = IF i[2] = o THEN NoAd ELSE d.ads[i]
  <2>1. i \notin Live(d) => d.ads[i] = NoAd
    BY Zenon DEF Live
  <2> QED
    BY Zenon, <2>1, <1>3, <1>5, <1>12
<1> HIDE DEF e
<1>14. ASSUME NEW i \in Identities
       PROVE  IF i \in Live(d) /\ i[2] = o /\ d.ads[i].expires > now
              THEN e.retired[i].generation >= d.ads[i].generation /\ e.retired[i].until >= d.ads[i].expires
              ELSE e.retired[i] = d.retired[i]
  <2>1. i \in N <=> i \in Live(d) /\ i[2] = o /\ d.ads[i].expires > now
    BY Zenon, <1>3
  <2> QED
    BY Zenon, <2>1, <1>4, <1>5, <1>12
<1> QED
  BY Zenon, <1>12, <1>13, <1>14 DEF e

-----------------------------------------------------------------------------
(***************************************************************************)
(* Fences.                                                                 *)
(***************************************************************************)
\* The history of an identity: the registration that invalidated, its highest
\* generation and the deadlines.
Fence == [epoch : 0 .. MaxEpoch, top : 0 .. MaxGeneration,
          until : [Generations -> 0 .. MaxTime + LeaseTtl]]

\* At time t, with the owner's authority a: a retirement r comes from an
\* invalidation under this authority; and what the history f of this authority
\* still fences is covered by the retirement and not advertised (ad).
Fences(a, f, ad, r, t) ==
    a # None =>
      /\ r # NotRetired => f.epoch = a /\ f.top >= r.generation
      /\ f.epoch = a =>
           /\ \A g \in Generations : f.until[g] > t => r.generation >= g /\ r.until >= f.until[g]
           /\ ad # NoAd => f.until[ad.generation] <= t

\* prune drops a retirement only when nothing is fenced by it any more.
LEMMA FencesPrune ==
  ASSUME NEW a, NEW f \in Fence, NEW ad, NEW r \in Retirements, NEW t \in Times, Fences(a, f, ad, r, t),
         NEW ad2 \in {ad, NoAd}, NEW r2,
         r2 = IF r # NotRetired /\ r.until <= t THEN NotRetired ELSE r
  PROVE  Fences(a, f, ad2, r2, t)
<1>1. CASE r # NotRetired /\ r.until <= t
  <2>1. ASSUME a # None, f.epoch = a, NEW g \in Generations
        PROVE  ~ (f.until[g] > t)
    <3>1. r.until \in Int /\ f.until[g] \in Int /\ t \in Int
      BY Constants DEF Retirements, Fence, Times
    <3>2. f.until[g] > t => r.until >= f.until[g]
      BY Zenon, <2>1 DEF Fences
    <3> QED
      BY <1>1, <3>1, <3>2
  <2>2. r2 = NotRetired
    BY Zenon, <1>1
  <2> QED
    BY Zenon, <2>1, <2>2 DEF Fences
<1>2. CASE ~ (r # NotRetired /\ r.until <= t)
  BY Zenon, <1>2 DEF Fences
<1> QED
  BY Zenon, <1>1, <1>2

\* A publication that rejected_generation lets through is not fenced.
LEMMA FencesPublish ==
  ASSUME NEW a, NEW f \in Fence, NEW ad, NEW r \in Retirements, NEW t \in Times, Fences(a, f, ad, r, t),
         NEW ad2, ad2.generation \in Generations, ~ (r.generation >= ad2.generation /\ r.until > t)
  PROVE  Fences(a, f, ad2, r, t)
<1> DEFINE g == ad2.generation
<1>1. ASSUME a # None, f.epoch = a
      PROVE  f.until[g] <= t
  <2>1. r.until \in Int /\ f.until[g] \in Int /\ t \in Int
    BY Constants DEF Retirements, Fence, Times
  <2>2. f.until[g] > t => r.generation >= g /\ r.until >= f.until[g]
    BY Zenon, <1>1 DEF Fences
  <2> HIDE DEF g
  <2>3. ~ (r.generation >= g /\ r.until > t)
    BY Zenon DEF g
  <2> QED
    BY <2>1, <2>2, <2>3
<1> QED
  BY Zenon, <1>1 DEF Fences

\* After clear_owner_metadata nothing fences an authority that has not invalidated
\* yet.
LEMMA FencesClear ==
  ASSUME NEW a, NEW f, NEW t, f.epoch # a
  PROVE  Fences(a, f, NoAd, NotRetired, t)
BY Zenon DEF Fences

\* The history when the clock shows t.
Ticked(f, t) == [f EXCEPT !.until = [g \in Generations |-> IF @[g] <= t THEN 0 ELSE @[g]]]

\* Time only ends fences.
LEMMA FencesTick ==
  ASSUME NEW a, NEW f \in Fence, NEW ad, ad # NoAd => ad.generation \in Generations,
         NEW r, NEW t \in Times, Fences(a, f, ad, r, t)
  PROVE  /\ Fences(a, Ticked(f, t + 1), ad, r, t + 1)
         /\ Ticked(f, t + 1) \in Fence /\ Ticked(f, t + 1).epoch = f.epoch
<1> DEFINE h == Ticked(f, t + 1)
           u == [g \in Generations |-> IF f.until[g] <= t + 1 THEN 0 ELSE f.until[g]]
<1>1. f.until \in [Generations -> 0 .. MaxTime + LeaseTtl] /\ t \in Int /\ t + 1 \in Nat
  BY Constants DEF Fence, Times
<1>2. h = [f EXCEPT !.until = u]
  BY Zenon DEF Ticked
<1>3. \A g \in Generations : /\ u[g] > t + 1 => u[g] = f.until[g] /\ f.until[g] > t
                             /\ f.until[g] <= t => u[g] <= t + 1
                             /\ u[g] \in 0 .. MaxTime + LeaseTtl
  <2>1. ASSUME NEW g \in Generations
        PROVE  u[g] = IF f.until[g] <= t + 1 THEN 0 ELSE f.until[g]
    BY Zenon
  <2>2. ASSUME NEW g \in Generations
        PROVE  f.until[g] \in 0 .. MaxTime + LeaseTtl
    BY Zenon, <1>1
  <2> HIDE DEF u
  <2> QED
    BY <1>1, <2>1, <2>2, Constants
<1>4. u \in [Generations -> 0 .. MaxTime + LeaseTtl]
  BY Zenon, <1>3
<1> HIDE DEF u, h
<1>5. h.until = u /\ h.epoch = f.epoch /\ h.top = f.top /\ h \in Fence
  BY Zenon, <1>2, <1>4 DEF Fence
<1>6. Fences(a, h, ad, r, t + 1)
  BY Zenon, <1>3, <1>5 DEF Fences
<1> QED
  BY Zenon, <1>5, <1>6 DEF h

\* The history after an invalidation of g until u under the authority a.
Refenced(a, f, g, u, t) ==
    LET k == IF f.epoch = a THEN f ELSE NoFence
    IN  [epoch |-> a, top |-> Max({k.top, g}),
         until |-> [h \in Generations |-> IF h <= g /\ u > t THEN Max({k.until[h], u}) ELSE k.until[h]]]

\* An invalidation withdraws every advertisement that it fences, and its retirement
\* covers the generation until the bounded deadline at least, on top of what was
\* fenced before.
LEMMA FencesInvalidate ==
  ASSUME NEW a \in 0 .. MaxEpoch, a # None, NEW f \in Fence, NEW ad, NEW r \in Retirements, NEW t \in Times,
         Fences(a, f, ad, r, t), NEW g \in Generations, NEW u \in 0 .. MaxTime + LeaseTtl,
         ad # NoAd => ad.generation \in Generations,
         NEW ad2, \/ ad2 = NoAd
                  \/ ad2 = ad /\ ad.generation > g,
         NEW r2 \in Retirements, NEW w \in Deadlines, w >= u,
         \/ r2 = r /\ u <= t
         \/ Merged(r, r2, g, w)
  PROVE  Refenced(a, f, g, u, t) \in Fence /\ Fences(a, Refenced(a, f, g, u, t), ad2, r2, t)
<1> DEFINE k == IF f.epoch = a THEN f ELSE NoFence
           v == [h \in Generations |-> IF h <= g /\ u > t THEN Max({k.until[h], u}) ELSE k.until[h]]
           top == Max({k.top, g})
           n == Refenced(a, f, g, u, t)
<1>1. k.top \in 0 .. MaxGeneration /\ k.until \in [Generations -> 0 .. MaxTime + LeaseTtl]
  <2>1. /\ NoFence.top \in 0 .. MaxGeneration
        /\ NoFence.until \in [Generations -> 0 .. MaxTime + LeaseTtl]
    BY Constants DEF NoFence
  <2> QED
    BY Zenon, <2>1 DEF Fence
<1>2. n = [epoch |-> a, top |-> top, until |-> v]
  BY Zenon DEF Refenced
<1>3. /\ g \in 0 .. MaxGeneration /\ g \in Int /\ u \in Int /\ t \in Int /\ w \in Int
      /\ r.generation \in Int /\ r.until \in Int /\ r2.generation \in Int /\ r2.until \in Int
  BY Constants DEF Generations, Times, Deadlines, Retirements
<1>4. top \in {k.top, g} /\ top >= k.top /\ top >= g /\ k.top \in Int
  <2>1. k.top \in Int
    BY <1>1
  <2> HIDE DEF k
  <2> QED
    BY Zenon, <2>1, <1>3, MaxMin
<1>5. ASSUME NEW h \in Generations
      PROVE  /\ v[h] \in 0 .. MaxTime + LeaseTtl /\ k.until[h] \in 0 .. MaxTime + LeaseTtl
             /\ IF h <= g /\ u > t THEN v[h] \in {k.until[h], u} ELSE v[h] = k.until[h]
  <2>1. k.until[h] \in 0 .. MaxTime + LeaseTtl
    BY Zenon, <1>1
  <2>2. k.until[h] \in Int
    BY <2>1
  <2>3. v[h] = IF h <= g /\ u > t THEN Max({k.until[h], u}) ELSE k.until[h]
    BY Zenon
  <2> HIDE DEF k, v
  <2>4. Max({k.until[h], u}) \in {k.until[h], u}
    BY Zenon, <2>2, <1>3, MaxMin
  <2> QED
    BY Zenon, <2>1, <2>3, <2>4
<1>6. v \in [Generations -> 0 .. MaxTime + LeaseTtl]
  <2> HIDE DEF k
  <2> QED
    BY Zenon, <1>5
<1>7. top \in 0 .. MaxGeneration
  <2> HIDE DEF k, top
  <2> QED
    BY Zenon, <1>1, <1>3, <1>4
<1>8. n \in Fence /\ n.epoch = a /\ n.top = top /\ n.until = v
  <2> HIDE DEF n, top, v
  <2> QED
    BY Zenon, <1>2, <1>6, <1>7 DEF Fence
<1>9. r2 # NotRetired => top >= r2.generation
  <2>1. r # NotRetired => k.top >= r.generation
    BY Zenon DEF Fences
  <2>2. r = NotRetired => r.generation = 0
    BY DEF NotRetired
  <2>3. r2 = r \/ r2.generation \in {r.generation, g}
    BY Zenon DEF Merged
  <2> HIDE DEF k, top
  <2> QED
    BY <2>1, <2>2, <2>3, <1>1, <1>3, <1>4
<1>10. ASSUME NEW h \in Generations
       PROVE  /\ k.until[h] > t => r.generation >= h /\ r.until >= k.until[h]
              /\ ad # NoAd => k.until[ad.generation] <= t
  <2>1. CASE f.epoch = a
    BY Zenon, <2>1 DEF Fences
  <2>2. CASE f.epoch # a
    <3>1. /\ k.until = [x \in Generations |-> 0] /\ 0 <= t /\ ~ (0 > t)
      BY <2>2 DEF NoFence, Times
    <3> HIDE DEF k
    <3> QED
      BY Zenon, <3>1
  <2> QED
    BY Zenon, <2>1, <2>2
<1>11. ASSUME NEW h \in Generations, v[h] > t
       PROVE  r2.generation >= h /\ r2.until >= v[h]
  <2>1. h \in Int /\ v[h] \in Int /\ k.until[h] \in Int
    <3> HIDE DEF k, v
    <3> QED
      BY <1>5, Constants DEF Generations
  <2>2. \/ h <= g /\ u > t /\ v[h] = u
        \/ v[h] = k.until[h] /\ r.generation >= h /\ r.until >= k.until[h]
    <3> HIDE DEF k, v
    <3> QED
      BY Zenon, <1>5, <1>10, <1>11
  <2>3. \/ r2 = r /\ u <= t
        \/ /\ r2.generation >= r.generation /\ r2.generation >= g /\ r2.until >= r.until /\ r2.until >= w
    BY Zenon DEF Merged
  <2> HIDE DEF k, v
  <2> QED
    BY <2>1, <2>2, <2>3, <1>3
<1>12. ad2 # NoAd => v[ad2.generation] <= t
  <2>1. SUFFICES ASSUME ad2 # NoAd
                 PROVE  v[ad2.generation] <= t
    OBVIOUS
  <2>2. ad2 = ad /\ ad.generation > g /\ ad.generation \in Generations
    BY Zenon, <2>1
  <2>3. ~ (ad.generation <= g)
    BY <2>2, <1>3, Constants DEF Generations
  <2> HIDE DEF k, v
  <2> QED
    BY Zenon, <2>1, <2>2, <2>3, <1>5, <1>10
<1>13. Fences(a, n, ad2, r2, t)
  <2> HIDE DEF n, v, top, k
  <2> QED
    BY Zenon, <1>8, <1>9, <1>11, <1>12 DEF Fences
<1> QED
  BY Zenon, <1>8, <1>13

-----------------------------------------------------------------------------
(***************************************************************************)
(* Registrations.                                                          *)
(***************************************************************************)
\* The values of an owner's authority and of its transaction.
Epochs == 0 .. MaxEpoch
Pendings == [previous : Epochs, next : Epochs, transaction : Epochs, incarnation : Epochs]
Authorities == [current : Epochs, pending : Pendings]
Transactions == [epoch : Epochs, previous : Epochs, bound : BOOLEAN]

\* The authority whose records the directory holds: while a transition is pending,
\* the one it hides.
Held(a) == IF IsPending(a) THEN a.pending.previous ELSE a.current

\* An owner's authority a during the transaction t, after n registrations: epochs
\* only grow, no authority is current while a transaction runs, and a pending
\* transition is the one of the transaction and remembers the authority before it.
Registers(a, t, n) ==
    /\ a \in Authorities /\ t \in Transactions /\ a.current <= n /\ t.epoch <= n
    /\ t = NoTransaction => ~IsPending(a)
    /\ t # NoTransaction => a.current = None /\ t.previous < t.epoch
    /\ (t # NoTransaction /\ ~IsPending(a)) => t.previous = None
    /\ IsPending(a) =>
         /\ a.pending.previous = t.previous /\ a.pending.next \in {None, t.epoch}
         /\ a.pending.next # a.pending.previous
         /\ a.pending.transaction = t.epoch /\ a.pending.incarnation \in {None, t.epoch}

\* An owner without authority, and one whose authority was just installed.
LEMMA NoneTyped ==
  /\ None \in Epochs /\ NoPending \in Pendings /\ NoAuthority \in Authorities
  /\ NoTransaction \in Transactions /\ ~IsPending(NoAuthority) /\ NoAuthority.current = None
  /\ \A e \in Epochs : /\ Install(e) \in Authorities /\ ~IsPending(Install(e)) /\ Install(e).current = e
BY Constants DEF None, Epochs, NoPending, Pendings, NoAuthority, Authorities, NoTransaction,
   Transactions,
                 IsPending, Install

\* stage_owner_transition hides the authority and leaves its records.
LEMMA StageKeeps ==
  ASSUME NEW a, NEW n \in Nat, n < MaxEpoch, Registers(a, NoTransaction, n), NEW next \in {None, n + 1},
         NEW out, out = stage_owner_transition(a, next, n + 1), NEW t,
         t = [epoch |-> n + 1, previous |-> a.current, bound |-> FALSE]
  PROVE  /\ ~out.clears /\ Held(out.owner) = Held(a) /\ Registers(out.owner, t, n + 1)
<1>1. ~IsPending(a) /\ a \in Authorities /\ a.current \in Epochs /\ a.current <= n /\ a.current < n + 1
  BY Constants DEF Registers, Authorities, Epochs
<1>2. /\ t \in Transactions /\ t.epoch = n + 1 /\ t.previous = a.current /\ t # NoTransaction
      /\ n + 1 \in Epochs /\ next \in Epochs /\ n + 1 # None /\ n <= n + 1 /\ n + 1 <= n + 1
  BY <1>1, Constants DEF Transactions, Epochs, NoTransaction, None
<1>3. CASE a.current = next
  <2>1. out = Outcome(a, TRUE, FALSE)
    BY Zenon, <1>1, <1>3 DEF stage_owner_transition
  <2>2. out.owner = a /\ ~out.clears
    BY <2>1 DEF Outcome
  <2>3. a.current = None
    BY <1>1, <1>3, <1>2 DEF Epochs
  <2>4. a.current <= n + 1 /\ None < n + 1
    BY <1>1, <2>3 DEF None
  <2> QED
    BY Zenon, <1>1, <1>2, <2>2, <2>3, <2>4 DEF Registers
<1>4. CASE a.current # next
  <2> DEFINE p == [previous |-> a.current, next |-> next, transaction |-> n + 1, incarnation |-> None]
             b == [current |-> None, pending |-> p]
  <2>1. out = Outcome(b, TRUE, FALSE)
    BY Zenon, <1>1, <1>4 DEF stage_owner_transition
  <2>2. out.owner = b /\ ~out.clears
    BY <2>1 DEF Outcome
  <2>3. p \in Pendings /\ p # NoPending /\ b \in Authorities
    BY Zenon, <1>1, <1>2, NoneTyped DEF Pendings, NoPending, Authorities
  <2>4. IsPending(b) /\ Held(b) = a.current /\ Held(a) = a.current /\ b.pending = p /\ b.current = None
    BY Zenon, <2>3, <1>1 DEF IsPending, Held
  <2>5. None <= n + 1
    BY DEF None
  <2>6. Registers(b, t, n + 1)
    <3>1. /\ b.pending.previous = t.previous /\ b.pending.next \in {None, t.epoch}
          /\ b.pending.next # b.pending.previous /\ b.pending.transaction = t.epoch
          /\ b.pending.incarnation = None
      BY Zenon, <1>2, <1>4
    <3>2. b.current <= n + 1 /\ t.previous < t.epoch /\ t.epoch <= n + 1
      BY Zenon, <1>1, <1>2, <2>4, <2>5
    <3> HIDE DEF b
    <3> QED
      BY Zenon, <1>2, <2>3, <2>4, <3>1, <3>2 DEF Registers
  <2> QED
    BY Zenon, <2>2, <2>4, <2>6
<1> QED
  BY Zenon, <1>3, <1>4

\* The transaction after the registry write.
Bound(t) == [t EXCEPT !.bound = TRUE]

\* bind_owner_registration leaves the hidden authority and its records.
LEMMA BindKeeps ==
  ASSUME NEW a, NEW t, NEW n, Registers(a, t, n), t # NoTransaction,
         NEW out, out = bind_owner_registration(a, t.epoch, t.epoch), out.ok
  PROVE  /\ ~out.clears /\ Held(out.owner) = Held(a) /\ Registers(out.owner, Bound(t), n)
         /\ Bound(t).epoch = t.epoch
<1> DEFINE s == Bound(t)
<1>1. /\ s \in Transactions /\ s.epoch = t.epoch /\ s.previous = t.previous /\ s # NoTransaction
  BY Zenon DEF Registers, Transactions, NoTransaction, Bound
<1> HIDE DEF s
<1>2. CASE ~IsPending(a)
  <2>1. out.owner = a /\ ~out.clears
    BY Zenon, <1>2 DEF bind_owner_registration, Outcome
  <2> QED
    BY Zenon, <1>1, <1>2, <2>1 DEF Registers, s
<1>3. CASE IsPending(a)
  <2> DEFINE b == [a EXCEPT !.pending.incarnation = t.epoch]
  <2>1. out.owner = b /\ ~out.clears
    BY Zenon, <1>3 DEF bind_owner_registration, Outcome
  <2>2. /\ b \in Authorities /\ b.current = a.current /\ b.pending.previous = a.pending.previous
        /\ b.pending.next = a.pending.next /\ b.pending.transaction = a.pending.transaction
        /\ b.pending.incarnation = t.epoch
    BY Zenon DEF Registers, Authorities, Pendings, Transactions
  <2>3. t.epoch # None
    BY DEF Registers, Transactions, Epochs, None
  <2>4. IsPending(b)
    <3>1. NoPending.incarnation = None
      BY Zenon DEF NoPending
    <3> HIDE DEF b
    <3> QED
      BY Zenon, <2>2, <2>3, <3>1 DEF IsPending
  <2> HIDE DEF b
  <2>5. Registers(b, s, n) /\ Held(b) = Held(a)
    BY Zenon, <1>1, <1>3, <2>2, <2>4 DEF Registers, Held
  <2> QED
    BY Zenon, <1>1, <2>1, <2>5 DEF s
<1> QED
  BY Zenon, <1>2, <1>3

\* What finalizing the transaction t of an owner with authority a leads to: the
\* next authority with the directory cleared for it, or an owner without authority.
Finalized(a, t, n, out) ==
    /\ t # NoTransaction /\ Registers(out.owner, NoTransaction, n)
    /\ Held(out.owner) \in {None, t.epoch} /\ ~IsPending(out.owner)
    /\ IF out.clears THEN IsPending(a) /\ out.owner.current = a.pending.next
                     ELSE Held(out.owner) = None

\* finalize_owner_registration installs the next authority only when it clears the
\* records of the previous one.
LEMMA FinalizeKeeps ==
  ASSUME NEW a, NEW t, NEW n \in Nat, Registers(a, t, n), t.bound,
         finalize_owner_registration(a, t.epoch).ok
  PROVE  Finalized(a, t, n, finalize_owner_registration(a, t.epoch))
<1> DEFINE out == finalize_owner_registration(a, t.epoch)
<1>1. t # NoTransaction
  BY DEF NoTransaction
<1>2. t.epoch \in Epochs /\ t.epoch <= n /\ None <= n /\ NoTransaction.epoch = None
  BY DEF Registers, Transactions, None, NoTransaction
<1>3. CASE ~IsPending(a)
  <2>1. out.owner = a /\ ~out.clears
    BY Zenon, <1>3 DEF finalize_owner_registration, Outcome
  <2>2. a.current = None /\ a \in Authorities
    BY Zenon, <1>1 DEF Registers
  <2> QED
    BY Zenon, <1>1, <1>2, <1>3, <2>1, <2>2, NoneTyped DEF Registers, Held, Finalized
<1>4. CASE IsPending(a)
  <2> DEFINE b == Install(a.pending.next)
  <2>1. out.owner = b /\ out.clears
    BY Zenon, <1>4 DEF finalize_owner_registration, Outcome
  <2>2. a.pending.next \in {None, t.epoch}
    BY Zenon, <1>4 DEF Registers
  <2>3. b \in Authorities /\ ~IsPending(b) /\ b.current = a.pending.next
    BY Zenon, <1>2, <2>2, NoneTyped
  <2> HIDE DEF b
  <2> QED
    BY Zenon, <1>1, <1>2, <1>4, <2>1, <2>2, <2>3, NoneTyped DEF Registers, Held, Finalized
<1> QED
  BY Zenon, <1>3, <1>4

\* Staging the previous epoch again, as the rollback of a registration does, gives
\* back the hidden authority with its records.
LEMMA RollBackKeeps ==
  ASSUME NEW a, NEW t, NEW n \in Nat, Registers(a, t, n), t # NoTransaction,
         NEW out, out = stage_owner_transition(a, t.previous, t.previous)
  PROVE  ~out.clears /\ Held(out.owner) = Held(a) /\ Registers(out.owner, NoTransaction, n)
<1>1. /\ t.previous \in Epochs /\ t.previous <= n /\ None <= n /\ NoTransaction.epoch = None
  BY DEF Registers, Transactions, Epochs, None, NoTransaction
<1>2. CASE ~IsPending(a)
  <2>1. a.current = None /\ t.previous = None /\ a \in Authorities
    BY Zenon, <1>2 DEF Registers
  <2>2. out = Outcome(a, TRUE, FALSE)
    BY Zenon, <1>2, <2>1 DEF stage_owner_transition
  <2>3. out.owner = a /\ ~out.clears
    BY <2>2 DEF Outcome
  <2> QED
    BY Zenon, <1>1, <1>2, <2>1, <2>3, NoneTyped DEF Registers
<1>3. CASE IsPending(a)
  <2> DEFINE b == Install(t.previous)
  <2>1. a.pending.previous = t.previous /\ a.pending.next # t.previous
    BY Zenon, <1>3 DEF Registers
  <2>2. out = Outcome(b, TRUE, FALSE)
    BY Zenon, <1>3, <2>1 DEF stage_owner_transition
  <2>3. out.owner = b /\ ~out.clears
    BY <2>2 DEF Outcome
  <2>4. b \in Authorities /\ ~IsPending(b) /\ b.current = t.previous
    BY Zenon, <1>1, NoneTyped
  <2> HIDE DEF b
  <2> QED
    BY Zenon, <1>1, <1>3, <2>1, <2>3, <2>4, NoneTyped DEF Registers, Held
<1> QED
  BY Zenon, <1>2, <1>3

-----------------------------------------------------------------------------
(***************************************************************************)
(* The inductive invariant and the steps.                                  *)
(***************************************************************************)
\* The inductive invariant: the indexes are in order, every owner is in a state of
\* its registration, invalidations belong to registrations before the one under
\* way, and the history fences each identity under the authority whose records are
\* held.
DirectoryIInv ==
    /\ now \in Times /\ epochs \in Epochs
    /\ fences \in [Identities -> Fence]
    /\ owners \in [Owners -> Authorities] /\ transaction \in [Owners -> Transactions]
    /\ DirOK(Directory)
    /\ \A o \in Owners : Registers(owners[o], transaction[o], epochs)
    /\ \A i \in Identities :
         /\ fences[i].epoch <= epochs
         /\ transaction[i[2]] # NoTransaction => fences[i].epoch < transaction[i[2]].epoch
         /\ Fences(Held(owners[i[2]]), fences[i], advertisements[i], retired[i], now)

\* What NoAdvertisementLost asks of a step.
LossExplained(i) ==
    Lost(i) =>
      \/ /\ retired'[i].generation >= advertisements[i].generation
         /\ retired'[i].until >= advertisements[i].expires
      \/ /\ IsPending(owners[i[2]]) /\ ~IsPending(owners'[i[2]])
         /\ owners'[i[2]].current = owners[i[2]].pending.next

\* The directory as the invariant describes it.
LEMMA Reads ==
  ASSUME DirectoryIInv
  PROVE  /\ DirOK(Directory) /\ Directory \in Directories
         /\ Directory.ads = advertisements /\ Directory.retired = retired
         /\ \A i \in Identities :
              /\ i[2] \in Owners /\ fences[i] \in Fence /\ fences[i].epoch \in Epochs
              /\ advertisements[i] \in Advertisements /\ retired[i] \in Retirements
              /\ advertisements[i] # NoAd => advertisements[i].generation \in Generations
<1>1. DirOK(Directory) /\ Directory \in Directories /\ fences \in [Identities -> Fence]
  BY Zenon DEF DirectoryIInv, DirOK
<1>2. Directory.ads = advertisements /\ Directory.retired = retired
  BY Zenon DEF Directory
<1>3. advertisements \in [Identities -> Advertisements] /\ retired \in [Identities -> Retirements]
  BY Zenon, <1>1, <1>2, DirectoryShape
<1>4. ASSUME NEW i \in Identities
      PROVE  i[2] \in Owners
  BY Zenon DEF Identities
<1>5. ASSUME NEW i \in Identities, advertisements[i] # NoAd
      PROVE  advertisements[i].generation \in Generations
  BY Zenon, <1>1, <1>2, <1>5 DEF DirOK, Live
<1>6. ASSUME NEW i \in Identities
      PROVE  fences[i] \in Fence /\ fences[i].epoch \in Epochs
  BY Zenon, <1>1 DEF Fence, Epochs
<1> QED
  BY Zenon, <1>1, <1>2, <1>3, <1>4, <1>5, <1>6

\* A call that changes only the indexes (publish, query) keeps the invariant when
\* it keeps them in order and fenced.
LEMMA IndexStep ==
  ASSUME DirectoryIInv, UNCHANGED <<now, owners, transaction, epochs, fences>>,
         NEW e, DirOK(e), Store(e),
         \A i \in Identities : Fences(Held(owners[i[2]]), fences[i], e.ads[i], e.retired[i], now)
  PROVE  DirectoryIInv'
<1>1. Directory' = e
  BY Zenon, StoreIs DEF DirOK
<1>2. DirOK(Directory)'
  BY Zenon, <1>1
<1>3. advertisements' = e.ads /\ retired' = e.retired
  BY Zenon DEF Store
<1> QED
  BY Zenon, <1>2, <1>3 DEF DirectoryIInv

\* A call of a registration of the owner keeps the invariant when it leaves the
\* owner in a state of its registration and the identities fenced under the
\* authority that is held then.
LEMMA RegistrationStep ==
  ASSUME DirectoryIInv, NEW o \in Owners, NEW a, NEW t, NEW n \in Epochs, epochs <= n,
         owners' = [owners EXCEPT ![o] = a], transaction' = [transaction EXCEPT ![o] = t],
         epochs' = n, UNCHANGED <<now, fences>>, Registers(a, t, n),
         \A i \in Identities : (i[2] = o /\ t # NoTransaction) => fences[i].epoch < t.epoch,
         NEW e, DirOK(e), Store(e),
         \A i \in Identities : Fences(IF i[2] = o THEN Held(a) ELSE Held(owners[i[2]]),
                                      fences[i], e.ads[i], e.retired[i], now)
  PROVE  DirectoryIInv'
<1>1. Directory' = e
  BY Zenon, StoreIs DEF DirOK
<1>2. DirOK(Directory)'
  BY Zenon, <1>1
<1>3. advertisements' = e.ads /\ retired' = e.retired
  BY Zenon DEF Store
<1>4. a \in Authorities /\ t \in Transactions
  BY Zenon DEF Registers
<1>5. /\ owners \in [Owners -> Authorities] /\ transaction \in [Owners -> Transactions]
      /\ epochs \in Epochs
  BY Zenon DEF DirectoryIInv
<1>6. owners' \in [Owners -> Authorities] /\ transaction' \in [Owners -> Transactions]
  BY Zenon, <1>4, <1>5
<1>7. /\ \A p \in Owners : owners'[p] = IF p = o THEN a ELSE owners[p]
      /\ \A p \in Owners : transaction'[p] = IF p = o THEN t ELSE transaction[p]
  BY Zenon, <1>5
<1>8. ASSUME NEW x \in Epochs, x <= epochs
      PROVE  x <= n
  BY <1>5, <1>8, Constants DEF Epochs
<1>9. ASSUME NEW p \in Owners
      PROVE  Registers(owners'[p], transaction'[p], n)
  <2>1. CASE p = o
    BY Zenon, <2>1, <1>7
  <2>2. CASE p # o
    <3>1. Registers(owners[p], transaction[p], epochs)
      BY Zenon DEF DirectoryIInv
    <3>2. owners[p].current <= n /\ transaction[p].epoch <= n
      BY Zenon, <3>1, <1>8 DEF Registers, Authorities, Transactions
    <3>3. Registers(owners[p], transaction[p], n)
      BY Zenon, <3>1, <3>2 DEF Registers
    <3> QED
      BY Zenon, <2>2, <3>3, <1>7
  <2> QED
    BY Zenon, <2>1, <2>2
<1>10. ASSUME NEW i \in Identities
       PROVE  /\ fences'[i].epoch <= n
              /\ transaction'[i[2]] # NoTransaction => fences'[i].epoch < transaction'[i[2]].epoch
              /\ Fences(Held(owners'[i[2]]), fences'[i], advertisements'[i], retired'[i], now')
  <2>1. i[2] \in Owners /\ fences[i].epoch \in Epochs
    BY Zenon, Reads
  <2>2. fences[i].epoch <= n
    BY Zenon, <2>1, <1>8 DEF DirectoryIInv
  <2>3. transaction'[i[2]] # NoTransaction => fences[i].epoch < transaction'[i[2]].epoch
    BY Zenon, <2>1, <1>7 DEF DirectoryIInv
  <2>4. Fences(Held(owners'[i[2]]), fences[i], advertisements'[i], retired'[i], now)
    <3>1. CASE i[2] = o
      <4>1. owners'[i[2]] = a
        BY Zenon, <3>1, <1>7
      <4>2. Fences(Held(a), fences[i], e.ads[i], e.retired[i], now)
        BY Zenon, <3>1
      <4> QED
        BY Zenon, <4>1, <4>2, <1>3
    <3>2. CASE i[2] # o
      <4>1. owners'[i[2]] = owners[i[2]]
        BY Zenon, <3>2, <2>1, <1>7
      <4>2. Fences(Held(owners[i[2]]), fences[i], e.ads[i], e.retired[i], now)
        BY Zenon, <3>2
      <4> QED
        BY Zenon, <4>1, <4>2, <1>3
    <3> QED
      BY Zenon, <3>1, <3>2
  <2> QED
    BY Zenon, <2>2, <2>3, <2>4
<1> QED
  BY Zenon, <1>2, <1>6, <1>9, <1>10 DEF DirectoryIInv

\* prune keeps every identity fenced.
LEMMA PruneStep ==
  ASSUME now \in Times, NEW d, DirOK(d), NEW e \in prune(d), NEW i \in Identities, NEW a, NEW f \in Fence,
         Fences(a, f, d.ads[i], d.retired[i], now)
  PROVE  Fences(a, f, e.ads[i], e.retired[i], now)
<1>1. e.ads[i] \in {d.ads[i], NoAd}
  BY Zenon, pruneEffect DEF Unexpired
<1>2. e.retired[i] = IF d.retired[i] # NotRetired /\ d.retired[i].until <= now THEN NotRetired ELSE d.retired[i]
  BY Zenon, pruneEffect DEF Retained, Retired
<1>3. d.retired[i] \in Retirements
  BY Zenon, DirectoryShape DEF DirOK
<1> QED
  BY Zenon, <1>1, <1>2, <1>3, FencesPrune

\* prune keeps an advertisement that has not expired.
LEMMA PruneKeeps ==
  ASSUME now \in Times, NEW d, DirOK(d), NEW e \in prune(d), NEW i \in Identities,
         d.ads[i].expires > now
  PROVE  e.ads[i] = d.ads[i]
<1>1. d.ads[i].expires \in Int /\ now \in Int
  BY DirectoryShape DEF DirOK, Advertisements, Times
<1>2. ~ (d.ads[i].expires <= now)
  BY <1>1
<1> QED
  BY Zenon, <1>2, pruneEffect DEF Unexpired

\* A call that leaves an advertisement in place loses none.
LEMMA NotLost ==
  ASSUME NEW i, advertisements'[i] = advertisements[i]
  PROVE  LossExplained(i)
BY Zenon DEF LossExplained, Lost

\* query.
LEMMA queryStep ==
  ASSUME DirectoryIInv, query
  PROVE  DirectoryIInv' /\ \A i \in Identities : LossExplained(i)
<1>1. PICK e \in prune(Directory) : Store(e)
  BY Zenon DEF query
<1>2. DirOK(Directory) /\ now \in Times /\ Directory.ads = advertisements /\ Directory.retired = retired
  BY Zenon, Reads DEF DirectoryIInv
<1>3. DirOK(e) /\ advertisements' = e.ads
  BY Zenon, <1>1, <1>2, pruneEffect DEF Store
<1>4. ASSUME NEW i \in Identities
      PROVE  Fences(Held(owners[i[2]]), fences[i], e.ads[i], e.retired[i], now)
  BY Zenon, <1>2, Reads, PruneStep DEF DirectoryIInv
<1>5. ASSUME NEW i \in Identities
      PROVE  LossExplained(i)
  BY Zenon, <1>2, <1>3, PruneKeeps DEF LossExplained, Lost
<1>6. DirectoryIInv'
  BY Zenon, <1>1, <1>3, <1>4, IndexStep DEF query
<1> QED
  BY Zenon, <1>5, <1>6

\* publish: refused publications only prune; the others are of a generation that is
\* not fenced, and replace at most an older one.
LEMMA publishStep ==
  ASSUME DirectoryIInv, NEW i \in Identities, NEW g \in Generations, NEW requested \in now .. MaxTime,
         publish(i, g, requested)
  PROVE  DirectoryIInv' /\ \A j \in Identities : LossExplained(j)
<1> DEFINE o == i[2]
           ad == [generation |-> g, epoch |-> owners[o].current, expires |-> Min({requested, now + AdTtl})]
           refused(d) == \/ rejected_generation(d, i, g)
                         \/ d.ads[i] # NoAd /\ d.ads[i].generation > g
                         \/ d.ads[i] = NoAd /\ ~(ensure_new_identity(d, o) /\ AdvertisementFits(d, o))
           result(d) == IF refused(d) THEN d ELSE forget([d EXCEPT !.ads[i] = ad], {i[1]})
<1>1. PICK d \in prune(Directory) : Store(result(d))
  BY Zenon DEF publish
<1>2. /\ DirOK(Directory) /\ now \in Times /\ Directory.ads = advertisements /\ Directory.retired = retired
      /\ o \in Owners
  BY Zenon, Reads DEF DirectoryIInv
<1>3. DirOK(d)
  BY Zenon, <1>2, pruneEffect
<1>4. ASSUME NEW j \in Identities
      PROVE  Fences(Held(owners[j[2]]), fences[j], d.ads[j], d.retired[j], now)
  BY Zenon, <1>2, Reads, PruneStep DEF DirectoryIInv
<1>5. UNCHANGED <<now, owners, transaction, epochs, fences>>
  BY Zenon DEF publish
<1>6. CASE refused(d)
  <2>1. Store(d) /\ advertisements' = d.ads
    BY Zenon, <1>1, <1>6 DEF Store
  <2>2. DirectoryIInv'
    BY Zenon, <1>3, <1>4, <1>5, <2>1, IndexStep
  <2>3. ASSUME NEW j \in Identities
        PROVE  LossExplained(j)
    BY Zenon, <1>2, <2>1, PruneKeeps DEF LossExplained, Lost
  <2> QED
    BY Zenon, <2>2, <2>3
<1>7. CASE ~ refused(d)
  <2> DEFINE c == [d EXCEPT !.ads[i] = ad]
             e == forget(c, {i[1]})
  <2>1. ad \in Advertisements /\ ad.generation = g /\ ad # NoAd
    <3>1. /\ requested \in Int /\ now + AdTtl \in Int /\ requested \in 0 .. MaxTime + AdTtl
          /\ now + AdTtl \in 0 .. MaxTime + AdTtl
      BY <1>2, Constants DEF Times
    <3>2. Min({requested, now + AdTtl}) \in 0 .. MaxTime + AdTtl
      BY Zenon, <3>1, MaxMin
    <3>3. owners[o].current \in 0 .. MaxEpoch
      BY Zenon, <1>2 DEF DirectoryIInv, Authorities, Epochs
    <3>4. g \in 0 .. MaxGeneration /\ g # 0
      BY Constants DEF Generations
    <3>5. ad \in Advertisements
      BY Zenon, <3>2, <3>3, <3>4 DEF Advertisements
    <3> QED
      BY Zenon, <3>4, <3>5 DEF NoAd
  <2>2. i \in Live(d) \/ ensure_new_identity(d, o)
    BY Zenon, <1>7 DEF Live
  <2> HIDE DEF ad
  <2>3. /\ DirOK(c) /\ c.retired = d.retired
        /\ \A j \in Identities : c.ads[j] = IF j = i THEN ad ELSE d.ads[j]
    BY Zenon, <1>3, <2>1, <2>2, insertEffect
  <2> HIDE DEF c
  <2>4. e \in Directories /\ e.ads = c.ads /\ e.retired = c.retired /\ e.absent = c.absent
    BY Zenon, <2>3, forgetEffect DEF DirOK
  <2>5. Store(e)
    BY Zenon, <1>1, <1>7 DEF c, ad
  <2> HIDE DEF e
  <2>6. DirOK(e)
    BY Zenon, <2>3, <2>4, SameIndexes
  <2>7. ASSUME NEW j \in Identities
        PROVE  Fences(Held(owners[j[2]]), fences[j], e.ads[j], e.retired[j], now)
    <3>1. CASE j = i
      <4>1. ~ (d.retired[i].generation >= ad.generation /\ d.retired[i].until > now)
        BY Zenon, <1>7, <2>1 DEF rejected_generation
      <4>2. d.retired[i] \in Retirements /\ fences[i] \in Fence /\ ad.generation \in Generations
        BY Zenon, <1>3, <2>1, DirectoryShape, Reads DEF DirOK
      <4>3. Fences(Held(owners[i[2]]), fences[i], ad, d.retired[i], now)
        BY Zenon, <1>2, <1>4, <4>1, <4>2, FencesPublish
      <4> QED
        BY Zenon, <3>1, <4>3, <2>3, <2>4
    <3>2. CASE j # i
      BY Zenon, <3>2, <1>4, <2>3, <2>4
    <3> QED
      BY Zenon, <3>1, <3>2
  <2>8. DirectoryIInv'
    BY Zenon, <1>5, <2>5, <2>6, <2>7, IndexStep
  <2>9. ASSUME NEW j \in Identities
        PROVE  LossExplained(j)
    <3>1. advertisements' = e.ads
      BY Zenon, <2>5 DEF Store
    <3>2. CASE j = i
      BY Zenon, <3>1, <3>2, <2>1, <2>3, <2>4 DEF LossExplained, Lost
    <3>3. CASE j # i
      BY Zenon, <3>1, <3>3, <2>3, <2>4, <1>2, PruneKeeps DEF LossExplained, Lost
    <3> QED
      BY Zenon, <3>2, <3>3
  <2> QED
    BY Zenon, <2>8, <2>9
<1> QED
  BY Zenon, <1>6, <1>7

\* What an invalidation of g until u that the directory takes does to the indexes:
\* a live advertisement of g or below goes, and the retirement covers g until w.
Invalidated(d, e, i, g, u, w) ==
    /\ DirOK(d) /\ DirOK(e) /\ w \in Deadlines /\ w >= u
    /\ \A j \in Identities : j # i => e.ads[j] = d.ads[j] /\ e.retired[j] = d.retired[j]
    /\ \/ e.ads[i] = NoAd
       \/ e.ads[i] = d.ads[i] /\ d.ads[i].generation > g
    /\ \/ e.retired[i] = d.retired[i] /\ u <= now
       \/ Merged(d.retired[i], e.retired[i], g, w)

\* An invalidation that the directory takes keeps the invariant.
LEMMA InvalidationStep ==
  ASSUME DirectoryIInv, NEW i \in Identities, NEW g \in Generations, NEW u \in 0 .. MaxTime + LeaseTtl,
         owners[i[2]].current # None, NEW d, NEW e, NEW w, Invalidated(d, e, i, g, u, w), Store(e),
         \A j \in Identities : Fences(Held(owners[j[2]]), fences[j], d.ads[j], d.retired[j], now),
         fences' = Fenced(i, g, u), UNCHANGED <<now, owners, transaction, epochs>>
  PROVE  DirectoryIInv'
<1> DEFINE a == owners[i[2]].current
           f == Refenced(a, fences[i], g, u, now)
<1>1. Directory' = e
  BY Zenon, StoreIs DEF DirOK, Invalidated
<1>2. DirOK(Directory)'
  BY Zenon, <1>1 DEF Invalidated
<1>3. advertisements' = e.ads /\ retired' = e.retired
  BY Zenon DEF Store
<1>4. fences \in [Identities -> Fence] /\ fences' = [fences EXCEPT ![i] = f]
  BY Zenon DEF DirectoryIInv, Fenced, Refenced
<1>5. /\ i[2] \in Owners /\ now \in Times /\ a \in 0 .. MaxEpoch /\ fences[i] \in Fence
      /\ Registers(owners[i[2]], transaction[i[2]], epochs)
  <2>1. i[2] \in Owners /\ now \in Times /\ fences[i] \in Fence
    BY Zenon, Reads DEF DirectoryIInv
  <2> QED
    BY Zenon, <2>1 DEF DirectoryIInv, Authorities, Epochs
<1>6. transaction[i[2]] = NoTransaction /\ Held(owners[i[2]]) = a /\ a <= epochs
  BY Zenon, <1>5 DEF Registers, Held
<1>7. /\ d.retired[i] \in Retirements /\ e.retired[i] \in Retirements
      /\ d.ads[i] # NoAd => d.ads[i].generation \in Generations
  BY Zenon, DirectoryShape DEF DirOK, Live, Invalidated
<1>8. Fences(a, fences[i], d.ads[i], d.retired[i], now)
  BY Zenon, <1>6
<1> HIDE DEF a
<1>9. a # None
  BY Zenon DEF a
<1>10. f \in Fence /\ Fences(a, f, e.ads[i], e.retired[i], now)
  BY Zenon, <1>5, <1>7, <1>8, <1>9, FencesInvalidate DEF Invalidated
<1>11. f.epoch = a
  BY Zenon DEF Refenced
<1> HIDE DEF f
<1>12. /\ fences' \in [Identities -> Fence] /\ fences'[i] = f
       /\ \A j \in Identities : j # i => fences'[j] = fences[j]
  BY Zenon, <1>4, <1>10
<1>13. ASSUME NEW j \in Identities
       PROVE  /\ fences'[j].epoch <= epochs
              /\ transaction[j[2]] # NoTransaction => fences'[j].epoch < transaction[j[2]].epoch
              /\ Fences(Held(owners[j[2]]), fences'[j], advertisements'[j], retired'[j], now)
  <2>1. CASE j = i
    BY Zenon, <2>1, <1>3, <1>6, <1>10, <1>11, <1>12
  <2>2. CASE j # i
    <3>1. /\ e.ads[j] = d.ads[j] /\ e.retired[j] = d.retired[j]
      BY Zenon, <2>2 DEF Invalidated
    <3>2. Fences(Held(owners[j[2]]), fences'[j], advertisements'[j], retired'[j], now)
      BY Zenon, <2>2, <3>1, <1>3, <1>12
    <3> QED
      BY Zenon, <2>2, <3>2, <1>12 DEF DirectoryIInv
  <2> QED
    BY Zenon, <2>1, <2>2
<1>14. DirectoryIInv'
  BY Zenon, <1>2, <1>12, <1>13 DEF DirectoryIInv
<1> QED
  BY Zenon, <1>14

\* invalidate: a refused one only prunes, the others withdraw or retire in advance;
\* what it takes out stays retired until it would have expired.
LEMMA invalidateStep ==
  ASSUME DirectoryIInv, NEW i \in Identities, NEW g \in Generations, NEW requested \in now .. MaxTime,
         invalidate(i, g, requested)
  PROVE  DirectoryIInv' /\ \A j \in Identities : LossExplained(j)
<1> DEFINE o == i[2]
           until == bounded_absent_deadline(requested)
           isLive(d) == d.ads[i] # NoAd /\ d.ads[i].generation <= g
           liveUntil(d) == Max({d.ads[i].expires, until})
           known(d) == i \in Retired(d)
           fits(d) == CASE isLive(d) -> liveUntil(d) <= now \/ known(d) \/ RetirementFits(d, o, FALSE)
                        [] ~isLive(d) /\ known(d) -> TRUE
                        [] ~isLive(d) /\ ~known(d) -> /\ ensure_new_identity(d, o)
                                                      /\ until <= now \/ RetirementFits(d, o, TRUE)
           live(d) == IF liveUntil(d) <= now THEN d ELSE retire_live(d, i, g, liveUntil(d))
           result(d) == IF ~fits(d) THEN d
                        ELSE IF isLive(d) THEN forget([live(d) EXCEPT !.ads[i] = NoAd], {i[1]})
                        ELSE IF until <= now THEN d
                        ELSE retire_absent(d, i, g, until)
<1>1. PICK d \in prune(Directory) : /\ Store(result(d))
                                    /\ fences' = IF fits(d) THEN Fenced(i, g, until) ELSE fences
  BY Zenon DEF invalidate
<1>2. /\ DirOK(Directory) /\ now \in Times /\ Directory.ads = advertisements /\ Directory.retired = retired
      /\ o \in Owners
  BY Zenon, Reads DEF DirectoryIInv
<1>3. DirOK(d) /\ d \in Directories
  BY Zenon, <1>2, pruneEffect DEF DirOK
<1>4. ASSUME NEW j \in Identities
      PROVE  Fences(Held(owners[j[2]]), fences[j], d.ads[j], d.retired[j], now)
  BY Zenon, <1>2, Reads, PruneStep DEF DirectoryIInv
<1>5. owners[o].current # None /\ UNCHANGED <<now, owners, transaction, epochs>>
  BY Zenon DEF invalidate
<1>6. ASSUME NEW j \in Identities, Lost(j)
      PROVE  d.ads[j] = advertisements[j]
  BY Zenon, <1>2, <1>6, PruneKeeps DEF Lost
<1>7. /\ until \in 0 .. MaxTime + LeaseTtl /\ until \in Deadlines /\ liveUntil(d) \in Deadlines
      /\ liveUntil(d) >= until /\ liveUntil(d) >= d.ads[i].expires /\ d.ads[i].expires \in 0 .. MaxTime + AdTtl
  <2>1. requested \in 0 .. MaxTime + AdTtl
    BY <1>2, Constants DEF Times
  <2>2. d.ads[i].expires \in 0 .. MaxTime + AdTtl
    BY Zenon, <1>3, DirectoryShape DEF Advertisements
  <2> QED
    BY Zenon, <2>1, <2>2, <1>2, deadlineEffect
<1> HIDE DEF until, liveUntil
<1>8. CASE ~ fits(d)
  <2>1. Store(d) /\ fences' = fences
    BY Zenon, <1>1, <1>8
  <2>2. DirectoryIInv'
    BY Zenon, <1>3, <1>4, <1>5, <2>1, IndexStep
  <2>3. ASSUME NEW j \in Identities
        PROVE  LossExplained(j)
    BY Zenon, <1>6, <2>1 DEF LossExplained, Lost, Store
  <2> QED
    BY Zenon, <2>2, <2>3
<1>9. CASE fits(d) /\ isLive(d)
  <2> DEFINE c == [live(d) EXCEPT !.ads[i] = NoAd]
             e == forget(c, {i[1]})
  <2>1. Store(e) /\ fences' = Fenced(i, g, until)
    BY Zenon, <1>1, <1>9
  <2>2. i \in Live(d)
    BY Zenon, <1>9 DEF Live
  <2>3. /\ DirOK(c) /\ \A j \in Identities : c.ads[j] = IF j = i THEN NoAd ELSE d.ads[j]
        /\ \A j \in Identities : j # i => c.retired[j] = d.retired[j]
        /\ IF liveUntil(d) <= now THEN c.retired[i] = d.retired[i]
                                  ELSE Merged(d.retired[i], c.retired[i], g, liveUntil(d))
    <3>1. CASE liveUntil(d) <= now
      <4>1. c = Withdraw(d, i)
        BY Zenon, <3>1 DEF Withdraw
      <4> HIDE DEF c
      <4> QED
        BY Zenon, <3>1, <4>1, <1>3, WithdrawEffect
    <3>2. CASE ~ (liveUntil(d) <= now)
      <4>1. c = Withdraw(retire_live(d, i, g, liveUntil(d)), i)
        BY Zenon, <3>2 DEF Withdraw
      <4> HIDE DEF c
      <4>2. RetiredLive(d, c, i, g, liveUntil(d))
        BY Zenon, <4>1, <1>3, <1>7, <2>2, retire_liveEffect
      <4> QED
        BY Zenon, <3>2, <4>2 DEF RetiredLive
    <3> QED
      BY Zenon, <3>1, <3>2
  <2> HIDE DEF c
  <2>4. e \in Directories /\ e.ads = c.ads /\ e.retired = c.retired /\ e.absent = c.absent
    BY Zenon, <2>3, forgetEffect DEF DirOK
  <2> HIDE DEF e
  <2>5. DirOK(e)
    BY Zenon, <2>3, <2>4, SameIndexes
  <2>6. liveUntil(d) <= now => until <= now
    BY <1>2, <1>7, Constants DEF Times, Deadlines
  <2>7. /\ \A j \in Identities : j # i => e.ads[j] = d.ads[j] /\ e.retired[j] = d.retired[j]
        /\ e.ads[i] = NoAd
        /\ \/ e.retired[i] = d.retired[i] /\ until <= now
           \/ Merged(d.retired[i], e.retired[i], g, liveUntil(d))
    BY Zenon, <2>3, <2>4, <2>6
  <2>8. DirectoryIInv'
    <3>1. Invalidated(d, e, i, g, until, liveUntil(d))
      BY Zenon, <1>3, <1>7, <2>5, <2>7 DEF Invalidated
    <3> QED
      BY Zenon, <3>1, <1>4, <1>5, <1>7, <2>1, InvalidationStep
  <2>9. ASSUME NEW j \in Identities
        PROVE  LossExplained(j)
    <3>0. SUFFICES ASSUME Lost(j)
                   PROVE  /\ retired'[j].generation >= advertisements[j].generation
                          /\ retired'[j].until >= advertisements[j].expires
      BY Zenon DEF LossExplained
    <3>1. advertisements' = e.ads /\ retired' = e.retired /\ d.ads[j] = advertisements[j]
      BY Zenon, <2>1, <1>6, <3>0 DEF Store
    <3>2. j = i
      BY Zenon, <3>0, <3>1, <2>7 DEF Lost
    <3>3. d.ads[i].expires > now
      BY Zenon, <3>0, <3>1, <3>2 DEF Lost
    <3>4. ~ (liveUntil(d) <= now)
      BY <3>3, <1>2, <1>7, Constants DEF Times, Deadlines
    <3>5. Merged(d.retired[i], e.retired[i], g, liveUntil(d))
      BY Zenon, <3>4, <2>3, <2>4
    <3>6. e.retired[i] \in Retirements /\ d.ads[i] \in Advertisements
      BY Zenon, <2>4, <1>3, DirectoryShape
    <3>7. e.retired[i].generation >= g /\ e.retired[i].until >= liveUntil(d) /\ d.ads[i].generation <= g
      BY Zenon, <3>5, <1>9 DEF Merged
    <3>8. e.retired[i].generation >= d.ads[i].generation /\ e.retired[i].until >= d.ads[i].expires
      BY <3>6, <3>7, <1>7, Constants DEF Retirements, Advertisements, Generations, Deadlines
    <3> QED
      BY Zenon, <3>1, <3>2, <3>8
  <2> QED
    BY Zenon, <2>8, <2>9
<1>10. CASE fits(d) /\ ~ isLive(d)
  <2>1. fences' = Fenced(i, g, until)
    BY Zenon, <1>1, <1>10
  <2>2. d.ads[i] = NoAd \/ d.ads[i].generation > g
    <3>1. d.ads[i].generation \in Int /\ g \in Int
      BY <1>3, DirectoryShape, Constants DEF Advertisements, Generations
    <3>2. d.ads[i] = NoAd \/ ~ (d.ads[i].generation <= g)
      BY Zenon, <1>10
    <3> QED
      BY <3>1, <3>2
  <2>3. CASE until <= now
    <3>1. Store(d)
      BY Zenon, <1>1, <1>10, <2>3
    <3>2. DirectoryIInv'
      <4>1. until >= until
        BY <1>7, Constants
      <4>2. Invalidated(d, d, i, g, until, until)
        BY Zenon, <1>3, <1>7, <2>2, <2>3, <4>1 DEF Invalidated
      <4> QED
        BY Zenon, <4>2, <1>4, <1>5, <1>7, <2>1, <3>1, InvalidationStep
    <3>3. ASSUME NEW j \in Identities
          PROVE  LossExplained(j)
      BY Zenon, <1>6, <3>1 DEF LossExplained, Lost, Store
    <3> QED
      BY Zenon, <3>2, <3>3
  <2>4. CASE ~ (until <= now)
    <3> DEFINE e == retire_absent(d, i, g, until)
    <3>1. Store(e)
      BY Zenon, <1>1, <1>10, <2>4
    <3>2. i \in Retired(d) \/ (ensure_new_identity(d, i[2]) /\ RetirementFits(d, i[2], TRUE))
      BY Zenon, <1>10, <2>4
    <3>3. /\ DirOK(e) /\ e.ads = d.ads /\ Merged(d.retired[i], e.retired[i], g, until)
          /\ \A j \in Identities : j # i => e.retired[j] = d.retired[j]
      BY Zenon, <3>2, <1>3, <1>7, retire_absentEffect
    <3> HIDE DEF e
    <3>4. until >= until
      BY <1>7, Constants
    <3>5. DirectoryIInv'
      <4>1. Invalidated(d, e, i, g, until, until)
        BY Zenon, <1>3, <1>7, <2>2, <3>3, <3>4 DEF Invalidated
      <4> QED
        BY Zenon, <4>1, <1>4, <1>5, <1>7, <2>1, <3>1, InvalidationStep
    <3>6. ASSUME NEW j \in Identities
          PROVE  LossExplained(j)
      BY Zenon, <1>6, <3>1, <3>3 DEF LossExplained, Lost, Store
    <3> QED
      BY Zenon, <3>5, <3>6
  <2> QED
    BY Zenon, <2>3, <2>4
<1> QED
  BY Zenon, <1>8, <1>9, <1>10

\* The clock.
LEMMA TickStep ==
  ASSUME DirectoryIInv, Tick
  PROVE  DirectoryIInv' /\ \A i \in Identities : LossExplained(i)
<1>1. /\ UNCHANGED <<advertisements, retired, absent, expired, owners, transaction, epochs>>
      /\ now' = now + 1 /\ now < MaxTime /\ now \in Times
      /\ fences' = [i \in Identities |-> [fences[i] EXCEPT !.until =
                       [g \in Generations |-> IF @[g] <= now + 1 THEN 0 ELSE @[g]]]]
  BY Zenon DEF Tick, DirectoryIInv
<1>2. now' \in Times
  BY <1>1, Constants DEF Times
<1>3. ASSUME NEW i \in Identities
      PROVE  /\ fences'[i] \in Fence /\ fences'[i].epoch = fences[i].epoch
             /\ Fences(Held(owners[i[2]]), fences'[i], advertisements[i], retired[i], now + 1)
  <2> DEFINE h == Ticked(fences[i], now + 1)
  <2>1. fences'[i] = h
    BY Zenon, <1>1 DEF Ticked
  <2>2. /\ Fences(Held(owners[i[2]]), fences[i], advertisements[i], retired[i], now)
        /\ fences[i] \in Fence /\ (advertisements[i] # NoAd => advertisements[i].generation \in Generations)
    BY Zenon, Reads DEF DirectoryIInv
  <2>3. now \in Times
    BY Zenon, <1>1
  <2>4. Fences(Held(owners[i[2]]), h, advertisements[i], retired[i], now + 1) /\ h \in Fence
        /\ h.epoch = fences[i].epoch
    BY Zenon, <2>2, <2>3, FencesTick
  <2> QED
    BY Zenon, <2>1, <2>4
<1>4. fences' \in [Identities -> Fence]
  BY Zenon, <1>1, <1>3
<1>5. Directory' = Directory
  BY Zenon, <1>1 DEF Directory
<1>6. DirectoryIInv'
  BY Zenon, <1>1, <1>2, <1>3, <1>4, <1>5 DEF DirectoryIInv
<1> QED
  BY Zenon, <1>1, <1>6, NotLost

\* A call of a registration that leaves the indexes and the authority they belong
\* to.
LEMMA QuietStep ==
  ASSUME DirectoryIInv, NEW o \in Owners, NEW out, NEW t, NEW n \in Epochs, epochs <= n,
         transaction' = [transaction EXCEPT ![o] = t], epochs' = n, UNCHANGED <<now, fences>>,
         Apply(o, out, Directory), ~out.clears, Held(out.owner) \in {Held(owners[o]), None},
         Registers(out.owner, t, n),
         \A i \in Identities : (i[2] = o /\ t # NoTransaction) => fences[i].epoch < t.epoch
  PROVE  DirectoryIInv' /\ \A i \in Identities : LossExplained(i)
<1>1. /\ DirOK(Directory) /\ Directory.ads = advertisements /\ Directory.retired = retired
      /\ Store(Directory) /\ owners' = [owners EXCEPT ![o] = out.owner]
  BY Zenon, Reads DEF Apply
<1>2. ASSUME NEW i \in Identities
      PROVE  Fences(IF i[2] = o THEN Held(out.owner) ELSE Held(owners[i[2]]),
                    fences[i], Directory.ads[i], Directory.retired[i], now)
  <2>1. Fences(Held(owners[i[2]]), fences[i], Directory.ads[i], Directory.retired[i], now)
    BY Zenon, <1>1 DEF DirectoryIInv
  <2>2. CASE i[2] = o
    <3>1. CASE Held(out.owner) = None
      BY Zenon, <2>2, <3>1 DEF Fences
    <3>2. CASE Held(out.owner) = Held(owners[o])
      BY Zenon, <2>1, <2>2, <3>2
    <3> QED
      BY Zenon, <3>1, <3>2
  <2>3. CASE i[2] # o
    BY Zenon, <2>1, <2>3
  <2> QED
    BY Zenon, <2>2, <2>3
<1>3. DirectoryIInv'
  BY Zenon, <1>1, <1>2, RegistrationStep
<1>4. advertisements' = advertisements
  BY Zenon, <1>1 DEF Store
<1> QED
  BY Zenon, <1>3, <1>4, NotLost

\* What the calls of a registration read of their owner.
LEMMA OwnerReads ==
  ASSUME DirectoryIInv, NEW o \in Owners
  PROVE  /\ Registers(owners[o], transaction[o], epochs) /\ epochs \in Nat /\ epochs \in Epochs
         /\ epochs <= epochs /\ transaction[o].epoch <= epochs
         /\ \A i \in Identities : (i[2] = o /\ transaction[o] # NoTransaction)
                                     => fences[i].epoch < transaction[o].epoch
<1>1. Registers(owners[o], transaction[o], epochs) /\ epochs \in Epochs
  BY Zenon DEF DirectoryIInv
<1>2. epochs \in Nat /\ epochs <= epochs
  BY <1>1, Constants DEF Epochs
<1>3. \A i \in Identities : (i[2] = o /\ transaction[o] # NoTransaction)
                               => fences[i].epoch < transaction[o].epoch
  BY Zenon DEF DirectoryIInv
<1> QED
  BY Zenon, <1>1, <1>2, <1>3 DEF Registers

\* stage_registration: the owner is hidden, its records stay.
LEMMA StageStep ==
  ASSUME DirectoryIInv, NEW o \in Owners, NEW participates \in BOOLEAN, Stage(o, participates)
  PROVE  DirectoryIInv' /\ \A i \in Identities : LossExplained(i)
<1> DEFINE next == IF participates THEN epochs + 1 ELSE None
           out == stage_owner_transition(owners[o], next, epochs + 1)
           t == [epoch |-> epochs + 1, previous |-> owners[o].current, bound |-> FALSE]
<1>1. /\ transaction[o] = NoTransaction /\ epochs < MaxEpoch /\ epochs' = epochs + 1
      /\ transaction' = [transaction EXCEPT ![o] = t] /\ Apply(o, out, Directory)
      /\ UNCHANGED <<now, fences>>
  BY Zenon DEF Stage
<1>2. Registers(owners[o], NoTransaction, epochs) /\ epochs \in Nat
  BY Zenon, <1>1, OwnerReads
<1>3. epochs + 1 \in Epochs /\ epochs <= epochs + 1
  BY <1>1, <1>2, Constants DEF Epochs
<1>4. next \in {None, epochs + 1} /\ t.epoch = epochs + 1
  BY Zenon
<1> HIDE DEF next
<1>5. ~out.clears /\ Held(out.owner) = Held(owners[o]) /\ Registers(out.owner, t, epochs + 1)
  BY Zenon, <1>1, <1>2, <1>4, StageKeeps
<1>6. ASSUME NEW i \in Identities
      PROVE  fences[i].epoch < t.epoch
  <2>1. fences[i].epoch \in Epochs /\ fences[i].epoch <= epochs
    BY Zenon, Reads DEF DirectoryIInv
  <2> HIDE DEF t
  <2> QED
    BY <2>1, <1>2, <1>4 DEF Epochs
<1> HIDE DEF out, t
<1> QED
  BY Zenon, <1>1, <1>3, <1>5, <1>6, QuietStep

\* commit_registration: the transition is bound to its incarnation.
LEMMA BindStep ==
  ASSUME DirectoryIInv, NEW o \in Owners, Bind(o)
  PROVE  DirectoryIInv' /\ \A i \in Identities : LossExplained(i)
<1> DEFINE t == transaction[o]
           out == bind_owner_registration(owners[o], t.epoch, t.epoch)
<1>1. /\ t # NoTransaction /\ out.ok /\ Apply(o, out, Directory) /\ UNCHANGED <<now, epochs, fences>>
      /\ transaction' = [transaction EXCEPT ![o].bound = TRUE]
  BY Zenon DEF Bind
<1>2. transaction' = [transaction EXCEPT ![o] = Bound(t)]
  BY Zenon, <1>1 DEF Bound
<1>3. /\ Registers(owners[o], t, epochs) /\ epochs \in Epochs /\ epochs <= epochs
      /\ \A i \in Identities : i[2] = o => fences[i].epoch < t.epoch
  BY Zenon, <1>1, OwnerReads
<1>4. /\ ~out.clears /\ Held(out.owner) = Held(owners[o]) /\ Registers(out.owner, Bound(t), epochs)
      /\ Bound(t).epoch = t.epoch
  BY Zenon, <1>1, <1>3, BindKeeps
<1> HIDE DEF out, t
<1> QED
  BY Zenon, <1>1, <1>2, <1>3, <1>4, QuietStep

\* restore_registration_after_registry: the previous authority is back with every
\* record.
LEMMA RollBackStep ==
  ASSUME DirectoryIInv, NEW o \in Owners, RollBack(o)
  PROVE  DirectoryIInv' /\ \A i \in Identities : LossExplained(i)
<1> DEFINE t == transaction[o]
           out == stage_owner_transition(owners[o], t.previous, t.previous)
<1>1. /\ t # NoTransaction /\ Apply(o, out, Directory) /\ UNCHANGED <<now, epochs, fences>>
      /\ transaction' = [transaction EXCEPT ![o] = NoTransaction]
  BY Zenon DEF RollBack
<1>2. Registers(owners[o], t, epochs) /\ epochs \in Nat /\ epochs \in Epochs /\ epochs <= epochs
  BY Zenon, OwnerReads
<1>3. ~out.clears /\ Held(out.owner) = Held(owners[o]) /\ Registers(out.owner, NoTransaction, epochs)
  BY Zenon, <1>1, <1>2, RollBackKeeps
<1> HIDE DEF out
<1> QED
  BY Zenon, <1>1, <1>2, <1>3, QuietStep

\* on_register_any: the records of the previous authority go, and the next one
\* starts unfenced.
LEMMA FinalizeStep ==
  ASSUME DirectoryIInv, NEW o \in Owners, Finalize(o)
  PROVE  DirectoryIInv' /\ \A i \in Identities : LossExplained(i)
<1> DEFINE t == transaction[o]
           out == finalize_owner_registration(owners[o], t.epoch)
           c == clear_owner_metadata(Directory, o)
<1>1. /\ t.bound /\ out.ok /\ UNCHANGED <<now, epochs, fences>>
      /\ transaction' = [transaction EXCEPT ![o] = NoTransaction]
      /\ IF out.clears
         THEN \E d \in prune(c) : Store(d) /\ owners' = [owners EXCEPT ![o] = out.owner]
         ELSE Apply(o, out, Directory)
  BY Zenon DEF Finalize
<1>2. /\ Registers(owners[o], t, epochs) /\ epochs \in Nat /\ epochs \in Epochs /\ epochs <= epochs
      /\ DirOK(Directory) /\ Directory.ads = advertisements /\ Directory.retired = retired /\ now \in Times
  BY Zenon, OwnerReads, Reads DEF DirectoryIInv
<1>3. /\ t # NoTransaction /\ Registers(out.owner, NoTransaction, epochs)
      /\ Held(out.owner) \in {None, t.epoch} /\ ~IsPending(out.owner)
      /\ out.clears => IsPending(owners[o]) /\ out.owner.current = owners[o].pending.next
      /\ ~out.clears => Held(out.owner) = None
  <2>1. Finalized(owners[o], t, epochs, out)
    BY Zenon, <1>1, <1>2, FinalizeKeeps
  <2> HIDE DEF out, t
  <2> QED
    BY Zenon, <2>1 DEF Finalized
<1>4. CASE ~ out.clears
  <2>1. Apply(o, out, Directory) /\ Held(out.owner) = None
    BY Zenon, <1>1, <1>3, <1>4
  <2> HIDE DEF out
  <2> QED
    BY Zenon, <2>1, <1>1, <1>2, <1>3, <1>4, QuietStep
<1>5. CASE out.clears
  <2>1. PICK e \in prune(c) : Store(e) /\ owners' = [owners EXCEPT ![o] = out.owner]
    BY Zenon, <1>1, <1>5
  <2>2. /\ DirOK(c)
        /\ \A i \in Identities : /\ c.ads[i] = IF i[2] = o THEN NoAd ELSE advertisements[i]
                                 /\ c.retired[i] = IF i[2] = o THEN NotRetired ELSE retired[i]
    <3> DEFINE d == Directory
    <3>1. DirOK(d) /\ d.ads = advertisements /\ d.retired = retired
      BY Zenon, <1>2
    <3> HIDE DEF d
    <3>2. /\ DirOK(clear_owner_metadata(d, o))
          /\ \A i \in Identities :
               /\ clear_owner_metadata(d, o).ads[i] = IF i[2] = o THEN NoAd ELSE d.ads[i]
               /\ clear_owner_metadata(d, o).retired[i] = IF i[2] = o THEN NotRetired ELSE d.retired[i]
      BY Zenon, <3>1, clear_owner_metadataEffect
    <3> QED
      BY Zenon, <3>1, <3>2 DEF d
  <2> HIDE DEF c, out
  <2>3. DirOK(e)
    BY Zenon, <1>2, <2>2, pruneEffect
  <2>4. ASSUME NEW i \in Identities
        PROVE  Fences(IF i[2] = o THEN Held(out.owner) ELSE Held(owners[i[2]]),
                      fences[i], e.ads[i], e.retired[i], now)
    <3>0. fences[i] \in Fence /\ fences[i].epoch \in Epochs
      BY Zenon, Reads
    <3>1. CASE i[2] = o
      <4>1. CASE Held(out.owner) = None
        BY Zenon, <3>1, <4>1 DEF Fences
      <4>2. CASE Held(out.owner) = t.epoch
        <5>1. t.epoch \in Epochs /\ fences[i].epoch < t.epoch
          BY Zenon, <3>1, <1>2, <1>3, OwnerReads DEF Registers, Transactions
        <5>2. fences[i].epoch # Held(out.owner)
          BY <4>2, <5>1, <3>0 DEF Epochs
        <5>3. Fences(Held(out.owner), fences[i], c.ads[i], c.retired[i], now)
          BY Zenon, <3>1, <5>2, <2>2, FencesClear
        <5>4. Fences(Held(out.owner), fences[i], e.ads[i], e.retired[i], now)
          BY Zenon, <5>3, <3>0, <1>2, <2>2, PruneStep
        <5> QED
          BY Zenon, <3>1, <5>4
      <4> QED
        BY Zenon, <4>1, <4>2, <1>3
    <3>2. CASE i[2] # o
      <4>1. Fences(Held(owners[i[2]]), fences[i], c.ads[i], c.retired[i], now)
        BY Zenon, <3>2, <2>2 DEF DirectoryIInv
      <4>2. Fences(Held(owners[i[2]]), fences[i], e.ads[i], e.retired[i], now)
        BY Zenon, <4>1, <3>0, <1>2, <2>2, PruneStep
      <4> QED
        BY Zenon, <3>2, <4>2
    <3> QED
      BY Zenon, <3>1, <3>2
  <2>5. DirectoryIInv'
    BY Zenon, <2>1, <2>3, <2>4, <1>1, <1>2, <1>3, RegistrationStep
  <2>6. ASSUME NEW i \in Identities
        PROVE  LossExplained(i)
    <3>1. CASE i[2] = o
      <4>1. owners'[o] = out.owner
        BY Zenon, <2>1 DEF DirectoryIInv
      <4> QED
        BY Zenon, <3>1, <4>1, <1>3, <1>5 DEF LossExplained
    <3>2. CASE i[2] # o
      <4>1. c.ads[i] = advertisements[i] /\ advertisements' = e.ads
        BY Zenon, <3>2, <2>1, <2>2 DEF Store
      <4> QED
        BY Zenon, <4>1, <1>2, <2>2, PruneKeeps DEF LossExplained, Lost
    <3> QED
      BY Zenon, <3>1, <3>2
  <2> QED
    BY Zenon, <2>5, <2>6
<1> QED
  BY Zenon, <1>4, <1>5

\* remove_owner: every advertisement is retired until it would have expired; the
\* authority is gone.
LEMMA remove_ownerStep ==
  ASSUME DirectoryIInv, NEW o \in Owners, remove_owner(o)
  PROVE  DirectoryIInv' /\ \A i \in Identities : LossExplained(i)
<1> DEFINE d == Directory
           c == RetireAll(d, o)
<1>1. PICK e \in prune(c) : Store(e)
  BY Zenon DEF remove_owner
<1>2. /\ owners' = [owners EXCEPT ![o] = NoAuthority] /\ UNCHANGED <<now, epochs, fences>>
      /\ transaction' = [transaction EXCEPT ![o] = NoTransaction]
  BY Zenon DEF remove_owner
<1>3. /\ epochs \in Nat /\ epochs \in Epochs /\ epochs <= epochs /\ now \in Times
      /\ DirOK(d) /\ d.ads = advertisements /\ d.retired = retired
  BY Zenon, OwnerReads, Reads DEF DirectoryIInv
<1> HIDE DEF d
<1>4. /\ DirOK(RetireAll(d, o))
      /\ \A i \in Identities :
           /\ RetireAll(d, o).ads[i] = IF i[2] = o THEN NoAd ELSE d.ads[i]
           /\ IF i \in Live(d) /\ i[2] = o /\ d.ads[i].expires > now
              THEN /\ RetireAll(d, o).retired[i].generation >= d.ads[i].generation
                   /\ RetireAll(d, o).retired[i].until >= d.ads[i].expires
              ELSE RetireAll(d, o).retired[i] = d.retired[i]
  BY Zenon, <1>3, RetireAllEffect
<1> HIDE DEF c
<1>5. DirOK(c) /\ DirOK(e)
  BY Zenon, <1>1, <1>3, <1>4, pruneEffect DEF c
<1>6. ASSUME NEW i \in Identities, i[2] # o
      PROVE  c.ads[i] = advertisements[i] /\ c.retired[i] = retired[i]
  BY Zenon, <1>3, <1>4, <1>6 DEF c
<1>7. Registers(NoAuthority, NoTransaction, epochs) /\ Held(NoAuthority) = None
  <2>1. NoTransaction.epoch = None /\ None <= epochs
    BY <1>3 DEF NoTransaction, None
  <2> QED
    BY Zenon, <2>1, NoneTyped DEF Registers, Held
<1>8. ASSUME NEW i \in Identities
      PROVE  Fences(IF i[2] = o THEN Held(NoAuthority) ELSE Held(owners[i[2]]),
                    fences[i], e.ads[i], e.retired[i], now)
  <2>1. CASE i[2] = o
    BY Zenon, <2>1, <1>7 DEF Fences
  <2>2. CASE i[2] # o
    <3>1. Fences(Held(owners[i[2]]), fences[i], c.ads[i], c.retired[i], now) /\ fences[i] \in Fence
      BY Zenon, <2>2, <1>6, Reads DEF DirectoryIInv
    <3>2. Fences(Held(owners[i[2]]), fences[i], e.ads[i], e.retired[i], now)
      BY Zenon, <3>1, <1>1, <1>3, <1>5, PruneStep
    <3> QED
      BY Zenon, <2>2, <3>2
  <2> QED
    BY Zenon, <2>1, <2>2
<1>9. DirectoryIInv'
  BY Zenon, <1>1, <1>2, <1>3, <1>5, <1>7, <1>8, RegistrationStep
<1>10. ASSUME NEW i \in Identities
       PROVE  LossExplained(i)
  <2>0. advertisements' = e.ads /\ retired' = e.retired
    BY Zenon, <1>1 DEF Store
  <2>1. CASE i[2] # o
    <3>1. c.ads[i] = advertisements[i]
      BY Zenon, <2>1, <1>6
    <3>2. advertisements[i].expires > now => e.ads[i] = c.ads[i]
      BY Zenon, <3>1, <1>1, <1>3, <1>5, PruneKeeps
    <3> QED
      BY Zenon, <2>0, <3>1, <3>2 DEF LossExplained, Lost
  <2>2. CASE i[2] = o
    <3>0. SUFFICES ASSUME Lost(i)
                   PROVE  /\ retired'[i].generation >= advertisements[i].generation
                          /\ retired'[i].until >= advertisements[i].expires
      BY Zenon DEF LossExplained
    <3>1. i \in Live(d) /\ d.ads[i].expires > now
      BY Zenon, <3>0, <1>3 DEF Lost, Live
    <3>2. /\ c.retired[i].generation >= d.ads[i].generation
          /\ c.retired[i].until >= d.ads[i].expires
      BY Zenon, <3>1, <2>2, <1>4 DEF c
    <3>3. c.retired[i] \in Retirements /\ d.ads[i] \in Advertisements
      BY Zenon, <1>3, <1>5, DirectoryShape DEF DirOK
    <3>4. ~ (c.retired[i].until <= now)
      BY <3>1, <3>2, <3>3, <1>3, Constants DEF Retirements, Advertisements, Times
    <3>5. e.retired[i] = c.retired[i]
      BY Zenon, <3>4, <1>1, <1>3, <1>5, pruneEffect DEF Retained
    <3> QED
      BY Zenon, <2>0, <3>2, <3>5, <1>3
  <2> QED
    BY Zenon, <2>1, <2>2
<1> QED
  BY Zenon, <1>9, <1>10

\* Every step keeps the invariant and explains the advertisements that it takes
\* out.
LEMMA DirectoryStep ==
  ASSUME DirectoryIInv, DirectoryNext
  PROVE  DirectoryIInv' /\ \A i \in Identities : LossExplained(i)
<1>1. CASE Tick
  BY Zenon, <1>1, TickStep
<1>2. CASE query
  BY Zenon, <1>2, queryStep
<1>3. ASSUME NEW i \in Identities, NEW g \in Generations, NEW t \in now .. MaxTime, publish(i, g, t)
      PROVE  DirectoryIInv' /\ \A j \in Identities : LossExplained(j)
  BY Zenon, <1>3, publishStep
<1>4. ASSUME NEW i \in Identities, NEW g \in Generations, NEW t \in now .. MaxTime, invalidate(i, g, t)
      PROVE  DirectoryIInv' /\ \A j \in Identities : LossExplained(j)
  BY Zenon, <1>4, invalidateStep
<1>5. ASSUME NEW o \in Owners, Stage(o, TRUE) \/ Stage(o, FALSE)
      PROVE  DirectoryIInv' /\ \A j \in Identities : LossExplained(j)
  <2>1. TRUE \in BOOLEAN /\ FALSE \in BOOLEAN
    OBVIOUS
  <2> QED
    BY Zenon, <1>5, <2>1, StageStep
<1>6. ASSUME NEW o \in Owners, Bind(o)
      PROVE  DirectoryIInv' /\ \A j \in Identities : LossExplained(j)
  BY Zenon, <1>6, BindStep
<1>7. ASSUME NEW o \in Owners, Finalize(o)
      PROVE  DirectoryIInv' /\ \A j \in Identities : LossExplained(j)
  BY Zenon, <1>7, FinalizeStep
<1>8. ASSUME NEW o \in Owners, RollBack(o)
      PROVE  DirectoryIInv' /\ \A j \in Identities : LossExplained(j)
  BY Zenon, <1>8, RollBackStep
<1>9. ASSUME NEW o \in Owners, remove_owner(o)
      PROVE  DirectoryIInv' /\ \A j \in Identities : LossExplained(j)
  BY Zenon, <1>9, remove_ownerStep
<1> QED
  BY Zenon, <1>1, <1>2, <1>3, <1>4, <1>5, <1>6, <1>7, <1>8, <1>9 DEF DirectoryNext

\* The empty directory.
LEMMA DirectoryStart ==
  ASSUME DirectoryInit
  PROVE  DirectoryIInv
<1>1. /\ advertisements = [i \in Identities |-> NoAd] /\ retired = [i \in Identities |-> NotRetired]
      /\ absent = [o \in Owners |-> 0] /\ expired = [k \in Keys |-> None]
      /\ owners = [o \in Owners |-> NoAuthority] /\ transaction = [o \in Owners |-> NoTransaction]
      /\ fences = [i \in Identities |-> NoFence] /\ now = 0 /\ epochs = 0
  BY Zenon DEF DirectoryInit
<1>2. /\ NoAd \in Advertisements /\ NotRetired \in Retirements /\ NoFence \in Fence /\ NoFence.epoch = None
      /\ 0 \in 0 .. AbsentPerOwner /\ None \in 0 .. MaxTime + LeaseTtl
  <2>1. NoAd \in Advertisements /\ NotRetired \in Retirements
    BY Constants DEF NoAd, NotRetired, Advertisements, Retirements, None
  <2>2. 0 \in 0 .. AbsentPerOwner /\ None \in 0 .. MaxTime + LeaseTtl /\ None \in 0 .. MaxEpoch
        /\ 0 \in 0 .. MaxGeneration /\ 0 \in 0 .. MaxTime + LeaseTtl
    BY Constants DEF None
  <2>3. NoFence \in Fence /\ NoFence.epoch = None
    BY Zenon, <2>2 DEF NoFence, Fence
  <2> QED
    BY Zenon, <2>1, <2>2, <2>3
<1>3. now \in Times /\ epochs \in Epochs /\ None <= epochs
  BY <1>1, Constants DEF Times, Epochs, None
<1>4. Directory \in Directories
  BY Zenon, <1>1, <1>2 DEF Directory, Directories
<1>5. Live(Directory) = {} /\ Retired(Directory) = {} /\ \A o : Counted(Directory, o) = {}
  <2>1. Directory.ads = advertisements /\ Directory.retired = retired /\ NotRetired.source # "Absent"
    BY Zenon DEF Directory, NotRetired
  <2>2. /\ \A i \in Identities : advertisements[i] = NoAd /\ retired[i] = NotRetired
        /\ \A o : Of(o) \subseteq Identities
    BY Zenon, <1>1 DEF Of
  <2> QED
    BY Zenon, <2>1, <2>2 DEF Live, Retired, Counted
<1>6. Room(Directory)
  <2>1. /\ Cardinality(Live(Directory)) = 0 /\ Cardinality(Retired(Directory)) = 0
        /\ \A o : /\ Cardinality(Live(Directory) \cap Of(o)) = 0
                  /\ Cardinality(Retired(Directory) \cap Of(o)) = 0
    <3>1. \A S : {} \cap S = {}
      OBVIOUS
    <3> QED
      BY Zenon, <3>1, <1>5, FS_EmptySet
  <2>2. 0 + 0 <= IdentityGlobal /\ 0 + 0 <= IdentityPerOwner
    BY Constants
  <2> QED
    BY Zenon, <2>1, <2>2 DEF Room
<1>7. \A o \in Owners : Directory.absent[o] = Cardinality(Counted(Directory, o))
  BY Zenon, <1>1, <1>5, FS_EmptySet DEF Directory
<1>8. DirOK(Directory)
  BY Zenon, <1>4, <1>5, <1>6, <1>7 DEF DirOK
<1>9. Registers(NoAuthority, NoTransaction, epochs) /\ Held(NoAuthority) = None
  <2>1. NoTransaction.epoch = None
    BY Zenon DEF NoTransaction
  <2> QED
    BY Zenon, <2>1, <1>3, NoneTyped DEF Registers, Held
<1>10. ASSUME NEW i \in Identities
       PROVE  /\ fences[i].epoch <= epochs /\ transaction[i[2]] = NoTransaction
              /\ Fences(Held(owners[i[2]]), fences[i], advertisements[i], retired[i], now)
  <2>1. i[2] \in Owners
    BY Zenon DEF Identities
  <2> QED
    BY Zenon, <2>1, <1>1, <1>2, <1>3, <1>9 DEF Fences
<1>11. /\ fences \in [Identities -> Fence] /\ owners \in [Owners -> Authorities]
       /\ transaction \in [Owners -> Transactions]
       /\ \A o \in Owners : Registers(owners[o], transaction[o], epochs)
  BY Zenon, <1>1, <1>2, <1>9, NoneTyped
<1> QED
  BY Zenon, <1>3, <1>8, <1>10, <1>11 DEF DirectoryIInv

\* The invariant speaks of the variables only.
LEMMA DirectoryStutter ==
  ASSUME DirectoryIInv, UNCHANGED directoryVars
  PROVE  DirectoryIInv'
<1>1. Directory' = Directory
  BY Zenon DEF directoryVars, Directory
<1> QED
  BY Zenon, <1>1 DEF DirectoryIInv, directoryVars

\* DirectoryIInv holds in every state of the directory.
THEOREM DirectoryInduction == DirectorySpec => []DirectoryIInv
<1>1. DirectoryInit => DirectoryIInv
  BY Zenon, DirectoryStart
<1>2. DirectoryIInv /\ [DirectoryNext]_directoryVars => DirectoryIInv'
  BY Zenon, DirectoryStep, DirectoryStutter
<1> QED
  BY <1>1, <1>2, PTL DEF DirectorySpec

\* What is fenced under the current authority is not advertised, so query does not
\* find it.
LEMMA IInvHits == DirectoryIInv => HitsAreCurrent
<1>1. SUFFICES ASSUME DirectoryIInv, NEW k \in Keys, NEW t \in Times, NEW o \in Hits(k, t)
               PROVE  /\ advertisements[<<k, o>>].epoch = owners[o].current
                      /\ ~ /\ fences[<<k, o>>].epoch = owners[o].current
                           /\ fences[<<k, o>>].until[advertisements[<<k, o>>].generation] > now
  BY Zenon DEF HitsAreCurrent
<1> DEFINE i == <<k, o>>
<1>2. /\ o \in Owners /\ advertisements[i] # NoAd /\ owners[o].current # None
      /\ advertisements[i].epoch = owners[o].current
  BY Zenon, <1>1 DEF Hits
<1>3. i \in Identities /\ i[2] = o
  BY Zenon, <1>2 DEF Identities
<1> HIDE DEF i
<1>4. Registers(owners[o], transaction[o], epochs)
  BY Zenon, <1>1, <1>2, OwnerReads
<1>5. Held(owners[o]) = owners[o].current
  BY Zenon, <1>2, <1>4 DEF Registers, Held
<1>6. Fences(owners[o].current, fences[i], advertisements[i], retired[i], now)
  BY Zenon, <1>1, <1>3, <1>5 DEF DirectoryIInv
<1>7. fences[i].epoch = owners[o].current => fences[i].until[advertisements[i].generation] <= now
  BY Zenon, <1>2, <1>6 DEF Fences
<1>8. fences[i].until[advertisements[i].generation] \in Int /\ now \in Int
  <2>1. fences[i] \in Fence /\ advertisements[i].generation \in Generations /\ now \in Times
    BY Zenon, <1>1, <1>2, <1>3, Reads DEF DirectoryIInv
  <2> QED
    BY <2>1 DEF Fence, Times
<1>9. ~ (fences[i].epoch = owners[o].current /\ fences[i].until[advertisements[i].generation] > now)
  BY <1>7, <1>8
<1> QED
  BY Zenon, <1>2, <1>9 DEF i

\* query answers only with advertisements of the current registration of their
\* owner, and with no generation whose invalidation was acknowledged in that
\* registration and is still retained.
THEOREM DirectoryHits == DirectorySpec => []HitsAreCurrent
BY DirectoryInduction, IInvHits, PTL

\* The retirements under an authority that is held come from its own invalidations.
LEMMA IInvFresh == DirectoryIInv => FreshOwnerUnfenced
<1>1. SUFFICES ASSUME DirectoryIInv, NEW i \in Retired(Directory), owners[i[2]].current # None
               PROVE  fences[i].epoch = owners[i[2]].current /\ fences[i].top >= retired[i].generation
  BY Zenon DEF FreshOwnerUnfenced
<1>2. i \in Identities /\ retired[i] # NotRetired
  BY Zenon, <1>1, Reads DEF Retired
<1>3. Registers(owners[i[2]], transaction[i[2]], epochs)
  BY Zenon, <1>1, <1>2, Reads, OwnerReads
<1>4. Held(owners[i[2]]) = owners[i[2]].current
  BY Zenon, <1>1, <1>3 DEF Registers, Held
<1>5. Fences(owners[i[2]].current, fences[i], advertisements[i], retired[i], now)
  BY Zenon, <1>1, <1>2, <1>4 DEF DirectoryIInv
<1> QED
  BY Zenon, <1>1, <1>2, <1>5 DEF Fences

\* What an earlier registration of an instance retired does not fence the
\* publications of the one it holds: finalize_owner_registration cleared it.
THEOREM DirectoryFresh == DirectorySpec => []FreshOwnerUnfenced
BY DirectoryInduction, IInvFresh, PTL

\* Exact allowances, and room that makes remove_owner complete.
LEMMA IInvDirectory == DirectoryIInv => DirectoryInv
<1> SUFFICES ASSUME DirectoryIInv
             PROVE  DirectoryInv
  OBVIOUS
<1>1. DirOK(Directory) /\ Directory \in Directories /\ now \in Times
  BY Zenon, Reads DEF DirectoryIInv
<1>2. /\ Directory.ads = advertisements /\ Directory.retired = retired
      /\ Directory.absent = absent /\ Directory.expired = expired
  BY Zenon DEF Directory
<1>3. DirectoryTypeOK
  <2>1. /\ advertisements \in [Identities -> Advertisements] /\ retired \in [Identities -> Retirements]
        /\ absent \in [Owners -> 0 .. AbsentPerOwner] /\ expired \in [Keys -> 0 .. MaxTime + LeaseTtl]
    BY Zenon, <1>1, <1>2, DirectoryShape
  <2>2. ASSUME NEW o \in Owners
        PROVE  /\ owners[o].current \in 0 .. MaxEpoch /\ transaction[o].epoch \in 0 .. MaxEpoch
               /\ IsPending(owners[o]) => owners[o].current = None
    <3>1. Registers(owners[o], transaction[o], epochs)
      BY Zenon, OwnerReads
    <3> QED
      BY Zenon, <3>1 DEF Registers, Authorities, Transactions, Epochs
  <2> QED
    BY Zenon, <2>1, <2>2 DEF DirectoryTypeOK, DirectoryIInv, Epochs, Advertisements, Retirements
<1>4. AbsentCountExact
  BY Zenon, <1>1, <1>2 DEF DirOK, AbsentCountExact, Counted
<1>5. RemovalNeverBlocked
  <2>1. SUFFICES ASSUME NEW o \in Owners
                 PROVE  /\ Live(RetireAll(Directory, o)) \cap Of(o) = {}
                        /\ Cardinality(Retired(RetireAll(Directory, o))) <= IdentityGlobal
    BY Zenon DEF RemovalNeverBlocked
  <2> DEFINE d == Directory
             e == RetireAll(d, o)
             l == Cardinality(Live(e))
             r == Cardinality(Retired(e))
  <2>2. DirOK(d)
    BY Zenon, <1>1
  <2> HIDE DEF d
  <2>3. DirOK(RetireAll(d, o)) /\ \A i \in Identities : RetireAll(d, o).ads[i] = IF i[2] = o THEN NoAd ELSE d.ads[i]
    BY Zenon, <1>1, <2>2, RetireAllEffect
  <2> HIDE DEF e
  <2>4. Live(e) \cap Of(o) = {}
    BY Zenon, <2>3 DEF Live, Of, e
  <2>5. l + r <= IdentityGlobal /\ l \in Nat /\ r \in Nat
    BY Zenon, <2>3, IdentitySets, FS_CardinalityType DEF e, DirOK, Room
  <2> HIDE DEF l, r
  <2>6. r <= IdentityGlobal
    BY <2>5, Constants
  <2> QED
    BY Zenon, <2>4, <2>6 DEF d, e, r
<1> QED
  BY Zenon, <1>3, <1>4, <1>5 DEF DirectoryInv

\* The counters behind retire_absent are exact after any sequence of calls, and
\* remove_owner never leaves an advertisement behind for want of capacity.
THEOREM DirectorySafety == DirectorySpec => []DirectoryInv
BY DirectoryInduction, IInvDirectory, PTL

\* An advertisement leaves before it expires only when its generation is retired
\* until then, or when another registration of its owner is finalized: publish,
\* prune, stage, bind and a rollback lose none.
THEOREM DirectoryLosses == DirectorySpec => NoAdvertisementLost
<1> DEFINE A == \A i \in Identities : Lost(i) =>
                  \/ /\ retired'[i].generation >= advertisements[i].generation
                     /\ retired'[i].until >= advertisements[i].expires
                  \/ /\ IsPending(owners[i[2]]) /\ ~IsPending(owners'[i[2]])
                     /\ owners'[i[2]].current = owners[i[2]].pending.next
<1>1. DirectoryIInv /\ [DirectoryNext]_directoryVars => [A]_directoryVars
  BY Zenon, DirectoryStep DEF LossExplained
<1>2. NoAdvertisementLost <=> [][A]_directoryVars
  BY PTL DEF NoAdvertisementLost
<1> HIDE DEF A
<1> QED
  BY <1>1, <1>2, DirectoryInduction, PTL DEF DirectorySpec
==============================================================================
