----------------------------- MODULE StorageProofs ------------------------------
(***************************************************************************)
(* The safety properties of Storage, for any number of transfers, names    *)
(* and links.  What they rely on is that an item is either staged or in    *)
(* the folder, never both and never neither, that a link transfer          *)
(* remembers every name it wrote, and that whatever name was ever taken    *)
(* stays accounted for: to a job's item, to a link, or to the user.        *)
(***************************************************************************)
EXTENDS Storage, FiniteSetTheorems, TLAPS

Early == {"decode", "extract", "check", "err"}

\* How far a job is says where its items are.
JobInv(j) ==
  /\ pc[j] \in Pcs \ {"persist", "rollback"}
  /\ staged[j] \cap moved[j] = {}
  /\ pc[j] \in {"decode", "extract", "check"} => moved[j] = {}
  /\ pc[j] = "check" => staged[j] # {}
  /\ pc[j] \in {"pick", "rename"} => left[j] = staged[j] /\ staged[j] \cup moved[j] # {}
  /\ pc[j] = "rename" => item[j] \in left[j]
  /\ pc[j] \in {"sync", "ok"} => staged[j] = {} /\ moved[j] # {}
  /\ early[j] => cancel[j] /\ pc[j] \in Early /\ moved[j] = {}

\* Each item that was moved has a name of its own.
NamesInv(j) ==
  /\ IsFiniteSet(Owned(j)) /\ IsFiniteSet(moved[j])
  /\ Cardinality(Owned(j)) = Cardinality(moved[j])

LinkInv(l) ==
  /\ pc[l] \in {"persist", "rollback", "ok", "err"}
  /\ Owned(l) = (written[l] \ undone[l]) \cup kept[l]
  /\ kept[l] \subseteq undone[l] /\ undone[l] \subseteq written[l]
  /\ IsFiniteSet(written[l]) /\ Cardinality(written[l]) <= NLinks
  /\ pc[l] \in {"persist", "ok"} => undone[l] = {}
  /\ pc[l] = "persist" => Cardinality(written[l]) < NLinks
  /\ pc[l] = "ok" => Cardinality(written[l]) = NLinks
  /\ pc[l] = "err" => undone[l] = written[l]

JobsInv == \A j \in Jobs : JobInv(j)
AllNamesInv == \A j \in Jobs : NamesInv(j)
LinksInv == \A l \in Links : LinkInv(l)

StorageInv == TypeOK /\ JobsInv /\ AllNamesInv /\ LinksInv

USE StorageAssumption DEF linkVars
-----------------------------------------------------------------------------
LEMMA NumberType == MaxNumber \in Nat /\ MaxNumber >= 2
<1>1. Cardinality(Jobs) \in Nat /\ Cardinality(Names) \in Nat /\ Cardinality(Links) \in Nat
  BY FS_CardinalityType
<1> DEFINE a == Cardinality(Jobs) * Cardinality(Names)
           b == Cardinality(Links) * NLinks
<1>2. a \in Nat /\ b \in Nat
  BY <1>1
<1> HIDE DEF a, b
<1>3. MaxNumber = a + b + Cardinality(Names) + 2
  BY DEF MaxNumber, a, b
<1> QED
  BY <1>1, <1>2, <1>3

LEMMA CandidateIsName ==
  ASSUME NEW n \in Names, NEW k \in 1 .. MaxNumber
  PROVE  Candidate(n, k) \in AllNames
BY DEF AllNames

LEMMA LinkCandidateIsName ==
  ASSUME NEW i \in Nat, i < LinkTries
  PROVE  LinkCandidate(i) \in AllNames
<1>1. i \in 0 .. LinkTries - 1
  OBVIOUS
<1> QED
  BY <1>1 DEF AllNames

LEMMA NameIsName == Names \subseteq AllNames
<1>1. ASSUME NEW n \in Names PROVE n \in AllNames
  <2>1. 1 \in 1 .. MaxNumber
    BY NumberType
  <2>2. Candidate(n, 1) = n
    BY DEF Candidate
  <2> QED
    BY <2>1, <2>2, CandidateIsName
<1> QED
  BY <1>1

\* What a free name that is taken changes.
LEMMA Gains ==
  ASSUME TypeOK, NEW n \in AllNames, NEW x \in Jobs \cup Links \cup {User}, dest[n] = Nobody,
         dest' = [dest EXCEPT ![n] = x]
  PROVE  /\ dest' \in [AllNames -> Jobs \cup Links \cup {User, Nobody}]
         /\ n \notin Owned(x)
         /\ Owned(x)' = Owned(x) \cup {n}
         /\ \A y \in Jobs \cup Links : y # x => Owned(y)' = Owned(y)
BY DEF TypeOK, Owned

\* What one that is given up changes.
LEMMA Loses ==
  ASSUME TypeOK, NEW x \in Jobs \cup Links, NEW n \in Owned(x), dest' = [dest EXCEPT ![n] = Nobody]
  PROVE  /\ dest' \in [AllNames -> Jobs \cup Links \cup {User, Nobody}]
         /\ Owned(x)' = Owned(x) \ {n}
         /\ \A y \in Jobs \cup Links : y # x => Owned(y)' = Owned(y)
BY DEF TypeOK, Owned

LEMMA FirstItemIsName == ASSUME NEW j \in Jobs, TypeOK PROVE FirstItem \in Names
BY DEF TypeOK, FirstItem

LEMMA InitInv == Init => StorageInv
<1> SUFFICES ASSUME Init PROVE StorageInv
  OBVIOUS
<1>1. \A x \in Jobs \cup Links : Owned(x) = {}
  BY DEF Init, Owned
<1>2. TypeOK
  <2>1. dest \in [AllNames -> Jobs \cup Links \cup {User, Nobody}]
    BY DEF Init
  <2>2. FirstItem \in Names
    BY DEF FirstItem
  <2> QED
    BY <2>1, <2>2, NumberType DEF Init, TypeOK, Pcs
<1>3. JobsInv
  BY DEF Init, JobsInv, JobInv, Pcs
<1>4. AllNamesInv
  BY <1>1, FS_EmptySet DEF Init, AllNamesInv, NamesInv
<1>5. LinksInv
  BY <1>1, FS_EmptySet DEF Init, LinksInv, LinkInv
<1> QED
  BY <1>2, <1>3, <1>4, <1>5 DEF StorageInv
-----------------------------------------------------------------------------
(* Steps of a job.                                                         *)

\* What a job does is seen by no other one, unless it changes the folder.
Frame(j) ==
  /\ \A k \in Jobs \ {j} :
       /\ pc'[k] = pc[k] /\ staged'[k] = staged[k] /\ left'[k] = left[k] /\ item'[k] = item[k]
       /\ moved'[k] = moved[k] /\ cancel'[k] = cancel[k] /\ early'[k] = early[k]
  /\ \A l \in Links : pc'[l] = pc[l]
  /\ UNCHANGED linkVars

LEMMA OthersKeep ==
  ASSUME JobsInv, NEW j \in Jobs, Frame(j), JobInv(j)'
  PROVE  JobsInv'
<1> SUFFICES ASSUME NEW k \in Jobs, k # j PROVE JobInv(k)'
  BY DEF JobsInv
<1>1. JobInv(k)
  BY DEF JobsInv
<1> QED
  BY <1>1 DEF Frame, JobInv

LEMMA FolderKept ==
  ASSUME StorageInv, NEW j \in Jobs, Frame(j), UNCHANGED <<dest, moved>>, TypeOK', JobInv(j)'
  PROVE  StorageInv'
<1>1. JobsInv'
  BY OthersKeep DEF StorageInv
<1>2. \A x : Owned(x)' = Owned(x)
  BY DEF Owned
<1>3. AllNamesInv'
  BY <1>2 DEF StorageInv, AllNamesInv, NamesInv
<1>4. LinksInv'
  <2> SUFFICES ASSUME NEW l \in Links PROVE LinkInv(l)'
    BY DEF LinksInv
  <2>1. LinkInv(l)
    BY DEF StorageInv, LinksInv
  <2> QED
    BY <1>2, <2>1 DEF Frame, LinkInv
<1> QED
  BY <1>1, <1>3, <1>4 DEF StorageInv

LEMMA AbandonKeeps ==
  ASSUME StorageInv, NEW j \in Jobs, Abandon(j) PROVE StorageInv'
<1>0. JobInv(j) /\ TypeOK
  BY DEF StorageInv, JobsInv
<1>1. TypeOK'
  BY <1>0, FirstItemIsName, NumberType DEF TypeOK, Abandon, ItemIsOver, Goto, Pcs
<1>2. JobInv(j)'
  BY <1>0 DEF TypeOK, Abandon, ItemIsOver, Goto, Pcs, JobInv, Early
<1>3. Frame(j) /\ UNCHANGED <<dest, moved>>
  BY <1>0 DEF TypeOK, Abandon, ItemIsOver, Goto, Frame
<1> QED
  BY <1>1, <1>2, <1>3, FolderKept

LEMMA CancelKeeps ==
  ASSUME StorageInv, NEW j \in Jobs, Cancel(j) PROVE StorageInv'
<1>0. JobInv(j) /\ TypeOK
  BY DEF StorageInv, JobsInv
<1>1. TypeOK'
  BY <1>0 DEF TypeOK, Cancel
<1>2. JobInv(j)'
  BY <1>0 DEF TypeOK, Cancel, JobInv, Early
<1>3. Frame(j) /\ UNCHANGED <<dest, moved>>
  BY <1>0 DEF TypeOK, Cancel, Frame
<1> QED
  BY <1>1, <1>2, <1>3, FolderKept

\* Those that neither fail nor touch the folder.
LEMMA ExtractKeeps ==
  ASSUME StorageInv, NEW j \in Jobs, NEW n \in Names, ExtractEntry(j, n) PROVE StorageInv'
<1>0. JobInv(j) /\ TypeOK
  BY DEF StorageInv, JobsInv
<1>1. TypeOK'
  BY <1>0 DEF TypeOK, ExtractEntry
<1>2. JobInv(j)'
  BY <1>0 DEF TypeOK, ExtractEntry, JobInv
<1>3. Frame(j) /\ UNCHANGED <<dest, moved>>
  BY <1>0 DEF TypeOK, ExtractEntry, Frame
<1> QED
  BY <1>1, <1>2, <1>3, FolderKept

LEMMA LoopKeeps ==
  ASSUME StorageInv, NEW j \in Jobs, ~Abandon(j),
         Decode(j) \/ ExtractEnds(j) \/ CheckToken(j) \/ PickItem(j) \/ SyncFolder(j)
  PROVE  StorageInv'
<1>0. JobInv(j) /\ TypeOK
  BY DEF StorageInv, JobsInv
<1>1. TypeOK'
  <2>1. CASE Decode(j)
    BY <1>0, <2>1 DEF TypeOK, Decode, Goto, Pcs
  <2>2. CASE ExtractEnds(j)
    BY <1>0, <2>2 DEF TypeOK, ExtractEnds, Goto, Pcs
  <2>3. CASE CheckToken(j)
    BY <1>0, <2>3 DEF TypeOK, CheckToken, Goto, Pcs
  <2>4. CASE PickItem(j)
    <3>1. item' \in [Jobs -> Names]
      BY <1>0, <2>4 DEF TypeOK, PickItem
    <3>2. number' \in [Jobs \cup Links -> Nat] /\ \A k \in Jobs : number'[k] \in 1 .. MaxNumber
      BY <1>0, <2>4, NumberType DEF TypeOK, PickItem
    <3>3. \A l \in Links : number'[l] < LinkTries
      BY <1>0, <2>4 DEF TypeOK, PickItem
    <3>4. pc' \in [Jobs \cup Links -> Pcs]
      BY <1>0, <2>4 DEF TypeOK, PickItem, Goto, Pcs
    <3> QED
      BY <1>0, <2>4, <3>1, <3>2, <3>3, <3>4 DEF TypeOK, PickItem
  <2>5. CASE SyncFolder(j)
    BY <1>0, <2>5 DEF TypeOK, SyncFolder, Goto, Pcs, jobVars
  <2> QED
    BY <2>1, <2>2, <2>3, <2>4, <2>5
<1>2. JobInv(j)'
  <2>1. CASE Decode(j)
    BY <1>0, <2>1 DEF TypeOK, Decode, Goto, Pcs, JobInv, Early
  <2>2. CASE ExtractEnds(j)
    BY <1>0, <2>2 DEF TypeOK, ExtractEnds, Goto, Pcs, JobInv, Early
  <2>3. CASE CheckToken(j)
    BY <1>0, <2>3 DEF TypeOK, CheckToken, Goto, Pcs, JobInv, Early
  <2>4. CASE PickItem(j)
    BY <1>0, <2>4 DEF TypeOK, PickItem, Goto, Pcs, JobInv, Early
  <2>5. CASE SyncFolder(j)
    BY <1>0, <2>5 DEF TypeOK, SyncFolder, Goto, Pcs, JobInv, Early, jobVars
  <2> QED
    BY <2>1, <2>2, <2>3, <2>4, <2>5
<1>3. Frame(j) /\ UNCHANGED <<dest, moved>>
  <2>1. CASE PickItem(j)
    BY <1>0, <2>1 DEF TypeOK, PickItem, Goto, Frame
  <2>2. CASE ~PickItem(j)
    BY <1>0, <2>2 DEF TypeOK, Decode, ExtractEnds, CheckToken, SyncFolder, Goto, Frame, jobVars
  <2> QED
    BY <2>1, <2>2
<1> QED
  BY <1>1, <1>2, <1>3, FolderKept

LEMMA NameTakenKeeps ==
  ASSUME StorageInv, NEW j \in Jobs, NameTaken(j) PROVE StorageInv'
<1>0. JobInv(j) /\ TypeOK
  BY DEF StorageInv, JobsInv
<1>1. TypeOK'
  BY <1>0, NumberType DEF TypeOK, NameTaken, NextNumber
<1>2. JobInv(j)'
  BY <1>0 DEF TypeOK, NameTaken, JobInv
<1>3. Frame(j) /\ UNCHANGED <<dest, moved>>
  BY <1>0 DEF TypeOK, NameTaken, Frame
<1> QED
  BY <1>1, <1>2, <1>3, FolderKept

\* An item takes a name: one more of each.
LEMMA RenamedKeeps ==
  ASSUME StorageInv, NEW j \in Jobs, Renamed(j) PROVE StorageInv'
<1> DEFINE n == Candidate(item[j], number[j])
<1>0. JobInv(j) /\ TypeOK /\ NamesInv(j)
  BY DEF StorageInv, JobsInv, AllNamesInv
<1>1. n \in AllNames /\ item[j] \in Names /\ dest[n] = Nobody /\ dest' = [dest EXCEPT ![n] = j]
  <2>1. item[j] \in Names /\ number[j] \in 1 .. MaxNumber
    BY <1>0 DEF TypeOK
  <2> QED
    BY <2>1, CandidateIsName DEF Renamed, Free
<1> HIDE DEF n
<1>2. /\ dest' \in [AllNames -> Jobs \cup Links \cup {User, Nobody}]
      /\ n \notin Owned(j)
      /\ Owned(j)' = Owned(j) \cup {n}
      /\ \A y \in Jobs \cup Links : y # j => Owned(y)' = Owned(y)
  BY <1>0, <1>1, Gains
<1>3. TypeOK'
  BY <1>0, <1>1, <1>2, FirstItemIsName, NumberType DEF TypeOK, Renamed, ItemIsOver, Goto, Pcs
<1>4. JobInv(j)'
  BY <1>0, <1>1 DEF TypeOK, Renamed, ItemIsOver, Goto, Pcs, JobInv, Early
<1>5. Frame(j)
  BY <1>0 DEF TypeOK, Renamed, ItemIsOver, Goto, Frame
<1>6. JobsInv'
  BY <1>4, <1>5, OthersKeep DEF StorageInv
<1>7. NamesInv(j)'
  <2>1. item[j] \notin moved[j] /\ moved'[j] = moved[j] \cup {item[j]}
    BY <1>0 DEF TypeOK, Renamed, JobInv
  <2>2. /\ IsFiniteSet(Owned(j) \cup {n}) /\ IsFiniteSet(moved[j] \cup {item[j]})
        /\ Cardinality(Owned(j) \cup {n}) = Cardinality(Owned(j)) + 1
        /\ Cardinality(moved[j] \cup {item[j]}) = Cardinality(moved[j]) + 1
    BY <1>0, <1>2, <2>1, FS_AddElement DEF NamesInv
  <2> QED
    BY <1>0, <1>2, <2>1, <2>2 DEF NamesInv
<1>8. AllNamesInv'
  <2> SUFFICES ASSUME NEW k \in Jobs, k # j PROVE NamesInv(k)'
    BY <1>7 DEF AllNamesInv
  <2>1. NamesInv(k)
    BY DEF StorageInv, AllNamesInv
  <2> QED
    BY <1>2, <1>5, <2>1 DEF NamesInv, Frame
<1>9. LinksInv'
  <2> SUFFICES ASSUME NEW l \in Links PROVE LinkInv(l)'
    BY DEF LinksInv
  <2>1. LinkInv(l)
    BY DEF StorageInv, LinksInv
  <2> QED
    BY <1>2, <1>5, <2>1 DEF LinkInv, Frame
<1> QED
  BY <1>3, <1>6, <1>8, <1>9 DEF StorageInv

LEMMA JobStepKeeps ==
  ASSUME StorageInv, NEW j \in Jobs, JobStep(j) \/ Cancel(j) PROVE StorageInv'
<1>1. CASE Abandon(j)
  BY <1>1, AbandonKeeps
<1>2. CASE ~Abandon(j)
  <2>1. ~RenameFails(j)
    BY <1>2 DEF RenameFails
  <2> QED
    BY <1>2, <2>1, CancelKeeps, ExtractKeeps, LoopKeeps, NameTakenKeeps, RenamedKeeps DEF JobStep
<1> QED
  BY <1>1, <1>2
-----------------------------------------------------------------------------
(* Steps of a link transfer and of the user.                               *)

\* Jobs see nothing of them.
LEMMA JobsUnaffected ==
  ASSUME StorageInv, UNCHANGED <<staged, left, item, moved, cancel, early>>,
         \A k \in Jobs : pc'[k] = pc[k] /\ Owned(k)' = Owned(k)
  PROVE  JobsInv' /\ AllNamesInv'
<1>1. ASSUME NEW k \in Jobs PROVE JobInv(k)' /\ NamesInv(k)'
  <2>1. JobInv(k) /\ NamesInv(k)
    BY DEF StorageInv, JobsInv, AllNamesInv
  <2> QED
    BY <2>1 DEF JobInv, NamesInv
<1> QED
  BY <1>1 DEF JobsInv, AllNamesInv

LEMMA LinksKept ==
  ASSUME LinksInv, NEW l \in Links, LinkInv(l)',
         \A m \in Links \ {l} :
           /\ pc'[m] = pc[m] /\ Owned(m)' = Owned(m)
           /\ written'[m] = written[m] /\ undone'[m] = undone[m] /\ kept'[m] = kept[m]
  PROVE  LinksInv'
<1> SUFFICES ASSUME NEW m \in Links, m # l PROVE LinkInv(m)'
  BY DEF LinksInv
<1>1. LinkInv(m)
  BY DEF LinksInv
<1> QED
  BY <1>1 DEF LinkInv

\* A link is stored under a free name.
LEMMA StoredLinkKeeps ==
  ASSUME StorageInv, NEW l \in Links, Persist(l), Free(LinkCandidate(number[l]))
  PROVE  StorageInv'
<1> DEFINE n == LinkCandidate(number[l])
<1>0. LinkInv(l) /\ TypeOK
  BY DEF StorageInv, LinksInv
<1>1. n \in AllNames /\ dest[n] = Nobody /\ dest' = [dest EXCEPT ![n] = l]
  <2>1. number[l] \in Nat /\ number[l] < LinkTries
    BY <1>0 DEF TypeOK
  <2> QED
    BY <2>1, LinkCandidateIsName DEF Persist, Free
<1>2. /\ written' = [written EXCEPT ![l] = @ \cup {n}]
      /\ number' = [number EXCEPT ![l] = 0]
      /\ pc' = [pc EXCEPT ![l] = IF Cardinality(written[l]) + 1 = NLinks THEN "ok" ELSE "persist"]
      /\ pc[l] = "persist"
      /\ UNCHANGED <<staged, left, item, moved, cancel, early, undone, kept>>
  BY DEF Persist, Goto
<1> HIDE DEF n
<1>3. /\ dest' \in [AllNames -> Jobs \cup Links \cup {User, Nobody}]
      /\ n \notin Owned(l)
      /\ Owned(l)' = Owned(l) \cup {n}
      /\ \A y \in Jobs \cup Links : y # l => Owned(y)' = Owned(y)
  BY <1>0, <1>1, Gains
<1>4. TypeOK'
  <2>1. /\ written' \in [Links -> SUBSET AllNames]
        /\ pc' \in [Jobs \cup Links -> Pcs]
    BY <1>0, <1>1, <1>2 DEF TypeOK, Pcs
  <2>2. /\ number' \in [Jobs \cup Links -> Nat]
        /\ \A k \in Jobs : number'[k] = number[k]
        /\ \A m \in Links : number'[m] < LinkTries
    BY <1>0, <1>2 DEF TypeOK
  <2> QED
    BY <1>0, <1>2, <1>3, <2>1, <2>2 DEF TypeOK
<1>5. LinkInv(l)'
  <2>1. written'[l] = written[l] \cup {n} /\ n \notin written[l] /\ written'[l] = Owned(l)'
    BY <1>0, <1>1, <1>2, <1>3 DEF TypeOK, LinkInv
  <2>2. IsFiniteSet(written[l]) /\ Cardinality(written[l]) < NLinks
    BY <1>0, <1>2 DEF LinkInv
  <2>3. IsFiniteSet(written'[l]) /\ Cardinality(written'[l]) = Cardinality(written[l]) + 1
    <3>1. \A x : /\ IsFiniteSet(written[l] \cup {x})
                 /\ x \notin written[l]
                      => Cardinality(written[l] \cup {x}) = Cardinality(written[l]) + 1
      BY <2>2, FS_AddElement
    <3> QED
      BY <2>1, <3>1
  <2>4. Cardinality(written[l]) \in Nat
    BY <2>2, FS_CardinalityType
  <2>5. pc'[l] = IF Cardinality(written[l]) + 1 = NLinks THEN "ok" ELSE "persist"
    BY <1>0, <1>2 DEF TypeOK
  <2> QED
    BY <1>0, <1>2, <2>1, <2>2, <2>3, <2>4, <2>5 DEF LinkInv
<1>6. LinksInv'
  <2>1. \A m \in Links \ {l} :
          /\ pc'[m] = pc[m] /\ Owned(m)' = Owned(m)
          /\ written'[m] = written[m] /\ undone'[m] = undone[m] /\ kept'[m] = kept[m]
    BY <1>0, <1>2, <1>3 DEF TypeOK
  <2> QED
    BY <1>5, <2>1, LinksKept DEF StorageInv
<1>7. JobsInv' /\ AllNamesInv'
  <2>1. \A k \in Jobs : pc'[k] = pc[k] /\ Owned(k)' = Owned(k)
    BY <1>0, <1>2, <1>3 DEF TypeOK
  <2> QED
    BY <1>2, <2>1, JobsUnaffected
<1> QED
  BY <1>4, <1>6, <1>7 DEF StorageInv

\* Steps that leave the folder and what was written alone.
LEMMA QuietLinkKeeps ==
  ASSUME StorageInv, NEW l \in Links, TypeOK', UNCHANGED <<dest, linkVars>>,
         UNCHANGED <<staged, left, item, moved, cancel, early>>,
         \A x \in (Jobs \cup Links) \ {l} : pc'[x] = pc[x],
         \/ pc'[l] = pc[l]
         \/ pc'[l] = "rollback"
         \/ pc'[l] = "err" /\ undone[l] = written[l]
  PROVE  StorageInv'
<1>1. \A x : Owned(x)' = Owned(x)
  BY DEF Owned
<1>2. JobsInv' /\ AllNamesInv'
  BY <1>1, JobsUnaffected
<1>3. LinkInv(l)
  BY DEF StorageInv, LinksInv
<1>4. LinkInv(l)'
  BY <1>1, <1>3 DEF LinkInv
<1>5. LinksInv'
  BY <1>1, <1>4, LinksKept DEF StorageInv
<1> QED
  BY <1>2, <1>5 DEF StorageInv

\* The rollback is at one of the paths: a link that is taken back is the
\* transfer's own, and one that is not stays.
LEMMA UndoneKeeps ==
  ASSUME StorageInv, NEW l \in Links, pc[l] = "rollback", NEW n \in written[l] \ undone[l],
         Removed(l, n) \/ NotRemoved(l, n), UNCHANGED <<pc, jobVars, written>>
  PROVE  StorageInv'
<1>0. LinkInv(l) /\ TypeOK
  BY DEF StorageInv, LinksInv
<1>1. n \in Owned(l) /\ n \in AllNames
  BY <1>0 DEF TypeOK, LinkInv
<1>2. /\ dest' \in [AllNames -> Jobs \cup Links \cup {User, Nobody}]
      /\ \A y \in Jobs \cup Links : y # l => Owned(y)' = Owned(y)
      /\ Removed(l, n) => Owned(l)' = Owned(l) \ {n}
      /\ NotRemoved(l, n) => Owned(l)' = Owned(l)
  <2>1. CASE Removed(l, n)
    <3>1. dest' = [dest EXCEPT ![n] = Nobody]
      BY <2>1 DEF Removed
    <3>2. /\ dest' \in [AllNames -> Jobs \cup Links \cup {User, Nobody}]
          /\ Owned(l)' = Owned(l) \ {n}
          /\ \A y \in Jobs \cup Links : y # l => Owned(y)' = Owned(y)
      BY <1>0, <1>1, <3>1, Loses
    <3>3. NotRemoved(l, n) => dest' = dest
      BY DEF NotRemoved
    <3> QED
      BY <3>2, <3>3 DEF Owned
  <2>2. CASE ~Removed(l, n)
    BY <1>0, <2>2 DEF NotRemoved, Owned, TypeOK
  <2> QED
    BY <2>1, <2>2
<1>3. /\ undone' = [undone EXCEPT ![l] = @ \cup {n}]
      /\ \/ Removed(l, n) /\ kept' = kept
         \/ NotRemoved(l, n) /\ kept' = [kept EXCEPT ![l] = @ \cup {n}]
  BY DEF Removed, NotRemoved
<1>4. TypeOK'
  BY <1>0, <1>1, <1>2, <1>3 DEF TypeOK, jobVars
<1>5. LinkInv(l)'
  <2>1. undone'[l] = undone[l] \cup {n} /\ written' = written /\ pc'[l] = "rollback"
    BY <1>0, <1>3 DEF TypeOK
  <2>2. kept'[l] \subseteq undone'[l] /\ undone'[l] \subseteq written[l]
    BY <1>0, <1>3, <2>1 DEF TypeOK, LinkInv
  <2>3. Owned(l)' = (written[l] \ undone'[l]) \cup kept'[l]
    <3>1. CASE Removed(l, n) /\ kept' = kept
      BY <1>0, <1>2, <2>1, <3>1 DEF LinkInv
    <3>2. CASE NotRemoved(l, n) /\ kept' = [kept EXCEPT ![l] = @ \cup {n}]
      <4>1. kept'[l] = kept[l] \cup {n}
        BY <1>0, <3>2 DEF TypeOK
      <4> QED
        BY <1>0, <1>2, <2>1, <3>2, <4>1 DEF LinkInv
    <3> QED
      BY <1>3, <3>1, <3>2
  <2> QED
    BY <1>0, <2>1, <2>2, <2>3 DEF LinkInv
<1>6. LinksInv'
  <2>1. \A m \in Links \ {l} :
          /\ pc'[m] = pc[m] /\ Owned(m)' = Owned(m)
          /\ written'[m] = written[m] /\ undone'[m] = undone[m] /\ kept'[m] = kept[m]
    BY <1>0, <1>2, <1>3 DEF TypeOK
  <2> QED
    BY <1>5, <2>1, LinksKept DEF StorageInv
<1>7. JobsInv' /\ AllNamesInv'
  BY <1>2, JobsUnaffected DEF jobVars
<1> QED
  BY <1>4, <1>6, <1>7 DEF StorageInv

LEMMA LinkStepKeeps ==
  ASSUME StorageInv, NEW l \in Links, LinkStep(l) PROVE StorageInv'
<1>0. LinkInv(l) /\ TypeOK
  BY DEF StorageInv, LinksInv
<1>1. CASE Persist(l) /\ Free(LinkCandidate(number[l]))
  BY <1>1, StoredLinkKeeps
<1>2. CASE Persist(l) /\ ~Free(LinkCandidate(number[l]))
  <2>1. TypeOK'
    BY <1>0, <1>2 DEF TypeOK, Persist, Goto, Pcs
  <2>2. /\ UNCHANGED <<dest, linkVars, staged, left, item, moved, cancel, early>>
        /\ pc' = pc \/ pc' = [pc EXCEPT ![l] = "rollback"]
    BY <1>2 DEF Persist, Goto
  <2>3. /\ \A x \in (Jobs \cup Links) \ {l} : pc'[x] = pc[x]
        /\ pc'[l] = pc[l] \/ pc'[l] = "rollback"
    BY <1>0, <2>2 DEF TypeOK
  <2> QED
    BY <2>1, <2>2, <2>3, QuietLinkKeeps
<1>3. CASE PersistFails(l)
  <2>1. TypeOK'
    BY <1>0, <1>3 DEF TypeOK, PersistFails, Goto, Pcs, jobVars
  <2>2. /\ UNCHANGED <<dest, linkVars, staged, left, item, moved, cancel, early>>
        /\ pc' = [pc EXCEPT ![l] = "rollback"]
    BY <1>3 DEF PersistFails, Goto, jobVars
  <2>3. /\ \A x \in (Jobs \cup Links) \ {l} : pc'[x] = pc[x]
        /\ pc'[l] = "rollback"
    BY <1>0, <2>2 DEF TypeOK
  <2> QED
    BY <2>1, <2>2, <2>3, QuietLinkKeeps
<1>4. CASE Rollback(l) /\ ~RolledBack(l)
  <2>1. PICK n \in written[l] \ undone[l] : Removed(l, n) \/ NotRemoved(l, n)
    BY <1>4 DEF Rollback
  <2>2. pc[l] = "rollback" /\ UNCHANGED <<pc, jobVars, written>>
    BY <1>4 DEF Rollback
  <2> QED
    BY <2>1, <2>2, UndoneKeeps
<1>5. CASE Rollback(l) /\ RolledBack(l)
  <2>1. TypeOK'
    BY <1>0, <1>5 DEF TypeOK, Rollback, RolledBack, Goto, Pcs, jobVars
  <2>2. /\ UNCHANGED <<dest, linkVars, staged, left, item, moved, cancel, early>>
        /\ pc' = [pc EXCEPT ![l] = "err"] /\ undone[l] = written[l]
    BY <1>5 DEF Rollback, RolledBack, Goto, jobVars
  <2>3. /\ \A x \in (Jobs \cup Links) \ {l} : pc'[x] = pc[x]
        /\ pc'[l] = "err"
    BY <1>0, <2>2 DEF TypeOK
  <2> QED
    BY <2>1, <2>2, <2>3, QuietLinkKeeps
<1> QED
  BY <1>1, <1>2, <1>3, <1>4, <1>5 DEF LinkStep

LEMMA UserKeeps ==
  ASSUME StorageInv, NEW n \in Names, UserSaves(n) PROVE StorageInv'
<1>0. TypeOK
  BY DEF StorageInv
<1>1. n \in AllNames /\ dest[n] = Nobody /\ dest' = [dest EXCEPT ![n] = User]
  BY NameIsName DEF UserSaves
<1>2. /\ dest' \in [AllNames -> Jobs \cup Links \cup {User, Nobody}]
      /\ \A y \in Jobs \cup Links : Owned(y)' = Owned(y)
  <2>1. User \in Jobs \cup Links \cup {User} /\ \A y \in Jobs \cup Links : y # User
    OBVIOUS
  <2> QED
    BY <1>0, <1>1, <2>1, Gains
<1>3. TypeOK'
  BY <1>0, <1>2 DEF TypeOK, UserSaves, jobVars
<1>4. JobsInv' /\ AllNamesInv'
  BY <1>2, JobsUnaffected DEF UserSaves, jobVars
<1>5. LinksInv'
  <2> SUFFICES ASSUME NEW l \in Links PROVE LinkInv(l)'
    BY DEF LinksInv
  <2>1. LinkInv(l)
    BY DEF StorageInv, LinksInv
  <2> QED
    BY <1>2, <2>1 DEF LinkInv, UserSaves
<1> QED
  BY <1>3, <1>4, <1>5 DEF StorageInv

LEMMA StepInv == StorageInv /\ [Next]_vars => StorageInv'
<1> SUFFICES ASSUME StorageInv, [Next]_vars PROVE StorageInv'
  OBVIOUS
<1>1. CASE UNCHANGED vars
  <2>1. UNCHANGED <<dest, pc, staged, left, item, number, moved, cancel, early, written, undone, kept>>
    BY <1>1 DEF vars, jobVars
  <2>2. TypeOK'
    BY <2>1 DEF StorageInv, TypeOK
  <2>3. JobsInv' /\ AllNamesInv'
    BY <2>1, JobsUnaffected DEF Owned
  <2>4. LinksInv'
    BY <2>1 DEF StorageInv, LinksInv, LinkInv, Owned
  <2> QED
    BY <2>2, <2>3, <2>4 DEF StorageInv
<1>2. CASE Next
  BY <1>2, JobStepKeeps, LinkStepKeeps, UserKeeps DEF Next
<1> QED
  BY <1>1, <1>2

LEMMA Invariance == Spec => []StorageInv
BY InitInv, StepInv, PTL DEF Spec
-----------------------------------------------------------------------------
\* When a job has published, each of its items is in the folder under a name
\* of its own, however many jobs, users and links compete for the names.
THEOREM EveryItemPublished == Spec => []NoItemLost
<1>1. StorageInv => NoItemLost
  <2> SUFFICES ASSUME StorageInv PROVE NoItemLost
    OBVIOUS
  <2>1. ASSUME NEW j \in Jobs, pc[j] \in {"sync", "ok"}
        PROVE  staged[j] = {} /\ moved[j] # {} /\ Cardinality(Owned(j)) = Cardinality(moved[j])
    <3>1. JobInv(j) /\ NamesInv(j)
      BY DEF StorageInv, JobsInv, AllNamesInv
    <3> QED
      BY <2>1, <3>1 DEF JobInv, NamesInv
  <2> QED
    BY <2>1 DEF NoItemLost, StorageInv
<1> QED
  BY <1>1, Invariance, PTL

\* A transfer cancelled before its last look at the token leaves nothing in
\* the folder, and one of links that fails at any of them leaves just those it
\* had written and whose removal failed: the rollback passes over a failed
\* removal and goes on to the others.
THEOREM FailuresLeaveNothing == Spec => []FailureLeavesNothing
<1>1. StorageInv => FailureLeavesNothing
  <2> SUFFICES ASSUME StorageInv PROVE FailureLeavesNothing
    OBVIOUS
  <2>1. ASSUME NEW j \in Jobs, early[j] PROVE Owned(j) = {}
    <3>1. JobInv(j) /\ NamesInv(j)
      BY DEF StorageInv, JobsInv, AllNamesInv
    <3>2. moved[j] = {}
      BY <2>1, <3>1 DEF JobInv
    <3> QED
      BY <3>1, <3>2, FS_EmptySet DEF NamesInv
  <2>2. ASSUME NEW l \in Links
        PROVE  /\ pc[l] = "ok" => Cardinality(Owned(l)) = NLinks
               /\ pc[l] = "err" => Owned(l) = kept[l]
    <3>1. LinkInv(l)
      BY DEF StorageInv, LinksInv
    <3>2. pc[l] = "ok" => kept[l] = {} /\ Owned(l) = written[l]
      BY <3>1 DEF LinkInv
    <3>3. pc[l] = "err" => Owned(l) = kept[l]
      BY <3>1 DEF LinkInv
    <3> QED
      BY <3>1, <3>2, <3>3 DEF LinkInv
  <2> QED
    BY <2>1, <2>2 DEF FailureLeavesNothing
<1> QED
  BY <1>1, Invariance, PTL

\* No step of anybody replaces or removes a file, but a rollback its own.
THEOREM NothingIsReplaced == Spec => NothingReplaced
<1>1. StorageInv /\ [Next]_vars => [KeepsFiles]_vars
  <2> SUFFICES ASSUME StorageInv, Next PROVE KeepsFiles
    OBVIOUS
  <2> USE DEF KeepsFiles
  <2>0. TypeOK
    BY DEF StorageInv
  <2>1. ASSUME NEW j \in Jobs, JobStep(j) \/ Cancel(j) PROVE KeepsFiles
    <3>1. CASE Renamed(j)
      BY <2>0, <3>1 DEF TypeOK, Renamed, Free
    <3>2. CASE ~Renamed(j)
      <4>1. dest' = dest
        BY <2>1, <3>2 DEF JobStep, Cancel, Decode, ExtractEntry, ExtractEnds, CheckToken, PickItem,
                          NameTaken, RenameFails, SyncFolder, Abandon
      <4> QED
        BY <4>1
    <3> QED
      BY <3>1, <3>2
  <2>2. ASSUME NEW l \in Links, LinkStep(l) PROVE KeepsFiles
    <3>1. CASE Persist(l)
      BY <2>0, <3>1 DEF TypeOK, Persist, Free
    <3>2. CASE PersistFails(l)
      BY <3>2 DEF PersistFails
    <3>3. CASE Rollback(l)
      <4>1. LinkInv(l)
        BY DEF StorageInv, LinksInv
      <4>2. CASE dest' = dest
        BY <4>2
      <4>3. ASSUME NEW n \in written[l] \ undone[l], dest' = [dest EXCEPT ![n] = Nobody]
            PROVE  KeepsFiles
        <5>1. n \in Owned(l)
          BY <4>1, <4>3 DEF LinkInv
        <5>2. pc[l] = "rollback"
          BY <3>3 DEF Rollback
        <5> QED
          BY <2>0, <4>3, <5>1, <5>2 DEF TypeOK, Owned
      <4> QED
        BY <3>3, <4>2, <4>3 DEF Rollback, Removed, NotRemoved, RolledBack
    <3> QED
      BY <2>2, <3>1, <3>2, <3>3 DEF LinkStep
  <2>3. ASSUME NEW n \in Names, UserSaves(n) PROVE KeepsFiles
    BY <2>0, <2>3 DEF TypeOK, UserSaves
  <2> QED
    BY <2>1, <2>2, <2>3 DEF Next
<1> QED
  BY <1>1, Invariance, PTL DEF Spec, NothingReplaced
-----------------------------------------------------------------------------
(* How far the numbers go.                                                 *)

\* The names that have been taken at some time.  Those of links that were
\* rolled back are free again.
EverTaken == {n \in AllNames : dest[n] # Nobody} \cup UNION {written[l] : l \in Links}

\* A job skips a number because the name was taken.
TriedInv ==
  \A j \in Jobs : pc[j] = "rename" =>
    \A k \in 1 .. number[j] - 1 : Candidate(item[j], k) \in EverTaken

NumberInv == Owned(User) \subseteq Names /\ TriedInv

LEMMA NumberInitially == Init => NumberInv
<1> SUFFICES ASSUME Init PROVE NumberInv
  OBVIOUS
<1>1. Owned(User) \subseteq Names
  BY DEF Init, Owned
<1>2. TriedInv
  BY DEF Init, TriedInv
<1> QED
  BY <1>1, <1>2 DEF NumberInv

\* Nothing taken is ever forgotten, and the user takes only names of items.
LEMMA TakenGrows ==
  ASSUME StorageInv, NumberInv, Next
  PROVE  EverTaken \subseteq EverTaken' /\ Owned(User)' \subseteq Names
<1>0. TypeOK /\ Owned(User) \subseteq Names
  BY DEF StorageInv, NumberInv
<1>1. CASE UNCHANGED <<dest, written>>
  BY <1>0, <1>1 DEF EverTaken, Owned
<1>2. ASSUME NEW j \in Jobs, Renamed(j)
      PROVE  EverTaken \subseteq EverTaken' /\ Owned(User)' \subseteq Names
  <2>1. PICK n \in AllNames : dest' = [dest EXCEPT ![n] = j]
    BY <1>0, <1>2, CandidateIsName DEF TypeOK, Renamed
  <2> QED
    BY <1>0, <1>2, <2>1 DEF TypeOK, Renamed, EverTaken, Owned
<1>3. ASSUME NEW l \in Links, LinkStep(l), ~UNCHANGED <<dest, written>>
      PROVE  EverTaken \subseteq EverTaken' /\ Owned(User)' \subseteq Names
  <2>1. CASE Persist(l)
    <3> DEFINE n == LinkCandidate(number[l])
    <3>1. /\ dest' = [dest EXCEPT ![n] = l]
          /\ written' = [written EXCEPT ![l] = @ \cup {n}]
      BY <1>3, <2>1 DEF Persist
    <3> HIDE DEF n
    <3>2. \A m \in Links : written[m] \subseteq written'[m]
      BY <1>0, <3>1 DEF TypeOK
    <3>3. \A m \in AllNames : dest[m] # Nobody => dest'[m] # Nobody
      BY <1>0, <3>1 DEF TypeOK
    <3>4. Owned(User)' \subseteq Owned(User)
      BY <1>0, <3>1 DEF TypeOK, Owned
    <3> QED
      BY <1>0, <3>2, <3>3, <3>4 DEF EverTaken
  <2>2. CASE Rollback(l)
    <3>1. PICK n \in written[l] : dest' = [dest EXCEPT ![n] = Nobody]
      BY <1>3, <2>2 DEF Rollback, Removed, NotRemoved, RolledBack
    <3>2. written' = written
      BY <2>2 DEF Rollback
    <3> QED
      BY <1>0, <3>1, <3>2 DEF TypeOK, EverTaken, Owned
  <2> QED
    BY <1>3, <2>1, <2>2 DEF LinkStep, PersistFails
<1>4. ASSUME NEW n \in Names, UserSaves(n)
      PROVE  EverTaken \subseteq EverTaken' /\ Owned(User)' \subseteq Names
  BY <1>0, <1>4, NameIsName DEF TypeOK, UserSaves, EverTaken, Owned
<1>5. ASSUME NEW j \in Jobs, JobStep(j) \/ Cancel(j), ~Renamed(j) PROVE UNCHANGED <<dest, written>>
  BY <1>5 DEF JobStep, Cancel, Decode, ExtractEntry, ExtractEnds, CheckToken, PickItem,
              NameTaken, RenameFails, SyncFolder, Abandon
<1> QED
  BY <1>1, <1>2, <1>3, <1>4, <1>5 DEF Next

LEMMA TriedKept ==
  ASSUME StorageInv, NumberInv, Next PROVE TriedInv'
<1>0. TypeOK /\ TriedInv /\ EverTaken \subseteq EverTaken'
  BY TakenGrows DEF StorageInv, NumberInv
<1> SUFFICES ASSUME NEW j \in Jobs, pc'[j] = "rename", NEW k \in 1 .. number'[j] - 1
             PROVE  Candidate(item'[j], k) \in EverTaken'
  BY DEF TriedInv
<1>1. CASE UNCHANGED <<pc[j], item[j], number[j]>>
  BY <1>0, <1>1 DEF TriedInv
<1>2. CASE PickItem(j)
  <2>1. number'[j] = 1
    BY <1>0, <1>2 DEF TypeOK, PickItem, Goto
  <2> QED
    BY <2>1
<1>3. CASE NameTaken(j)
  <2>1. pc[j] = "rename" /\ item'[j] = item[j] /\ number'[j] = number[j] + 1 /\ number[j] \in 1 .. MaxNumber
    BY <1>0, <1>3 DEF TypeOK, NameTaken, NextNumber
  <2>2. k \in 1 .. number[j] - 1 \/ k = number[j]
    BY <2>1, NumberType
  <2>3. CASE k = number[j]
    <3>1. Candidate(item[j], k) \in AllNames
      BY <1>0, <2>1, <2>3, CandidateIsName DEF TypeOK
    <3>2. Candidate(item[j], k) \in EverTaken
      BY <1>3, <2>3, <3>1 DEF NameTaken, Free, EverTaken
    <3> QED
      BY <1>0, <2>1, <3>2
  <2> QED
    BY <1>0, <2>1, <2>2, <2>3 DEF TriedInv
<1>4. ASSUME JobStep(j) \/ Cancel(j), ~PickItem(j), ~NameTaken(j)
      PROVE  UNCHANGED <<pc[j], item[j], number[j]>>
  <2>1. CASE Decode(j) \/ ExtractEnds(j) \/ SyncFolder(j) \/ RenameFails(j) \/ Renamed(j)
    BY <1>0, <2>1 DEF TypeOK, Decode, ExtractEnds, SyncFolder, RenameFails, Renamed, Abandon, Goto, jobVars
  <2>2. CASE CheckToken(j) \/ Cancel(j) \/ \E n \in Names : ExtractEntry(j, n)
    BY <1>0, <2>2 DEF TypeOK, CheckToken, Cancel, ExtractEntry, Abandon, Goto
  <2> QED
    BY <1>4, <2>1, <2>2 DEF JobStep
<1>5. ASSUME NEW i \in Jobs, i # j, JobStep(i) \/ Cancel(i)
      PROVE  UNCHANGED <<pc[j], item[j], number[j]>>
  <2>1. CASE PickItem(i)
    BY <1>0, <1>5, <2>1 DEF TypeOK, PickItem, Goto
  <2>2. CASE NameTaken(i)
    BY <1>0, <1>5, <2>2 DEF TypeOK, NameTaken
  <2>3. CASE ~PickItem(i) /\ ~NameTaken(i)
    BY <1>0, <1>5, <2>3 DEF TypeOK, JobStep, Cancel, Decode, ExtractEntry, ExtractEnds, CheckToken,
                            Renamed, RenameFails, SyncFolder, Abandon, ItemIsOver, Goto, jobVars
  <2> QED
    BY <2>1, <2>2, <2>3
<1>6. ASSUME NEW l \in Links, LinkStep(l) PROVE UNCHANGED <<pc[j], item[j], number[j]>>
  <2>1. l # j
    OBVIOUS
  <2>2. CASE Persist(l)
    BY <1>0, <2>1, <2>2 DEF TypeOK, Persist, Goto
  <2>3. CASE PersistFails(l) \/ Rollback(l)
    BY <1>0, <2>1, <2>3 DEF TypeOK, PersistFails, Rollback, RolledBack, Goto, jobVars
  <2> QED
    BY <1>6, <2>2, <2>3 DEF LinkStep
<1>7. ASSUME NEW n \in Names, UserSaves(n) PROVE UNCHANGED <<pc[j], item[j], number[j]>>
  BY <1>7 DEF UserSaves, jobVars
<1> QED
  BY <1>1, <1>2, <1>3, <1>4, <1>5, <1>6, <1>7 DEF Next

LEMMA NumberStep == StorageInv /\ NumberInv /\ [Next]_vars => NumberInv'
<1>1. ASSUME StorageInv, NumberInv, Next PROVE NumberInv'
  BY <1>1, TakenGrows, TriedKept DEF NumberInv
<1>2. ASSUME NumberInv, UNCHANGED vars PROVE NumberInv'
  BY <1>2 DEF vars, jobVars, NumberInv, TriedInv, EverTaken, Owned
<1> QED
  BY <1>1, <1>2

LEMMA NumberInvariance == Spec => []NumberInv
BY Invariance, NumberInitially, NumberStep, PTL DEF Spec
-----------------------------------------------------------------------------
(* How many names can be taken: a count.                                   *)

LEMMA SmallerInjects ==
  ASSUME NEW S, NEW T, IsFiniteSet(S), IsFiniteSet(T), Cardinality(S) <= Cardinality(T)
  PROVE  ExistsInjection(S, T)
<1> DEFINE s == Cardinality(S)
           t == Cardinality(T)
<1>1. s \in Nat /\ t \in Nat
  BY FS_CardinalityType
<1>2. IsFiniteSet(1 .. s) /\ Cardinality(1 .. s) = s
  BY <1>1, FS_Interval
<1>3. ExistsBijection(S, 1 .. s)
  BY <1>2, FS_SameCardinalityBij
<1>4. ExistsBijection(1 .. t, T)
  BY FS_CardinalityType
<1>5. PICK a \in [S -> 1 .. s] : \A x, y \in S : a[x] = a[y] => x = y
  BY <1>3 DEF ExistsBijection, Bijection, Injection, IsInjective
<1>6. PICK b \in [1 .. t -> T] : \A x, y \in 1 .. t : b[x] = b[y] => x = y
  BY <1>4 DEF ExistsBijection, Bijection, Injection, IsInjective
<1>7. \A x \in S : a[x] \in 1 .. t
  BY <1>1, <1>5
<1>8. [x \in S |-> b[a[x]]] \in Injection(S, T)
  BY <1>5, <1>6, <1>7 DEF Injection, IsInjective
<1> QED
  BY <1>8 DEF ExistsInjection

\* A family of sets none of which is larger than C.
LEMMA UnionBound ==
  ASSUME NEW I, IsFiniteSet(I), NEW C, IsFiniteSet(C), NEW f,
         \A i \in I : IsFiniteSet(f[i]) /\ Cardinality(f[i]) <= Cardinality(C)
  PROVE  /\ IsFiniteSet(UNION {f[i] : i \in I})
         /\ Cardinality(UNION {f[i] : i \in I}) <= Cardinality(I) * Cardinality(C)
<1> DEFINE U == UNION {f[i] : i \in I}
           inj == [i \in I |-> CHOOSE g : g \in Injection(f[i], C)]
           at == [x \in U |-> CHOOSE i \in I : x \in f[i]]
           code == [x \in U |-> <<at[x], inj[at[x]][x]>>]
<1>1. ASSUME NEW i \in I PROVE inj[i] \in Injection(f[i], C)
  <2>1. \E g : g \in Injection(f[i], C)
    BY SmallerInjects DEF ExistsInjection
  <2> QED
    BY <2>1
<1>2. ASSUME NEW x \in U PROVE at[x] \in I /\ x \in f[at[x]]
  <2>1. \E i \in I : x \in f[i]
    OBVIOUS
  <2> QED
    BY <2>1
<1> HIDE DEF inj, at
<1>3. ASSUME NEW x \in U PROVE code[x] \in I \X C
  BY <1>1, <1>2 DEF Injection, IsInjective
<1>4. ASSUME NEW x \in U, NEW y \in U, code[x] = code[y] PROVE x = y
  <2>1. at[x] = at[y] /\ inj[at[x]][x] = inj[at[x]][y]
    BY <1>4
  <2> QED
    BY <1>1, <1>2, <2>1 DEF Injection, IsInjective
<1>5. code \in Injection(U, I \X C)
  BY <1>3, <1>4 DEF Injection, IsInjective
<1>6. IsFiniteSet(I \X C) /\ Cardinality(I \X C) = Cardinality(I) * Cardinality(C)
  BY FS_Product
<1> HIDE DEF U, code
<1>7. IsFiniteSet(U) /\ Cardinality(U) <= Cardinality(I \X C)
  BY <1>5, <1>6, FS_Injection
<1> QED
  BY <1>6, <1>7 DEF U

LEMMA TakenBound ==
  ASSUME StorageInv, NumberInv
  PROVE  IsFiniteSet(EverTaken) /\ Cardinality(EverTaken) <= MaxNumber - 2
<1> DEFINE byJob == [j \in Jobs |-> Owned(j)]
           A == UNION {byJob[j] : j \in Jobs}
           B == UNION {written[l] : l \in Links}
<1>1. ASSUME NEW j \in Jobs PROVE IsFiniteSet(byJob[j]) /\ Cardinality(byJob[j]) <= Cardinality(Names)
  <2>1. NamesInv(j) /\ moved[j] \in SUBSET Names
    BY DEF StorageInv, TypeOK, AllNamesInv
  <2>2. Cardinality(moved[j]) <= Cardinality(Names)
    BY <2>1, FS_Subset
  <2> QED
    BY <2>1, <2>2 DEF NamesInv
<1>2. IsFiniteSet(A) /\ Cardinality(A) <= Cardinality(Jobs) * Cardinality(Names)
  <2> HIDE DEF byJob
  <2> QED
    BY <1>1, UnionBound
<1>3. IsFiniteSet(B) /\ Cardinality(B) <= Cardinality(Links) * NLinks
  <2>1. IsFiniteSet(1 .. NLinks) /\ Cardinality(1 .. NLinks) = NLinks
    BY FS_Interval
  <2>2. \A l \in Links : IsFiniteSet(written[l]) /\ Cardinality(written[l]) <= Cardinality(1 .. NLinks)
    BY <2>1 DEF StorageInv, LinksInv, LinkInv
  <2>3. IsFiniteSet(B) /\ Cardinality(B) <= Cardinality(Links) * Cardinality(1 .. NLinks)
    BY <2>1, <2>2, UnionBound
  <2> QED
    BY <2>1, <2>3
<1>4. EverTaken \subseteq A \cup B \cup Names
  <2> SUFFICES ASSUME NEW n \in EverTaken, n \notin B PROVE n \in A \/ n \in Names
    OBVIOUS
  <2>1. n \in AllNames /\ dest[n] \in Jobs \cup Links \cup {User}
    BY DEF EverTaken, StorageInv, TypeOK
  <2>2. dest[n] \notin Links
    BY <2>1 DEF StorageInv, LinksInv, LinkInv, Owned
  <2>3. CASE dest[n] \in Jobs
    BY <2>1, <2>3 DEF Owned
  <2>4. CASE dest[n] = User
    BY <2>1, <2>4 DEF NumberInv, Owned
  <2> QED
    BY <2>1, <2>2, <2>3, <2>4
<1> HIDE DEF A, B
<1>5. /\ IsFiniteSet(A \cup B)
      /\ Cardinality(A \cup B) = Cardinality(A) + Cardinality(B) - Cardinality(A \cap B)
      /\ Cardinality(A \cap B) \in Nat
  BY <1>2, <1>3, FS_Union, FS_Intersection, FS_CardinalityType
<1>6. /\ IsFiniteSet(A \cup B \cup Names)
      /\ Cardinality(A \cup B \cup Names)
           = Cardinality(A \cup B) + Cardinality(Names) - Cardinality((A \cup B) \cap Names)
      /\ Cardinality((A \cup B) \cap Names) \in Nat
  BY <1>5, FS_Union, FS_Intersection, FS_CardinalityType
<1>7. IsFiniteSet(EverTaken) /\ Cardinality(EverTaken) <= Cardinality(A \cup B \cup Names)
  BY <1>4, <1>6, FS_Subset
<1>8. /\ Cardinality(A) \in Nat /\ Cardinality(B) \in Nat /\ Cardinality(Names) \in Nat
      /\ Cardinality(A \cup B) \in Nat /\ Cardinality(EverTaken) \in Nat
      /\ Cardinality(A \cup B \cup Names) \in Nat
      /\ Cardinality(Jobs) \in Nat /\ Cardinality(Links) \in Nat
  BY <1>2, <1>3, <1>5, <1>6, <1>7, FS_CardinalityType
<1> DEFINE a == Cardinality(Jobs) * Cardinality(Names)
           b == Cardinality(Links) * NLinks
<1>9. a \in Nat /\ b \in Nat /\ MaxNumber = a + b + Cardinality(Names) + 2
  BY <1>8 DEF MaxNumber
<1>10. Cardinality(A) <= a /\ Cardinality(B) <= b
  BY <1>2, <1>3
<1> HIDE DEF a, b
<1>11. Cardinality(A \cup B \cup Names) <= a + b + Cardinality(Names)
  BY <1>5, <1>6, <1>8, <1>9, <1>10
<1> QED
  BY <1>7, <1>8, <1>9, <1>11

\* Different numbers make different names.
LEMMA CandidatesDiffer ==
  ASSUME NEW n \in Names, NEW k \in Nat \ {0}, NEW m \in Nat \ {0},
         Candidate(n, k) = Candidate(n, m)
  PROVE  k = m
<1>1. n \in Seq(Int)
  BY NamesAssumption
<1> DEFINE last == Len(n) + 1
<1>2. \A i \in Int : Len(Append(n, i)) = last /\ Append(n, i)[last] = i
  BY <1>1
<1>3. last # Len(n)
  BY <1>1
<1> HIDE DEF last
<1>4. k \in Int /\ m \in Int
  OBVIOUS
<1>5. Append(n, k) # n /\ Append(n, m) # n
  BY <1>2, <1>3, <1>4
<1>6. Append(n, k) = Append(n, m) => k = m
  BY <1>2, <1>4
<1> QED
  BY <1>5, <1>6 DEF Candidate

\* The publication loop finds a free name before MaxNumber, whatever the jobs,
\* the links and the user do meanwhile: each number it skips is a name of its
\* own that some item, link or file of the user has taken.
THEOREM NumbersAreEnough == Spec => []NumbersSuffice
<1>1. StorageInv /\ NumberInv => NumbersSuffice
  <2> SUFFICES ASSUME StorageInv, NumberInv, NEW j \in Jobs, pc[j] = "rename"
               PROVE  number[j] < MaxNumber
    BY DEF NumbersSuffice
  <2> DEFINE S == 1 .. number[j] - 1
             f == [k \in S |-> Candidate(item[j], k)]
  <2>1. number[j] \in Nat /\ number[j] >= 1 /\ item[j] \in Names
    BY NumberType DEF StorageInv, TypeOK
  <2>2. \A k \in S : f[k] \in EverTaken
    BY DEF NumberInv, TriedInv
  <2>3. \A k, m \in S : f[k] = f[m] => k = m
    BY <2>1, CandidatesDiffer
  <2>4. f \in Injection(S, EverTaken)
    BY <2>2, <2>3 DEF Injection, IsInjective
  <2>5. IsFiniteSet(EverTaken) /\ Cardinality(EverTaken) <= MaxNumber - 2
    BY TakenBound
  <2>6. Cardinality(S) <= Cardinality(EverTaken)
    <3> HIDE DEF S, f
    <3> QED
      BY <2>4, <2>5, FS_Injection
  <2>7. Cardinality(S) = number[j] - 1
    BY <2>1, FS_Interval
  <2>8. Cardinality(EverTaken) \in Nat
    BY <2>5, FS_CardinalityType
  <2> QED
    BY <2>1, <2>5, <2>6, <2>7, <2>8, NumberType
<1> QED
  BY <1>1, Invariance, NumberInvariance, PTL

\* Numbers a job may still try for the item it is at.
TriesLeft(j) == IF pc[j] = "pick" THEN MaxNumber ELSE MaxNumber - number[j]
Looping(j) == pc[j] \in {"pick", "rename"}

\* The publication loop leaves, is done with an item, or has a number less to
\* try, and has always one to try.
LoopDescends ==
  \A j \in Jobs : Looping(j) =>
    /\ TriesLeft(j) \in 1 .. MaxNumber
    /\ \/ UNCHANGED <<pc[j], left[j], number[j]>>
       \/ ~Looping(j)'
       \/ left'[j] \subseteq left[j] /\ left'[j] # left[j]
       \/ left'[j] = left[j] /\ TriesLeft(j)' < TriesLeft(j)

\* Only its own steps are seen by a job that publishes.
LEMMA LoopUndisturbed ==
  ASSUME TypeOK, NEW j \in Jobs, Next, ~JobStep(j)
  PROVE  UNCHANGED <<pc[j], left[j], number[j]>>
<1> DEFINE Goal == UNCHANGED <<pc[j], left[j], number[j]>>
<1>1. ASSUME NEW i \in Jobs, i # j, JobStep(i) PROVE Goal
  <2>1. CASE Decode(i) \/ ExtractEnds(i) \/ RenameFails(i) \/ SyncFolder(i)
    BY <1>1, <2>1 DEF TypeOK, Decode, ExtractEnds, RenameFails, SyncFolder, Abandon, ItemIsOver, Goto, jobVars
  <2>2. CASE CheckToken(i) \/ \E n \in Names : ExtractEntry(i, n)
    BY <1>1, <2>2 DEF TypeOK, CheckToken, ExtractEntry, Abandon, ItemIsOver, Goto
  <2>3. CASE PickItem(i)
    BY <1>1, <2>3 DEF TypeOK, PickItem, Goto
  <2>4. CASE Renamed(i)
    BY <1>1, <2>4 DEF TypeOK, Renamed, ItemIsOver, Goto
  <2>5. CASE NameTaken(i)
    BY <1>1, <2>5 DEF TypeOK, NameTaken
  <2> QED
    BY <1>1, <2>1, <2>2, <2>3, <2>4, <2>5 DEF JobStep
<1>2. ASSUME NEW i \in Jobs, Cancel(i) PROVE Goal
  BY <1>2 DEF Cancel
<1>3. ASSUME NEW l \in Links, LinkStep(l) PROVE Goal
  <2>1. l # j
    OBVIOUS
  <2>2. CASE Persist(l)
    BY <2>1, <2>2 DEF TypeOK, Persist, Goto
  <2>3. CASE PersistFails(l) \/ Rollback(l)
    BY <2>1, <2>3 DEF TypeOK, PersistFails, Rollback, RolledBack, Goto, jobVars
  <2> QED
    BY <1>3, <2>2, <2>3 DEF LinkStep
<1>4. ASSUME NEW n \in Names, UserSaves(n) PROVE Goal
  BY <1>4 DEF UserSaves, jobVars
<1> QED
  BY <1>1, <1>2, <1>3, <1>4 DEF Next

\* Publication takes a bounded number of steps, and with NumbersAreEnough none
\* of them is ever blocked: a job at `rename' finds its name free or has a
\* number to go to.  What is left of PublishingEnds is that the blocking thread
\* runs.
THEOREM PublishingDescends == Spec => [][LoopDescends]_vars
<1>1. StorageInv /\ NumbersSuffice /\ [Next]_vars => [LoopDescends]_vars
  <2> SUFFICES ASSUME StorageInv, NumbersSuffice, Next, NEW j \in Jobs, Looping(j)
               PROVE  /\ TriesLeft(j) \in 1 .. MaxNumber
                      /\ \/ UNCHANGED <<pc[j], left[j], number[j]>>
                         \/ ~Looping(j)'
                         \/ left'[j] \subseteq left[j] /\ left'[j] # left[j]
                         \/ left'[j] = left[j] /\ TriesLeft(j)' < TriesLeft(j)
    BY DEF LoopDescends
  <2>1. TypeOK /\ JobInv(j) /\ number[j] \in 1 .. MaxNumber
    BY DEF StorageInv, JobsInv, TypeOK
  <2>2. TriesLeft(j) \in 1 .. MaxNumber
    BY <2>1, NumberType DEF TriesLeft, Looping, NumbersSuffice
  <2>3. CASE ~JobStep(j)
    BY <2>1, <2>2, <2>3, LoopUndisturbed
  <2>4. CASE PickItem(j)
    <3>1. left' = left /\ pc[j] = "pick" /\ TriesLeft(j) = MaxNumber
      BY <2>4 DEF PickItem, TriesLeft
    <3>2. CASE pc'[j] = "rename" /\ number'[j] = 1
      <4>1. TriesLeft(j)' = MaxNumber - 1
        BY <3>2 DEF TriesLeft
      <4> QED
        BY <2>2, <3>1, <4>1, NumberType
    <3>3. CASE pc'[j] = "sync"
      BY <2>2, <3>3 DEF Looping
    <3> QED
      BY <2>1, <2>4, <3>2, <3>3 DEF PickItem, Goto, TypeOK
  <2>5. CASE Renamed(j)
    <3>1. left'[j] = left[j] \ {item[j]} /\ item[j] \in left[j]
      BY <2>1, <2>5 DEF Renamed, TypeOK, JobInv
    <3> QED
      BY <2>2, <3>1
  <2>6. CASE NameTaken(j)
    <3>1. /\ pc[j] = "rename" /\ pc' = pc /\ left' = left
          /\ number'[j] = number[j] + 1
      BY <2>1, <2>6 DEF NameTaken, NextNumber, TypeOK
    <3>2. TriesLeft(j) = MaxNumber - number[j] /\ TriesLeft(j)' = MaxNumber - (number[j] + 1)
      BY <3>1 DEF TriesLeft
    <3> QED
      BY <2>1, <2>2, <3>1, <3>2, NumberType
  <2>7. CASE RenameFails(j)
    BY <2>1, <2>2, <2>7 DEF RenameFails, Abandon, Goto, Looping, TypeOK
  <2>8. CASE JobStep(j) /\ ~PickItem(j) /\ ~Renamed(j) /\ ~NameTaken(j) /\ ~RenameFails(j)
    BY <2>8 DEF JobStep, Decode, ExtractEntry, ExtractEnds, CheckToken, SyncFolder, Looping
  <2> QED
    BY <2>3, <2>4, <2>5, <2>6, <2>7, <2>8
<1> QED
  BY <1>1, Invariance, NumbersAreEnough, PTL DEF Spec
=============================================================================
