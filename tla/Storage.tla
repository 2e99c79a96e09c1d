-------------------------------- MODULE Storage -------------------------------
(***************************************************************************)
(* How received items reach the receive folder: receive_cancel of          *)
(* src/src/airdrop/storage.rs, which decodes an uploaded archive into a    *)
(* staging directory and renames its top-level items into the folder, and  *)
(* `store' of src/src/airdrop/archive.rs, which writes received links.     *)
(* Several run at once on different threads and the user works in the      *)
(* same folder; every system call is an action.                            *)
(*                                                                         *)
(* A file name is the sequence of the suffixes it carries: <<>> is         *)
(* "photo.jpg", <<2>> "photo 2.jpg", <<2, 2>> "photo 2 2.jpg" and <<-1>>    *)
(* "photo-1.jpg".                                                          *)
(***************************************************************************)
EXTENDS Integers, Sequences, FiniteSets

CONSTANTS
  Jobs,      \* archive uploads being stored
  Links,     \* link transfers being stored
  NLinks,    \* how many links each of them holds
  Names,     \* names that received items have
  LinkName,  \* "shared-link.txt"
  LinkTries, \* `for i in 0..1000'
  User,      \* whoever else puts files into the folder
  Nobody     \* owner of a name that is free

ASSUME StorageAssumption ==
  /\ User \notin Jobs \cup Links /\ Nobody \notin Jobs \cup Links \cup {User}
  /\ Jobs \cap Links = {}
  /\ IsFiniteSet(Jobs) /\ IsFiniteSet(Links) /\ IsFiniteSet(Names) /\ Names # {}
  /\ NLinks \in Nat \ {0} /\ LinkTries \in Nat \ {0}

ASSUME NamesAssumption == Names \subseteq Seq(Int) /\ LinkName \in Seq(Int)

Candidate_SameName(n, k) == n

\* The candidates of an item: its own name, then numbered from 2.
Candidate(n, k) == IF k = 1 THEN n ELSE Append(n, k)

\* A bound on the numbers: one more than all that can ever be taken, and so
\* never reached (NumbersSuffice).
MaxNumber == Cardinality(Jobs) * Cardinality(Names) + Cardinality(Links) * NLinks
               + Cardinality(Names) + 2

\* A link's i-th attempt.
LinkCandidate(i) == IF i = 0 THEN LinkName ELSE Append(LinkName, -i)

\* The names that can occur.
AllNames == {Candidate(n, k) : n \in Names, k \in 1 .. MaxNumber}
              \cup {LinkCandidate(i) : i \in 0 .. LinkTries - 1}

VARIABLES
  dest,      \* receive folder: owner of each name
  pc,        \* where each job is
  staged,    \* items of the job's staging directory
  left,      \* items the publication loop has not finished
  item,      \* the item being published, out of the loop the first one
  number,    \* the candidate number being tried, likewise
  moved,     \* history: items of the job renamed into the folder
  cancel,    \* the job's cancellation token
  early,     \* history: cancelled before the last check of the token
  written,   \* names a link transfer has written, the removed ones included
  undone,    \* those of them its rollback has been to
  kept       \* history: those whose removal failed

jobVars == <<staged, left, item, number, moved, cancel, early>>
linkVars == <<written, undone, kept>>
vars == <<dest, pc, jobVars, linkVars>>

Pcs == {"decode", "extract", "check", "pick", "rename", "sync",
        "persist", "rollback", "ok", "err"}
Ended(j) == pc[j] \in {"ok", "err"}

TypeOK ==
  /\ dest \in [AllNames -> Jobs \cup Links \cup {User, Nobody}]
  /\ pc \in [Jobs \cup Links -> Pcs]
  /\ staged \in [Jobs -> SUBSET Names]
  /\ left \in [Jobs -> SUBSET Names]
  /\ item \in [Jobs -> Names]
  /\ number \in [Jobs \cup Links -> Nat]
  /\ \A j \in Jobs : number[j] \in 1 .. MaxNumber
  /\ \A l \in Links : number[l] < LinkTries
  /\ moved \in [Jobs -> SUBSET Names]
  /\ cancel \in [Jobs -> BOOLEAN]
  /\ early \in [Jobs -> BOOLEAN]
  /\ written \in [Links -> SUBSET AllNames]
  /\ undone \in [Links -> SUBSET AllNames]
  /\ kept \in [Links -> SUBSET AllNames]

\* The value of `item' before there is one.
FirstItem == CHOOSE n \in Names : TRUE

Init ==
  /\ dest \in {[n \in AllNames |-> IF n \in U THEN User ELSE Nobody] :
                 U \in SUBSET Names}
  /\ pc = [j \in Jobs \cup Links |-> IF j \in Jobs THEN "decode" ELSE "persist"]
  /\ staged = [j \in Jobs |-> {}]
  /\ left = [j \in Jobs |-> {}]
  /\ item = [j \in Jobs |-> FirstItem]
  /\ number = [j \in Jobs \cup Links |-> IF j \in Jobs THEN 1 ELSE 0]
  /\ moved = [j \in Jobs |-> {}]
  /\ cancel = [j \in Jobs |-> FALSE]
  /\ early = [j \in Jobs |-> FALSE]
  /\ written = [l \in Links |-> {}]
  /\ undone = [l \in Links |-> {}]
  /\ kept = [l \in Links |-> {}]

Goto(j, l) == pc' = [pc EXCEPT ![j] = l]
-----------------------------------------------------------------------------
(* receive_cancel.                                                         *)

\* The publication loop is through with an item.
ItemIsOver(j) ==
  /\ item' = [item EXCEPT ![j] = FirstItem]
  /\ number' = [number EXCEPT ![j] = 1]

\* The error exits drop the TempDir, and with it what is still staged.
Abandon(j) ==
  /\ Goto(j, "err")
  /\ staged' = [staged EXCEPT ![j] = {}]
  /\ left' = [left EXCEPT ![j] = {}]
  /\ ItemIsOver(j)
  /\ UNCHANGED <<moved, cancel, early, linkVars, dest>>

\* The connection task is dropped: its Guard raises the token.
Cancel(j) ==
  /\ ~Ended(j)
  /\ ~cancel[j]
  /\ cancel' = [cancel EXCEPT ![j] = TRUE]
  /\ early' = [early EXCEPT ![j] = pc[j] \in {"decode", "extract", "check"}]
  /\ UNCHANGED <<dest, pc, staged, left, item, number, moved, linkVars>>

\* `decoded': unpack the spool, checking the token on every read, then make
\* the staging directory.
Decode(j) ==
  /\ pc[j] = "decode"
  /\ \/ /\ ~cancel[j]
        /\ Goto(j, "extract")
        /\ UNCHANGED <<dest, staged, left, item, number, moved, cancel, early, linkVars>>
     \/ Abandon(j)

\* The archive's next top-level item (create_new, so a repeated file is an
\* error).  The token is looked at when the reader's buffer is refilled: what
\* is buffered is extracted all the same.
ExtractEntry(j, n) ==
  /\ pc[j] = "extract"
  /\ n \notin staged[j]
  /\ staged' = [staged EXCEPT ![j] = @ \cup {n}]
  /\ UNCHANGED <<dest, pc, left, item, number, moved, cancel, early, linkVars>>

\* The trailer, and at least one regular file; or a malformed, oversized or
\* cancelled archive.
ExtractEnds(j) ==
  /\ pc[j] = "extract"
  /\ \/ /\ staged[j] # {}
        /\ Goto(j, "check")
        /\ UNCHANGED <<dest, staged, left, item, number, moved, cancel, early, linkVars>>
     \/ Abandon(j)

\* token.check(): the last look at the token before publication.
CheckToken(j) ==
  /\ pc[j] = "check"
  /\ \/ /\ ~cancel[j]
        /\ Goto(j, "pick")
        /\ left' = [left EXCEPT ![j] = staged[j]]
        /\ UNCHANGED <<dest, staged, item, number, moved, cancel, early, linkVars>>
     \/ /\ cancel[j]
        /\ Abandon(j)

\* The next entry of read_dir, with number = 1; or the end of the loop.
PickItem(j) ==
  /\ pc[j] = "pick"
  /\ \/ /\ left[j] # {}
        /\ item' \in {[item EXCEPT ![j] = n] : n \in left[j]}
        /\ number' = [number EXCEPT ![j] = 1]
        /\ Goto(j, "rename")
     \/ /\ left[j] = {}
        /\ Goto(j, "sync")
        /\ UNCHANGED <<item, number>>
  /\ UNCHANGED <<dest, staged, left, moved, cancel, early, linkVars>>

\* renameat2(RENAME_NOREPLACE) refuses a name that is taken.
Free_Replaces(n) == n \in AllNames
Free(n) == dest[n] = Nobody

Renamed(j) ==
  LET n == Candidate(item[j], number[j]) IN
  /\ pc[j] = "rename"
  /\ Free(n)
  /\ dest' = [dest EXCEPT ![n] = j]
  /\ moved' = [moved EXCEPT ![j] = @ \cup {item[j]}]
  /\ staged' = [staged EXCEPT ![j] = @ \ {item[j]}]
  /\ left' = [left EXCEPT ![j] = @ \ {item[j]}]
  /\ ItemIsOver(j)
  /\ Goto(j, "pick")
  /\ UNCHANGED <<cancel, early, linkVars>>

NextNumber_Stuck(k) == k
NextNumber(k) == k + 1

NameTaken_Skips(j) ==
  /\ pc[j] = "rename"
  /\ ~Free(Candidate(item[j], number[j]))
  /\ left' = [left EXCEPT ![j] = @ \ {item[j]}]
  /\ ItemIsOver(j)
  /\ Goto(j, "pick")
  /\ UNCHANGED <<dest, staged, moved, cancel, early, linkVars>>

\* EEXIST: try the next number.
NameTaken(j) ==
  /\ pc[j] = "rename"
  /\ number[j] < MaxNumber
  /\ ~Free(Candidate(item[j], number[j]))
  /\ number' = [number EXCEPT ![j] = NextNumber(@)]
  /\ UNCHANGED <<dest, pc, staged, left, item, moved, cancel, early, linkVars>>

\* Any other error of the rename ends the job; what was moved stays.
RenameFails(j) ==
  /\ pc[j] = "rename"
  /\ Abandon(j)

\* fsync of the folder; its failure is reported though all is published.
SyncFolder(j) ==
  /\ pc[j] = "sync"
  /\ \/ Goto(j, "ok") /\ UNCHANGED <<dest, jobVars, linkVars>>
     \/ Abandon(j)
-----------------------------------------------------------------------------
(* archive::store for links: a synced temporary file, persist_noclobber    *)
(* under the first free name "shared-link-i.txt", and a rollback of all of *)
(* them when one fails.                                                    *)

Persist(l) ==
  LET n == LinkCandidate(number[l]) IN
  /\ pc[l] = "persist"
  /\ \/ /\ Free(n)
        /\ dest' = [dest EXCEPT ![n] = l]
        /\ written' = [written EXCEPT ![l] = @ \cup {n}]
        /\ number' = [number EXCEPT ![l] = 0]
        /\ Goto(l, IF Cardinality(written[l]) + 1 = NLinks THEN "ok" ELSE "persist")
     \/ /\ ~Free(n)
        /\ number[l] + 1 < LinkTries
        /\ number' = [number EXCEPT ![l] = @ + 1]
        /\ UNCHANGED <<dest, written, pc>>
     \/ /\ ~Free(n)
        /\ number[l] + 1 = LinkTries
        /\ number' = [number EXCEPT ![l] = 0]
        /\ Goto(l, "rollback")
        /\ UNCHANGED <<dest, written>>
  /\ UNCHANGED <<staged, left, item, moved, cancel, early, undone, kept>>

\* A write, sync or persist error.
PersistFails(l) ==
  /\ pc[l] = "persist"
  /\ number' = [number EXCEPT ![l] = 0]
  /\ Goto(l, "rollback")
  /\ UNCHANGED <<dest, staged, left, item, moved, cancel, early, linkVars>>

\* remove_file takes away what is at the path, whoever's it is.
Removed(l, n) ==
  /\ dest' = [dest EXCEPT ![n] = Nobody]
  /\ undone' = [undone EXCEPT ![l] = @ \cup {n}]
  /\ UNCHANGED kept

NotRemoved(l, n) ==
  /\ undone' = [undone EXCEPT ![l] = @ \cup {n}]
  /\ kept' = [kept EXCEPT ![l] = @ \cup {n}]
  /\ UNCHANGED dest

RolledBack(l) ==
  /\ undone[l] = written[l]
  /\ Goto(l, "err")
  /\ UNCHANGED <<dest, undone, kept>>

Rollback_StopsAtFailure(l) ==
  /\ pc[l] = "rollback"
  /\ \/ \E n \in written[l] \ undone[l] :
          \/ Removed(l, n) /\ UNCHANGED pc
          \/ NotRemoved(l, n) /\ Goto(l, "err")
     \/ RolledBack(l)
  /\ UNCHANGED <<jobVars, written>>

\* for p in &written { let _ = remove_file(p) }: each path is tried once, and
\* a removal that fails is passed over.
Rollback(l) ==
  /\ pc[l] = "rollback"
  /\ \/ /\ \E n \in written[l] \ undone[l] : Removed(l, n) \/ NotRemoved(l, n)
        /\ UNCHANGED pc
     \/ RolledBack(l)
  /\ UNCHANGED <<jobVars, written>>

\* The user saves a file under a received item's name.
UserSaves(n) ==
  /\ dest[n] = Nobody
  /\ dest' = [dest EXCEPT ![n] = User]
  /\ UNCHANGED <<pc, jobVars, linkVars>>

JobStep(j) ==
  \/ Decode(j) \/ \E n \in Names : ExtractEntry(j, n)
  \/ ExtractEnds(j) \/ CheckToken(j) \/ PickItem(j)
  \/ Renamed(j) \/ NameTaken(j) \/ RenameFails(j) \/ SyncFolder(j)

\* What must happen if nothing fails: the loops themselves.
Publishing(j) == PickItem(j) \/ Renamed(j) \/ NameTaken(j)

LinkStep(l) == Persist(l) \/ PersistFails(l) \/ Rollback(l)

Next ==
  \/ \E j \in Jobs : JobStep(j) \/ Cancel(j)
  \/ \E l \in Links : LinkStep(l)
  \/ \E n \in Names : UserSaves(n)

Spec == Init /\ [][Next]_vars

\* A blocking thread keeps running.
FairSpec == Spec /\ \A j \in Jobs : WF_vars(Publishing(j))
-----------------------------------------------------------------------------
Owned(x) == {n \in AllNames : dest[n] = x}

\* Nothing in the folder is ever replaced or removed, whoever put it there
\* and whatever runs at the same time; only a link transfer that rolls back
\* takes its own files away.
KeepsFiles ==
  \A n \in AllNames : dest[n] \notin {Nobody, dest'[n]} =>
    /\ dest'[n] = Nobody
    /\ dest[n] \in Links
    /\ pc[dest[n]] = "rollback"

NothingReplaced == [][KeepsFiles]_vars

\* When the publication loop is over every item of the archive is in the
\* folder under a name of its own, and nothing is left in the staging
\* directory for the TempDir to delete.  With it the types.
NoItemLost ==
  /\ TypeOK
  /\ \A j \in Jobs : pc[j] \in {"sync", "ok"} =>
       /\ staged[j] = {}
       /\ moved[j] # {}
       /\ Cardinality(Owned(j)) = Cardinality(moved[j])

\* What does not go through leaves nothing behind that could be taken away: a
\* transfer cancelled before the last look at its token publishes no item, and
\* links are stored all or, of those a failed transfer wrote, only the ones
\* whose own removal failed; such a failure keeps no other link in the folder.
FailureLeavesNothing ==
  /\ \A j \in Jobs : early[j] => Owned(j) = {}
  /\ \A l \in Links :
       /\ pc[l] = "ok" => Cardinality(Owned(l)) = NLinks
       /\ pc[l] = "err" => Owned(l) = kept[l]

\* The loop that numbers an item finds a free name before MaxNumber, which
\* depends on what is being received and on what the user has, not on how
\* long the jobs compete: `number' is nowhere near overflowing, and the guard
\* of NameTaken hides no behaviour.
NumbersSuffice ==
  \A j \in Jobs : pc[j] = "rename" => number[j] < MaxNumber

\* Numbering always finds a free name: the publication loop ends, however
\* many jobs and users compete for the same names.
PublishingEnds == \A j \in Jobs : pc[j] = "pick" ~> pc[j] \in {"sync", "ok", "err"}
=============================================================================
