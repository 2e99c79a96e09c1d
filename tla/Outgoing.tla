------------------------------- MODULE Outgoing -------------------------------
(***************************************************************************)
(* What a transfer of files spools before it asks: prepare_cancel and add  *)
(* of src/src/airdrop/outgoing.rs, which walk the chosen files and folders *)
(* into a CPIO archive while others work on the same files; and what the   *)
(* extraction of src/src/airdrop/storage.rs accepts of such an archive.    *)
(***************************************************************************)
EXTENDS Naturals, Sequences, FiniteSets

CONSTANTS
  Nodes,       \* files and folders at their paths
  NameOf,      \* file name of each
  Children,    \* what each holds while it is a folder, in order of name
  Selections,  \* the lists of paths that are sent
  Unsupported, \* names that filename() refuses
  Formatting,  \* names with characters that turn the text direction
  Hidden,      \* names that start with "._"
  LongPaths,   \* archive paths of more than 4095 bytes
  MaxDepth, MaxEntries, MaxFile, MaxTransfer,  \* 64, 65536, 8 GiB, 32 GiB
  HeaderSize,  \* what a header and its name take
  MaxSize,     \* bound on the size of a file
  MaxChanges   \* bound on what others change

ASSUME OutgoingAssumption ==
  /\ DOMAIN NameOf = Nodes
  /\ DOMAIN Children = Nodes
  /\ \A n \in Nodes :
       /\ Children[n] \in Seq(Nodes)
       /\ \A i, j \in DOMAIN Children[n] : NameOf[Children[n][i]] = NameOf[Children[n][j]] => i = j
  /\ \A s \in Selections : s \in Seq(Nodes)
  /\ {MaxDepth, MaxEntries, MaxFile, MaxTransfer, HeaderSize, MaxSize, MaxChanges} \subseteq Nat
  /\ MaxSize # 0

VARIABLES
  kind, size,  \* each node as it is now
  changes,     \* how often others have changed one
  opc,         \* where prepare_cancel is
  files,       \* the selected paths
  next,        \* the one at hand
  todo,        \* nodes still to add for it, with their archive paths
  open,        \* length of the open file when opened and now, and is it at its path?
  entries,     \* the archive so far
  total,       \* `total'
  token        \* raised when the transfer is dropped

outgoingVars == <<kind, size, changes, opc, files, next, todo, open, entries, total, token>>
world == <<kind, size, changes>>
spool == <<files, next, todo, open, entries, total>>

Kinds == {"file", "folder", "special", "none"}
Over == {"prepared", "failed"}

OutgoingTypeOK ==
  /\ kind \in [Nodes -> Kinds] /\ size \in [Nodes -> 0 .. MaxSize]
  /\ changes \in 0 .. MaxChanges
  /\ opc \in {"idle", "path", "add", "list", "open", "copy", "check", "compress"} \cup Over
  /\ files \in Seq(Nodes) /\ next \in 1 .. Len(files) + 1
  /\ \A i \in DOMAIN todo : todo[i].node \in Nodes
  /\ open \in [was : 0 .. MaxSize, now : 0 .. MaxSize, linked : BOOLEAN]
  /\ \A i \in DOMAIN entries : entries[i].size \in 0 .. MaxFile
  /\ total \in 0 .. MaxTransfer
  /\ token \in BOOLEAN

OutgoingInit ==
  /\ kind \in [Nodes -> {"file", "folder"}]
  /\ \A n \in Nodes : kind[n] = "folder" <=> Children[n] # <<>>
  /\ size = [n \in Nodes |-> 1]
  /\ changes = 0
  /\ opc = "idle"
  /\ files \in Selections /\ next = 1
  /\ todo = <<>>
  /\ open = [was |-> 0, now |-> 0, linked |-> FALSE]
  /\ entries = <<>>
  /\ total = 0
  /\ token = FALSE

Node == Head(todo).node
Path == Head(todo).path
-----------------------------------------------------------------------------
(* Others change a file in place, which also an open one feels, or put     *)
(* something else at its path.                                             *)

Opened(n) == opc \in {"copy", "check"} /\ Node = n /\ open.linked

Resize(n, s) ==
  /\ changes < MaxChanges
  /\ opc \notin Over
  /\ size' = [size EXCEPT ![n] = s]
  /\ open' = IF Opened(n) THEN [open EXCEPT !.now = s] ELSE open
  /\ changes' = changes + 1
  /\ UNCHANGED <<kind, opc, files, next, todo, entries, total, token>>

Replace(n, k) ==
  /\ changes < MaxChanges
  /\ opc \notin Over
  /\ kind' = [kind EXCEPT ![n] = k]
  /\ open' = IF Opened(n) THEN [open EXCEPT !.linked = FALSE] ELSE open
  /\ changes' = changes + 1
  /\ UNCHANGED <<size, opc, files, next, todo, entries, total, token>>

Others == \E n \in Nodes : \/ \E s \in 0 .. MaxSize : Resize(n, s)
                           \/ \E k \in Kinds : Replace(n, k)

\* The Guard is dropped with the transfer.
Drop == token' = TRUE /\ UNCHANGED <<world, opc, spool>>
-----------------------------------------------------------------------------
(* prepare_cancel.                                                         *)

Fails == opc' = "failed" /\ UNCHANGED spool

Repeated == \E i \in 1 .. next - 1 : NameOf[files[i]] = NameOf[files[next]]

\* The blocking task is spawned.
Begin ==
  /\ opc = "idle"
  /\ opc' = "path"
  /\ UNCHANGED <<world, spool, token>>

\* The next selected path, if it has a name of its own and is there.
NextPath ==
  /\ opc = "path"
  /\ next <= Len(files)
  /\ LET n == files[next] IN
     IF NameOf[n] \in Unsupported \/ Repeated \/ kind[n] = "none" THEN Fails
     ELSE /\ opc' = "add"
          /\ todo' = <<[node |-> n, path |-> <<NameOf[n]>>]>>
          /\ UNCHANGED <<files, next, open, entries, total>>
  /\ UNCHANGED <<world, token>>

PathAdded ==
  /\ opc = "add"
  /\ todo = <<>>
  /\ next' = next + 1
  /\ opc' = IF next = Len(files) THEN "compress" ELSE "path"
  /\ UNCHANGED <<world, files, todo, open, entries, total, token>>

\* The trailer of the archive is an entry, too.
CountFits == Len(entries) + 1 < MaxEntries

Below == [i \in DOMAIN Children[Node] |->
            LET n == Children[Node][i] IN [node |-> n, path |-> Append(Path, NameOf[n])]]

\* add: may it be added, and what is it?  A link is not followed.
Add ==
  /\ opc = "add"
  /\ todo # <<>>
  /\ IF \/ token \/ Len(Path) - 1 > MaxDepth \/ NameOf[Node] \in Unsupported
        \/ Path \in LongPaths \/ ~CountFits \/ kind[Node] \notin {"file", "folder"}
     THEN Fails
     ELSE opc' = (IF kind[Node] = "folder" THEN "list" ELSE "open") /\ UNCHANGED spool
  /\ UNCHANGED <<world, token>>

\* A folder's header, and the entries of what is now at its path: read_dir does
\* follow a link, so it may be one (special) to such a folder.
ReadDir ==
  /\ opc = "list"
  /\ \/ /\ kind[Node] \in {"folder", "special"}
        /\ opc' = "add"
        /\ entries' = Append(entries, [path |-> Path, kind |-> "folder", size |-> 0, data |-> 0])
        /\ todo' = Below \o Tail(todo)
        /\ UNCHANGED <<files, next, open, total>>
     \/ /\ kind[Node] # "folder"
        /\ Fails
  /\ UNCHANGED <<world, token>>

\* The file is opened, without following a link, and its header written.
Open ==
  /\ opc = "open"
  /\ LET s == size[Node] IN
     IF kind[Node] # "file" \/ s > MaxTransfer - total \/ s > MaxFile THEN Fails
     ELSE /\ opc' = "copy"
          /\ open' = [was |-> s, now |-> s, linked |-> TRUE]
          /\ entries' = Append(entries, [path |-> Path, kind |-> "file", size |-> s, data |-> 0])
          /\ total' = total + s
          /\ UNCHANGED <<files, next, todo>>
  /\ UNCHANGED <<world, token>>

\* At most the announced length is copied; less is an error.
Shorter_Unchecked == FALSE
Shorter == open.now < open.was

Copy ==
  /\ opc = "copy"
  /\ IF token \/ Shorter THEN Fails
     ELSE /\ opc' = "check"
          /\ entries' = [entries EXCEPT ![Len(entries)].data =
                           IF open.now < open.was THEN open.now ELSE open.was]
          /\ UNCHANGED <<files, next, todo, open, total>>
  /\ UNCHANGED <<world, token>>

\* So is a file that has another length after the copy.
Check ==
  /\ opc = "check"
  /\ IF open.now # open.was THEN Fails
     ELSE /\ opc' = "add"
          /\ todo' = Tail(todo)
          /\ UNCHANGED <<files, next, open, entries, total>>
  /\ UNCHANGED <<world, token>>

\* Compression looks at the token on each block, and may exceed the limit.
Compress ==
  /\ opc = "compress"
  /\ opc' \in (IF token THEN {"failed"} ELSE Over)
  /\ UNCHANGED <<world, spool, token>>

Preparing == NextPath \/ PathAdded \/ Add \/ ReadDir \/ Open \/ Copy \/ Check \/ Compress

OutgoingNext == Begin \/ Preparing \/ Others \/ Drop
OutgoingSpec == OutgoingInit /\ [][OutgoingNext]_outgoingVars
-----------------------------------------------------------------------------
(* The receiving end.                                                      *)

\* decoded and the extraction loop: sizes frame the archive, with its trailer it
\* is neither too long nor of too many entries, every path is safe, short enough
\* (namesize is at most 4096 with its zero byte) and new.
Accepted(es, bytes) ==
  /\ bytes + HeaderSize * (Len(es) + 1) <= MaxTransfer
  /\ Len(es) + 1 <= MaxEntries
  /\ \A i \in DOMAIN es :
       /\ es[i].data = es[i].size
       /\ es[i].path \notin LongPaths
       /\ \A k \in DOMAIN es[i].path : es[i].path[k] \notin Formatting
       /\ \A j \in 1 .. i - 1 : es[i].path # es[j].path
  /\ \E i \in DOMAIN es : es[i].kind = "file" /\ es[i].path[Len(es[i].path)] \notin Hidden

\* However the files change while they are spooled, what is sent is an archive
\* that this program's own receiving end takes, but for three things it refuses
\* and the sender does not look at: names that turn the text direction, nothing
\* to store, and headers that do not fit beside 32 GiB of data.
PreparedIsAccepted ==
  /\ OutgoingTypeOK
  /\ opc = "prepared" =>
       \/ Accepted(entries, total)
       \/ \E i \in DOMAIN entries : entries[i].path[Len(entries[i].path)] \in Formatting
       \/ \A i \in DOMAIN entries :
            entries[i].kind = "folder" \/ entries[i].path[Len(entries[i].path)] \in Hidden
       \/ total + HeaderSize * (Len(entries) + 1) > MaxTransfer
=============================================================================
