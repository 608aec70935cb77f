------------------------ MODULE FileOperationsProofs ------------------------
(***************************************************************************)
(* What the operation layer does to the user's files, for any operation,   *)
(* directory size and number of crashes, faults and stop requests.         *)
(*                                                                         *)
(* OperationEngine, in three layers:                                       *)
(*                                                                         *)
(*   Shape      what the engine's variables can be, and that it never      *)
(*              writes to its source (TypeOK, EndIsFinal);                 *)
(*   Safe       where the source is whole and what of it is copied         *)
(*              (SourceIsSafe, CompletedIsDone);                           *)
(*   OldIsKept  where the old destination is (OldTargetIsSafe).            *)
(*                                                                         *)
(* The last two need ComparisonTells: a replay only compares the length of *)
(* what it finds.                                                          *)
(*                                                                         *)
(* TrashMetadata: the metadata file stays well formed, what went to the    *)
(* Trash with its metadata can be restored, an entry goes only after its   *)
(* item, and an item comes back to its own home.  The last three hold for  *)
(* one process at a time and for items that do not share a base name: the  *)
(* file is keyed by that name and replaced without a lock.                 *)
(***************************************************************************)
EXTENDS OperationEngine, TrashMetadata, SequenceTheorems, TLAPS

(***************************************************************************)
(* Trees.  Here a is the tree the operation found at its source and b the  *)
(* one it found at its destination.                                        *)
(***************************************************************************)
Whole == Files \cup Links \cup DirsOf(Files)

\* What the engine itself writes for the item c of the source, in part or whole.
Written(a, c) ==
  LET item == ItemOf(a, c)
  IN  IF item.kind = "file" THEN {item, PartOf(item)} ELSE {item}

\* A tree of items that the engine wrote or the operation found.
Mixed(n, a, b) ==
  \/ n = None
  \/ NonDir(n) /\ n \in Written(a, Self) \cup {b}
  \/ /\ IsDir(n)
     /\ IsDir(a) \/ IsDir(b)
     /\ \A c \in DOMAIN n.kids : n.kids[c] \in Written(a, c) \cup {ItemOf(b, c)}

\* What a removal has left of the source.
LeftOver(n, a) ==
  \/ n = None
  \/ /\ IsDir(a) /\ IsDir(n)
     /\ DOMAIN n.kids \subseteq DOMAIN a.kids
     /\ \A c \in DOMAIN n.kids : n.kids[c] = a.kids[c]

\* The children of a outside of rest are in n.
CopiedBut(n, a, rest) ==
  /\ IsDir(a) /\ IsDir(n)
  /\ \A c \in DOMAIN a.kids \ rest : ItemOf(n, c) = a.kids[c]

\* The fields of a file, an unfinished file and a link.
LEMMA FileFacts ==
  /\ \A f \in Files : f.kind = "file" /\ f.whole /\ f.data \in Data
  /\ \A f \in PartFiles : f.kind = "file" /\ ~f.whole /\ f.data \in Data
  /\ \A f \in Links : f.kind = "link" /\ f.whole /\ f.data \in Data
  /\ \A f \in Files : PartOf(f) \in PartFiles
<1>1. ASSUME NEW d PROVE /\ File(d).kind = "file" /\ File(d).data = d /\ File(d).whole
                         /\ Link(d).kind = "link" /\ Link(d).data = d /\ Link(d).whole
  BY DEF File, Link
<1>2. ASSUME NEW d PROVE /\ PartOf(File(d)).kind = "file" /\ PartOf(File(d)).data = d
                         /\ ~PartOf(File(d)).whole
  BY DEF File, PartOf
<1>3. QED
  BY <1>1, <1>2 DEF Files, PartFiles, Links

\* The parts of a directory.
LEMMA DirFacts ==
  ASSUME NEW kids, NEW n \in DirsOf(kids)
  PROVE  /\ n.kind = "dir" /\ n = Dir(n.kids)
         /\ DOMAIN n.kids \subseteq Names
         /\ n.kids \in [DOMAIN n.kids -> kids]
  BY DEF DirsOf, Dir

\* A directory of files is one of DirsOf.
LEMMA DirType ==
  ASSUME NEW kids, NEW k, DOMAIN k \subseteq Names, k \in [DOMAIN k -> kids]
  PROVE  Dir(k) \in DirsOf(kids)
  BY DEF DirsOf, Dir

\* The kinds of a tree.
LEMMA NodeFacts ==
  ASSUME NEW n \in Nodes
  PROVE  /\ n = None <=> ~Exists(n)
         /\ n = None <=> n.kind = "none"
         /\ n = None \/ NonDir(n) \/ IsDir(n)
         /\ ~(IsDir(n) /\ NonDir(n)) /\ ~IsDir(None) /\ ~NonDir(None)
         /\ NonDir(n) <=> n \in Files \cup PartFiles \cup Links
         /\ IsDir(n) <=> n \in DirsOf(Files \cup PartFiles)
  BY FileFacts, DirFacts DEF Nodes, Exists, None, IsDir, NonDir

\* A tree an operation is given.
LEMMA WholeFacts ==
  ASSUME NEW a \in Whole
  PROVE  /\ a \in Nodes /\ Exists(a)
         /\ IsDir(a) \/ NonDir(a)
         /\ NonDir(a) => a \in Files \cup Links
         /\ IsDir(a) => /\ DOMAIN a.kids \subseteq Names
                        /\ \A c \in DOMAIN a.kids : a.kids[c] \in Files
<1>1. ASSUME NEW n \in DirsOf(Files) PROVE n \in DirsOf(Files \cup PartFiles) /\ n.kind = "dir"
  <2>1. n = Dir(n.kids) /\ DOMAIN n.kids \subseteq Names /\ n.kids \in [DOMAIN n.kids -> Files] /\ n.kind = "dir"
    BY DirFacts
  <2>2. n.kids \in [DOMAIN n.kids -> Files \cup PartFiles]
    BY <2>1
  <2>3. QED
    BY <2>1, <2>2, DirType
<1>2. a \in Nodes
  BY <1>1 DEF Whole, Nodes
<1>3. a \in Files => a.kind = "file"
  BY FileFacts
<1>4. a \in Links => a.kind = "link"
  BY FileFacts
<1>5. a.kind # "none"
  BY <1>1, <1>3, <1>4 DEF Whole
<1>6. IsDir(a) => a \in DirsOf(Files)
  BY <1>3, <1>4 DEF IsDir, Whole
<1>7. NonDir(a) => a \in Files \cup Links
  BY <1>1 DEF NonDir, Whole
<1>8. a \in DirsOf(Files) =>
         DOMAIN a.kids \subseteq Names /\ \A c \in DOMAIN a.kids : a.kids[c] \in Files
  <2>1. ASSUME a \in DirsOf(Files) PROVE DOMAIN a.kids \subseteq Names /\ a.kids \in [DOMAIN a.kids -> Files]
    BY <2>1, DirFacts
  <2>2. QED
    BY <2>1
<1>9. QED
  BY <1>2, <1>5, <1>6, <1>7, <1>8, NodeFacts

\* A child of a directory is a file.
LEMMA KidFacts ==
  ASSUME NEW n \in Nodes, IsDir(n)
  PROVE  /\ DOMAIN n.kids \subseteq Names
         /\ \A c \in DOMAIN n.kids : n.kids[c] \in Files \cup PartFiles
         /\ \A c \in DOMAIN n.kids : Exists(n.kids[c])
<1>1. n \in DirsOf(Files \cup PartFiles)
  BY NodeFacts
<1>2. DOMAIN n.kids \subseteq Names /\ n.kids \in [DOMAIN n.kids -> Files \cup PartFiles]
  BY <1>1, DirFacts
<1>3. \A c \in DOMAIN n.kids : n.kids[c] \in Files \cup PartFiles
  BY <1>2
<1>4. \A f \in Files \cup PartFiles : f \in Nodes /\ f.kind = "file"
  BY FileFacts DEF Nodes
<1>5. \A f \in Files \cup PartFiles : Exists(f)
  BY <1>4, NodeFacts
<1>6. QED
  BY <1>2, <1>3, <1>5

\* What ItemOf finds: the item itself, a child, or nothing.
LEMMA ItemFacts ==
  ASSUME NEW n
  PROVE  /\ ItemOf(n, Self) = n
         /\ \A c \in Names : IsDir(n) /\ c \in DOMAIN n.kids => ItemOf(n, c) = n.kids[c]
         /\ \A c \in Names : ~(IsDir(n) /\ c \in DOMAIN n.kids) => ItemOf(n, c) = None
  BY ConfigsAssumption DEF ItemOf

\* Writing and removing the item itself.
LEMMA SelfFacts ==
  ASSUME NEW n, NEW item
  PROVE  Put(n, Self, item) = item /\ Drop(n, Self) = None
  BY DEF Put, Drop

\* Writing a child of a directory leaves the others alone.
LEMMA PutChild ==
  ASSUME NEW n \in Nodes, IsDir(n), NEW c \in Names, NEW item \in Files \cup PartFiles
  PROVE  LET m == Put(n, c, item) IN
         /\ m \in Nodes /\ IsDir(m)
         /\ DOMAIN m.kids = DOMAIN n.kids \cup {c}
         /\ m.kids[c] = item
         /\ \A k \in DOMAIN n.kids \ {c} : m.kids[k] = n.kids[k]
<1> DEFINE kids == [k \in DOMAIN n.kids \cup {c} |-> IF k = c THEN item ELSE n.kids[k]]
<1>1. Put(n, c, item) = Dir(kids)
  BY ConfigsAssumption DEF Put
<1>2. DOMAIN kids \subseteq Names /\ kids \in [DOMAIN kids -> Files \cup PartFiles]
  BY KidFacts
<1>3. Dir(kids).kids = kids /\ IsDir(Dir(kids))
  BY DEF Dir, IsDir
<1>4. Dir(kids) \in Nodes
  <2> HIDE DEF kids
  <2> QED
    BY <1>2, DirType DEF Nodes
<1>5. /\ DOMAIN kids = DOMAIN n.kids \cup {c} /\ kids[c] = item
      /\ \A k \in DOMAIN n.kids \ {c} : kids[k] = n.kids[k]
  OBVIOUS
<1>6. QED
  <2> HIDE DEF kids
  <2> QED
    BY <1>1, <1>3, <1>4, <1>5

\* Removing a child of a directory leaves the others alone.
LEMMA DropChild ==
  ASSUME NEW n \in Nodes, IsDir(n), NEW c \in Names
  PROVE  LET m == Drop(n, c) IN
         /\ m \in Nodes /\ IsDir(m)
         /\ DOMAIN m.kids = DOMAIN n.kids \ {c}
         /\ \A k \in DOMAIN n.kids \ {c} : m.kids[k] = n.kids[k]
<1> DEFINE kids == [k \in DOMAIN n.kids \ {c} |-> n.kids[k]]
<1>1. Drop(n, c) = Dir(kids)
  BY ConfigsAssumption DEF Drop
<1>2. DOMAIN kids \subseteq Names /\ kids \in [DOMAIN kids -> Files \cup PartFiles]
  BY KidFacts
<1>3. Dir(kids).kids = kids /\ IsDir(Dir(kids))
  BY DEF Dir, IsDir
<1>4. Dir(kids) \in Nodes
  <2> HIDE DEF kids
  <2> QED
    BY <1>2, DirType DEF Nodes
<1>5. /\ DOMAIN kids = DOMAIN n.kids \ {c}
      /\ \A k \in DOMAIN n.kids \ {c} : kids[k] = n.kids[k]
  OBVIOUS
<1>6. QED
  <2> HIDE DEF kids
  <2> QED
    BY <1>1, <1>3, <1>4, <1>5

\* A complete copy holds its source.
LEMMA HoldsFacts ==
  ASSUME NEW a \in Whole, NEW n \in Nodes
  PROVE  /\ Holds(a, a)
         /\ CopiedBut(n, a, {}) => Holds(n, a)
         /\ Holds(n, a) /\ IsDir(a) => \A rest : CopiedBut(n, a, rest)
         /\ Holds(n, a) /\ NonDir(a) => n = a
         /\ Holds(n, a) => Exists(n)
<1>1. IsDir(a) => \A c \in DOMAIN a.kids : ItemOf(a, c) = a.kids[c]
  BY ItemFacts, WholeFacts
<1>2. NonDir(a) => ~IsDir(a)
  BY WholeFacts, NodeFacts
<1>3. Exists(a)
  BY WholeFacts
<1>4. IsDir(n) => Exists(n)
  BY NodeFacts
<1>5. QED
  BY <1>1, <1>2, <1>3, <1>4 DEF Holds, CopiedBut

\* The trees that the engine makes are mixed.
LEMMA MixedFacts ==
  ASSUME NEW a \in Whole, NEW b
  PROVE  /\ Mixed(None, a, b) /\ Mixed(a, a, b)
         /\ IsDir(a) => Mixed(Dir([k \in {} |-> None]), a, b)
         /\ a.kind = "file" => Mixed(PartOf(a), a, b)
<1>1. a \in Written(a, Self)
  BY ItemFacts DEF Written
<1>2. ASSUME IsDir(a), NEW c \in DOMAIN a.kids PROVE a.kids[c] \in Written(a, c)
  BY <1>2, ItemFacts, WholeFacts DEF Written
<1>3. Mixed(a, a, b)
  BY <1>1, <1>2, WholeFacts DEF Mixed
<1>4. ASSUME a.kind = "file" PROVE Mixed(PartOf(a), a, b)
  <2>1. PartOf(a) \in Written(a, Self)
    BY <1>4, ItemFacts DEF Written
  <2>2. NonDir(a)
    BY <1>4 DEF NonDir
  <2>3. a \in Files
    BY <1>4, <2>2, WholeFacts, FileFacts
  <2>4. NonDir(PartOf(a))
    BY <2>3, FileFacts DEF NonDir
  <2>5. QED
    BY <2>1, <2>4 DEF Mixed
<1>5. ASSUME IsDir(a) PROVE Mixed(Dir([k \in {} |-> None]), a, b)
  BY <1>5 DEF Mixed, Dir, IsDir
<1>6. QED
  BY <1>3, <1>4, <1>5 DEF Mixed

\* What the operation found is mixed.
LEMMA MixedFound ==
  ASSUME NEW a \in Whole, NEW b \in Whole \cup {None}
  PROVE  Mixed(b, a, b)
<1>1. CASE b = None
  BY <1>1 DEF Mixed
<1>2. CASE b \in Whole /\ NonDir(b)
  BY <1>2 DEF Mixed
<1>3. CASE b \in Whole /\ IsDir(b)
  BY <1>3, ItemFacts, WholeFacts DEF Mixed
<1>4. QED
  BY <1>1, <1>2, <1>3, WholeFacts

\* Writing an item of the source, in part or whole, and removing an item.
LEMMA MixedPut ==
  ASSUME NEW a \in Whole, NEW b, NEW n \in Nodes, Mixed(n, a, b), IsDir(n), IsDir(a),
         NEW c \in DOMAIN a.kids, NEW item \in {a.kids[c], PartOf(a.kids[c])}
  PROVE  Mixed(Put(n, c, item), a, b) /\ Put(n, c, item) \in Nodes
<1> DEFINE m == Put(n, c, item)
<1>1. c \in Names /\ a.kids[c] \in Files
  BY WholeFacts
<1>2. item \in Files \cup PartFiles /\ item \in Written(a, c)
  BY <1>1, FileFacts, ItemFacts DEF Written
<1>3. /\ m \in Nodes /\ IsDir(m) /\ DOMAIN m.kids = DOMAIN n.kids \cup {c} /\ m.kids[c] = item
      /\ \A k \in DOMAIN n.kids \ {c} : m.kids[k] = n.kids[k]
  BY <1>1, <1>2, PutChild
<1>4. \A k \in DOMAIN n.kids : n.kids[k] \in Written(a, k) \cup {ItemOf(b, k)}
  BY NodeFacts DEF Mixed
<1> HIDE DEF m
<1>5. Mixed(m, a, b)
  BY <1>2, <1>3, <1>4 DEF Mixed
<1>6. QED
  BY <1>3, <1>5 DEF m

\* A mixed tree stays mixed when a child is removed.
LEMMA MixedDrop ==
  ASSUME NEW a \in Whole, NEW b, NEW n \in Nodes, Mixed(n, a, b), IsDir(n), NEW c \in Names
  PROVE  Mixed(Drop(n, c), a, b) /\ Drop(n, c) \in Nodes
<1> DEFINE m == Drop(n, c)
<1>1. /\ m \in Nodes /\ IsDir(m) /\ DOMAIN m.kids = DOMAIN n.kids \ {c}
      /\ \A k \in DOMAIN n.kids \ {c} : m.kids[k] = n.kids[k]
  BY DropChild
<1>2. /\ \A k \in DOMAIN n.kids : n.kids[k] \in Written(a, k) \cup {ItemOf(b, k)}
      /\ IsDir(a) \/ IsDir(b)
  BY NodeFacts DEF Mixed
<1> HIDE DEF m
<1>3. Mixed(m, a, b)
  BY <1>1, <1>2 DEF Mixed
<1>4. QED
  BY <1>1, <1>3 DEF m

\* The source loses one item after the other.
LEMMA LeftOverDrop ==
  ASSUME NEW a \in Whole, NEW n \in Nodes, n = a \/ LeftOver(n, a), IsDir(n), NEW c \in Names
  PROVE  LeftOver(Drop(n, c), a) /\ Drop(n, c) \in Nodes
<1> DEFINE m == Drop(n, c)
<1>1. /\ m \in Nodes /\ IsDir(m) /\ DOMAIN m.kids = DOMAIN n.kids \ {c}
      /\ \A k \in DOMAIN n.kids \ {c} : m.kids[k] = n.kids[k]
  BY DropChild
<1>2. /\ IsDir(a) /\ DOMAIN n.kids \subseteq DOMAIN a.kids
      /\ \A k \in DOMAIN n.kids : n.kids[k] = a.kids[k]
  BY NodeFacts DEF LeftOver
<1> HIDE DEF m
<1>3. QED
  BY <1>1, <1>2 DEF LeftOver, m

\* A child that is written is copied; the others stay as they are.
LEMMA CopiedPut ==
  ASSUME NEW a \in Whole, NEW n \in Nodes, NEW rest, CopiedBut(n, a, rest),
         NEW c \in DOMAIN a.kids, c \in rest, NEW item \in {a.kids[c], PartOf(a.kids[c])}
  PROVE  /\ CopiedBut(Put(n, c, item), a, rest)
         /\ item = a.kids[c] => CopiedBut(Put(n, c, item), a, rest \ {c})
         /\ ItemOf(Put(n, c, item), c) = item
<1> DEFINE m == Put(n, c, item)
<1>1. IsDir(a) /\ IsDir(n) /\ DOMAIN a.kids \subseteq Names /\ a.kids[c] \in Files
  BY WholeFacts DEF CopiedBut
<1>2. /\ m \in Nodes /\ IsDir(m) /\ DOMAIN m.kids = DOMAIN n.kids \cup {c} /\ m.kids[c] = item
      /\ \A k \in DOMAIN n.kids \ {c} : m.kids[k] = n.kids[k]
  BY <1>1, FileFacts, PutChild
<1>3. ItemOf(m, c) = item
  BY <1>1, <1>2, ItemFacts
<1>4. ASSUME NEW k \in Names \ {c} PROVE ItemOf(m, k) = ItemOf(n, k)
  BY <1>1, <1>2, ItemFacts
<1> HIDE DEF m
<1>5. QED
  BY <1>1, <1>2, <1>3, <1>4 DEF CopiedBut, m

\* A child that is found whole no longer counts as left to copy.
LEMMA CopiedDone ==
  ASSUME NEW a, NEW n, NEW rest, NEW c, CopiedBut(n, a, rest \cup {c}), ItemOf(n, c) = a.kids[c]
  PROVE  CopiedBut(n, a, rest)
  BY DEF CopiedBut

\* What a passed comparison says under each policy (verify.rs).
LEMMA VerifiedFacts ==
  ASSUME NEW policy, NEW x, NEW y, Verified(policy, x, y)
  PROVE  /\ x.kind = "link" => y.kind = "link" /\ y.data = x.data
         /\ x.kind # "link" /\ policy = "Size" => Length(y) = Length(x)
         /\ x.kind # "link" /\ policy = "Bytes" => ~IsDir(y) /\ y.whole /\ y.data = x.data
  BY DEF Verified

\* All directories have one length.
LEMMA DirLength == \A n : IsDir(n) => Length(n) = SizeOf["dir"]
  BY DEF Length

\* Comparing what is at the destination with an item of the source: it passes only
\* for the item itself.
LEMMA VerifiedIsSame ==
  ASSUME NEW a \in Whole, NEW b \in Whole \cup {None}, NEW n \in Nodes, Mixed(n, a, b),
         NEW c \in Names \cup {Self}, NonDir(ItemOf(a, c)), Exists(ItemOf(n, c)),
         \A k \in Names \cup {Self} :
            /\ ItemOf(a, k).kind = "file" /\ Exists(ItemOf(b, k))
            /\ Length(ItemOf(b, k)) = Length(ItemOf(a, k))
            => ItemOf(b, k) = ItemOf(a, k),
         NEW policy \in Verifications \ {"None"}, Verified(policy, ItemOf(a, c), ItemOf(n, c))
  PROVE  ItemOf(n, c) = ItemOf(a, c)
<1> DEFINE x == ItemOf(a, c)
           y == ItemOf(n, c)
<1>1. x \in Files \cup Links
  <2>1. CASE c = Self
    BY <2>1, ItemFacts, WholeFacts
  <2>2. CASE c # Self
    <3>1. IsDir(a) /\ c \in DOMAIN a.kids /\ x = a.kids[c]
      BY <2>2, ItemFacts, NodeFacts DEF Nodes
    <3>2. QED
      BY <3>1, WholeFacts
  <2>3. QED
    BY <2>1, <2>2
<1>2. y \in Nodes /\ Exists(y)
  <2>1. CASE c = Self
    BY <2>1, ItemFacts
  <2>2. CASE c # Self
    <3>1. IsDir(n) /\ c \in DOMAIN n.kids /\ y = n.kids[c]
      BY <2>2, ItemFacts, NodeFacts DEF Nodes
    <3>2. QED
      BY <3>1, KidFacts DEF Nodes
  <2>3. QED
    BY <2>1, <2>2
<1>3. CASE x \in Links
  <2>0. x.kind = "link"
    BY <1>3, FileFacts
  <2>1. x.kind = "link" /\ y.kind = "link" /\ y.data = x.data
    BY <2>0, VerifiedFacts
  <2>2. y \in Links
    BY <1>2, <2>1, NodeFacts, FileFacts DEF NonDir
  <2>3. \A f \in Links : f = Link(f.data)
    BY DEF Links, Link
  <2>4. QED
    BY <1>3, <2>1, <2>2, <2>3
<1>4. CASE x \in Files
  <2>1. x.kind = "file" /\ x.whole /\ x.data \in Data /\ Length(x) = SizeOf[x.data]
    BY <1>4, FileFacts DEF Length, IsDir
  <2>2. SizeOf[x.data] # 0
    BY <2>1, EngineAssumption
  <2>3. Length(y) = Length(x)
    <3>1. CASE policy = "Size"
      BY <2>1, <3>1, VerifiedFacts
    <3>2. CASE policy = "Bytes"
      BY <2>1, <3>2, VerifiedFacts DEF Length
    <3>3. QED
      BY <3>1, <3>2 DEF Verifications
  <2>4. y # PartOf(x)
    <3>0. PartOf(x).kind = "file" /\ ~PartOf(x).whole
      BY <1>4, FileFacts
    <3>1. Length(PartOf(x)) = 0
      BY <3>0 DEF Length, IsDir
    <3>2. QED
      BY <2>1, <2>2, <2>3, <3>1
  <2>5. y \in Written(a, c) => y = x
    BY <2>4 DEF Written
  <2>6. y = ItemOf(b, c) => y = x
    BY <1>2, <2>1, <2>3
  <2>7. CASE c = Self /\ NonDir(n)
    <3>1. y = n /\ ItemOf(b, c) = b
      BY <2>7, ItemFacts
    <3>2. n # None
      BY <1>2, <3>1 DEF Exists
    <3>3. QED
      BY <2>5, <2>6, <2>7, <3>1, <3>2, NodeFacts DEF Mixed
  <2>8. CASE c = Self /\ IsDir(n)
    <3>1. y = n /\ ItemOf(b, c) = b /\ x = a
      BY <2>8, ItemFacts
    <3>2. ~IsDir(a)
      BY <2>1, <3>1 DEF IsDir
    <3>3. IsDir(b) /\ Exists(b)
      BY <2>8, <3>2, NodeFacts DEF Mixed, IsDir, None, Exists
    <3>4. Length(b) = Length(y)
      BY <2>8, <3>1, <3>3, DirLength
    <3>5. b = a
      BY <2>1, <2>3, <3>1, <3>3, <3>4
    <3>6. QED
      BY <3>2, <3>3, <3>5
  <2>9. CASE c # Self
    <3>1. IsDir(n) /\ c \in DOMAIN n.kids /\ y = n.kids[c]
      BY <2>9, <1>2, ItemFacts DEF Exists
    <3>2. y \in Written(a, c) \cup {ItemOf(b, c)}
      BY <3>1, NodeFacts DEF Mixed
    <3>3. QED
      BY <2>5, <2>6, <3>2
  <2>10. QED
    BY <1>2, <2>7, <2>8, <2>9, NodeFacts, ItemFacts
<1>5. QED
  BY <1>1, <1>3, <1>4

-----------------------------------------------------------------------------
(***************************************************************************)
(* Shapes.  The values of the variables cannot be followed without the     *)
(* place of the copy in the tree it writes: a child is only written into a *)
(* directory, and only one that the source has.                            *)
(***************************************************************************)

\* An attempt that runs is the last entry of the journal.
AttemptIsStarted ==
  pc \notin {"idle", "down", "returned"} => journal # <<>> /\ Last(journal) = Started

\* Nothing but a removal changes the source.
SourceIsOriginal == fs["from"] = op.from \/ LeftOver(fs["from"], op.from)

AtChild ==
  /\ IsDir(fs["from"]) /\ IsDir(fs[cp.root])
  /\ cp.todo \subseteq DOMAIN fs["from"].kids

CopyIsInside ==
  /\ pc \in {"apply", "clear", "copy", "mkdir", "children", "rename"} => cp.child = Self
  /\ pc = "mkdir" => IsDir(fs["from"])
  /\ pc = "children" => AtChild
  /\ pc \in {"existing", "item", "bytes", "write", "finish"} /\ cp.child # Self =>
       AtChild /\ cp.child \in DOMAIN fs["from"].kids

Shape ==
  /\ TypeOK
  /\ AttemptIsStarted
  /\ SourceIsOriginal
  /\ CopyIsInside

\* The fields of an operation.
LEMMA ConfigFacts ==
  ASSUME NEW o \in Configs
  PROVE  /\ o.kind \in Kinds /\ o.conflict \in Policies /\ o.verify \in Verifications
         /\ o.from \in Whole /\ o.to \in Whole \cup {None}
         /\ o.alias \in BOOLEAN /\ o.granted \in BOOLEAN
         /\ o.alias => o.to = o.from
  BY ConfigsAssumption DEF Whole

\* The journaled statuses are distinct.
LEMMA StatusFacts ==
  /\ {Started, Completed, Skipped, Paused, Cancelled} \subseteq Statuses
  /\ \A c \in Classes : Failed(c) \in Statuses \ {Started, Completed}
  /\ \A c \in Classes : Failed(c) \notin {Skipped, Paused, Cancelled}
  /\ Started \notin {Completed, Skipped, Paused, Cancelled}
  /\ Completed \notin {Skipped, Paused, Cancelled}
  /\ Failures \subseteq Statuses /\ Started \notin Failures /\ Completed \notin Failures
  /\ Skipped \notin Failures /\ Cancelled \notin Failures /\ Paused \notin {Skipped, Cancelled}
<1>1. \A c \in Classes : /\ Failed(c) # Started /\ Failed(c) # Completed /\ Failed(c) # Skipped
                         /\ Failed(c) # Paused /\ Failed(c) # Cancelled
  BY DEF Failed, Started, Completed, Skipped, Paused, Cancelled
<1>2. /\ Started \notin {Completed, Skipped, Paused, Cancelled}
      /\ Completed \notin {Skipped, Paused, Cancelled} /\ Paused \notin {Skipped, Cancelled}
  BY DEF Started, Completed, Skipped, Paused, Cancelled
<1>3. QED
  BY <1>1, <1>2 DEF Statuses, Failures

\* A stop request ends an attempt paused or cancelled, never in success.
LEMMA StopIsNoSuccess ==
  /\ StopError \in Statuses \ {Started, Completed, Skipped}
  /\ StopError' \in Statuses \ {Started, Completed, Skipped}
<1>1. {Paused, Cancelled} \subseteq Statuses \ {Started, Completed, Skipped}
  BY StatusFacts DEF Paused, Cancelled, Skipped
<1>2. QED
  BY <1>1 DEF StopError

\* The last entry of a journal that grows.
LEMMA LastEntry ==
  ASSUME NEW s \in Seq(Statuses), NEW e \in Statuses
  PROVE  Append(s, e) \in Seq(Statuses) /\ Append(s, e) # <<>> /\ Last(Append(s, e)) = e
  BY DEF Last

\* The fields of a running copy.
LEMMA CopyFields ==
  ASSUME NEW c \in Copies
  PROVE  /\ c.conflict \in Policies /\ c.resuming \in BOOLEAN /\ c.mode \in {"Fresh", "Merge", "Resume"}
         /\ c.root \in {"to", "alt", "stage"} /\ c.root \in Paths /\ c.root # "from"
         /\ c.todo \subseteq Names /\ c.child \in Names \cup {Self}
         /\ c.created \in BOOLEAN /\ c.delete_source \in BOOLEAN
  BY DEF Copies, Paths

\* The children that are left, and the directory that is made for them.
LEMMA CopyAll ==
  ASSUME NEW c \in Copies, NEW todo \in SUBSET Names
  PROVE  LET d == [c EXCEPT !.todo = todo]
             e == [c EXCEPT !.todo = todo, !.created = TRUE]
         IN
         /\ d \in Copies /\ d.todo = todo /\ d.created = c.created
         /\ d.child = c.child /\ d.root = c.root /\ d.mode = c.mode
         /\ d.delete_source = c.delete_source /\ d.resuming = c.resuming
         /\ e \in Copies /\ e.todo = todo /\ e.created
         /\ e.child = c.child /\ e.root = c.root /\ e.mode = c.mode
         /\ e.delete_source = c.delete_source /\ e.resuming = c.resuming
  BY DEF Copies

\* The contexts that an attempt runs in.
LEMMA ContextFacts ==
  ASSUME TypeOK
  PROVE  /\ ForegroundContext \in Contexts /\ RecoveryContext \in Contexts
         /\ [ctx EXCEPT !.resuming = TRUE, !.retry = FALSE] \in Contexts
         /\ [ctx EXCEPT !.resuming = TRUE, !.retry = FALSE].resuming
         /\ [ctx EXCEPT !.resuming = TRUE, !.retry = FALSE].verify = ctx.verify
         /\ [ctx EXCEPT !.resuming = TRUE, !.retry = FALSE].stoppable = ctx.stoppable
         /\ ForegroundContext.verify = op.verify /\ ~ForegroundContext.resuming
         /\ RecoveryContext.verify = "Size" /\ RecoveryContext.resuming
         /\ ctx.conflict \in Policies /\ ctx.verify \in Verifications
         /\ ctx.resuming \in BOOLEAN /\ ctx.retry \in BOOLEAN /\ ctx.stoppable \in BOOLEAN
<1>1. op.conflict \in Policies /\ op.verify \in Verifications /\ ctx \in Contexts
  BY ConfigFacts DEF TypeOK
<1>2. QED
  BY <1>1 DEF ForegroundContext, RecoveryContext, Contexts, Policies, Verifications

\* A step to the way out that leaves everything else alone.
Leaves ==
  /\ pc' = "unwind" /\ outcome' \in Statuses \ {Started, Completed}
  /\ UNCHANGED <<op, fs, orphans, journal, target, ctx, cp, control>>

\* An early return of the engine is Leaves.
LEMMA RaiseLeaves ==
  ASSUME UNCHANGED <<op, fs, orphans, journal, target, ctx, cp, control>>
  PROVE  /\ Raise(StopError) => Leaves
         /\ \A class \in Classes : Raise(Failed(class)) => Leaves
  BY StopIsNoSuccess, StatusFacts DEF Leaves, Raise, Goto

\* An early return keeps Shape.
LEMMA ShapeLeaves == ASSUME Shape, Leaves, pc \notin {"idle", "down", "returned"} PROVE Shape'
<1>1. TypeOK'
  BY DEF Shape, TypeOK, Leaves, Labels
<1>2. QED
  BY <1>1 DEF Shape, AttemptIsStarted, SourceIsOriginal, CopyIsInside, Leaves

\* The variables that most steps of the engine leave alone.
Rest == <<op, orphans, journal, target, ctx, control>>

\* A step of the engine that stays in the attempt.
LEMMA ShapeStep ==
  ASSUME Shape, UNCHANGED Rest, pc \notin {"idle", "down", "returned"}, pc' \in Labels \ {"down"},
         outcome' \in Statuses \ {Started}, cp' \in Copies, fs' \in [Paths -> Nodes],
         fs'["from"] = fs["from"] \/ LeftOver(fs'["from"], op.from), CopyIsInside'
  PROVE  Shape'
<1>1. TypeOK'
  BY DEF Shape, TypeOK, Rest
<1>2. AttemptIsStarted'
  BY DEF Shape, AttemptIsStarted, Rest
<1>3. SourceIsOriginal'
  BY DEF Shape, SourceIsOriginal, Rest
<1>4. QED
  BY <1>1, <1>2, <1>3 DEF Shape

\* Choosing between rename and copy keeps Shape (relocate.rs move_path).
LEMMA ShapeApply == ASSUME Shape, Apply PROVE Shape'
<1>1. pc = "apply" /\ fs' = fs /\ UNCHANGED Rest /\ fs \in [Paths -> Nodes] /\ cp.child = Self /\ cp \in Copies
  BY DEF Apply, Rest, Shape, TypeOK, CopyIsInside
<1>2. CASE Leaves
  BY <1>1, <1>2, ShapeLeaves
<1>3. CASE pc' \in {"rename", "clear", "same_file"} /\ UNCHANGED <<outcome, cp>>
  BY <1>1, <1>3, ShapeStep DEF Shape, TypeOK, Labels, CopyIsInside
<1>4. ASSUME NEW conflict \in Policies, NEW resuming \in BOOLEAN, NEW delete_source \in BOOLEAN,
             StartCopy(conflict, resuming, delete_source)
      PROVE  Shape'
  <2>0. target \in {"to", "alt", "stage"}
    BY DEF Shape, TypeOK
  <2>1. cp' \in Copies /\ cp'.child = Self /\ pc' = "copy" /\ outcome' = outcome
    BY <1>4, <2>0 DEF StartCopy, Goto, NoCopy, Copies
  <2>2. QED
    BY <1>1, <2>1, ShapeStep DEF Shape, TypeOK, Labels, CopyIsInside
<1>5. Raise(StopError) /\ UNCHANGED cp => Leaves
  BY <1>1, RaiseLeaves DEF Rest
<1>6. Raise(Failed("Permanent")) /\ UNCHANGED cp => Leaves
  BY <1>1, RaiseLeaves DEF Rest, Classes
<1>7. ctx.conflict \in Policies /\ ctx.resuming \in BOOLEAN /\ "Replace" \in Policies /\ "Merge" \in Policies
  BY ContextFacts DEF Shape, Policies
<1>8. QED
  BY <1>2, <1>3, <1>4, <1>5, <1>6, <1>7 DEF Apply, Goto

\* Choosing the copy algorithm keeps Shape (copy.rs copy_path_with_session).
LEMMA ShapeCopyPath == ASSUME Shape, CopyPath PROVE Shape'
<1>1. /\ pc = "copy" /\ fs' = fs /\ UNCHANGED Rest /\ fs \in [Paths -> Nodes] /\ cp.child = Self
      /\ cp \in Copies /\ target \in {"to", "alt", "stage"}
  BY DEF CopyPath, Rest, Shape, TypeOK, CopyIsInside
<1>2. CASE Leaves
  BY <1>1, <1>2, ShapeLeaves
<1>3. ASSUME NEW mode \in {"Fresh", "Merge", "Resume"}, NEW root \in {"to", "alt", "stage"},
             NEW label \in {"mkdir", "item", "existing", "clear", "finish"},
             label = "mkdir" => IsDir(fs["from"]),
             cp' = [cp EXCEPT !.mode = mode, !.root = root], pc' = label, UNCHANGED outcome
      PROVE  Shape'
  <2>0. LET d == [cp EXCEPT !.mode = mode, !.root = root] IN d \in Copies /\ d.child = cp.child
    BY <1>1 DEF Copies
  <2>1. cp' \in Copies /\ cp'.child = Self
    BY <1>1, <1>3, <2>0
  <2>2. QED
    BY <1>1, <1>3, <2>1, ShapeStep DEF Shape, TypeOK, Labels, CopyIsInside
<1>5. Raise(StopError) /\ UNCHANGED cp => Leaves
  BY <1>1, RaiseLeaves DEF Rest
<1>6. Raise(Failed("Permanent")) /\ UNCHANGED cp => Leaves
  BY <1>1, RaiseLeaves DEF Rest, Classes
<1>7. QED
  BY <1>1, <1>2, <1>3, <1>5, <1>6 DEF CopyPath, Goto

\* A directory that was just made.
LEMMA EmptyDir == Dir([k \in {} |-> None]) \in Nodes /\ IsDir(Dir([k \in {} |-> None]))
  BY DirType DEF Nodes, Dir, IsDir

\* Making the directory keeps Shape.
LEMMA ShapeMakeDirectory == ASSUME Shape, MakeDirectory PROVE Shape'
<1>1. /\ pc = "mkdir" /\ UNCHANGED Rest /\ fs \in [Paths -> Nodes] /\ cp.child = Self
      /\ cp \in Copies /\ IsDir(fs["from"]) /\ fs["from"] \in Nodes
  BY DEF MakeDirectory, Rest, Shape, TypeOK, CopyIsInside, Paths
<1>2. CASE Leaves
  BY <1>1, <1>2, ShapeLeaves
<1>3. DOMAIN fs["from"].kids \subseteq Names /\ cp.root \in Paths \ {"from"}
  BY <1>1, KidFacts, CopyFields
<1>4. ASSUME fs' = [fs EXCEPT ![cp.root] = Dir([k \in {} |-> None])],
             cp' = [cp EXCEPT !.todo = DOMAIN fs["from"].kids, !.created = TRUE],
             pc' = "children", UNCHANGED outcome
      PROVE  Shape'
  <2>1. cp' \in Copies /\ cp'.child = Self /\ cp'.todo = DOMAIN fs["from"].kids /\ cp'.root = cp.root
    BY <1>1, <1>3, <1>4, CopyAll
  <2>2. fs' \in [Paths -> Nodes] /\ fs'["from"] = fs["from"] /\ IsDir(fs'[cp.root])
    BY <1>1, <1>3, <1>4, EmptyDir
  <2>3. QED
    BY <1>1, <1>4, <2>1, <2>2, ShapeStep DEF Shape, TypeOK, Labels, CopyIsInside, AtChild
<1>5. ASSUME IsDir(fs[cp.root]), cp' = [cp EXCEPT !.todo = DOMAIN fs["from"].kids],
             pc' = "children", UNCHANGED <<fs, outcome>>
      PROVE  Shape'
  <2>1. cp' \in Copies /\ cp'.child = Self /\ cp'.todo = DOMAIN fs["from"].kids /\ cp'.root = cp.root
    BY <1>1, <1>3, <1>5, CopyAll
  <2>2. QED
    BY <1>1, <1>5, <2>1, ShapeStep DEF Shape, TypeOK, Labels, CopyIsInside, AtChild
<1>6. Raise(StopError) /\ UNCHANGED <<fs, cp>> => Leaves
  BY <1>1, RaiseLeaves DEF Rest
<1>7. Raise(Failed("Permanent")) /\ UNCHANGED <<fs, cp>> => Leaves
  BY <1>1, RaiseLeaves DEF Rest, Classes
<1>8. QED
  BY <1>1, <1>2, <1>4, <1>5, <1>6, <1>7 DEF MakeDirectory, Goto

\* Taking up the next child keeps Shape.
LEMMA ShapeChildren == ASSUME Shape, Children PROVE Shape'
<1>1. /\ pc = "children" /\ fs' = fs /\ UNCHANGED Rest /\ fs \in [Paths -> Nodes] /\ cp.child = Self
      /\ cp \in Copies /\ AtChild /\ cp.todo \subseteq Names
  BY CopyFields DEF Children, Rest, Shape, TypeOK, CopyIsInside
<1>2. CASE Leaves
  BY <1>1, <1>2, ShapeLeaves
<1>3. ASSUME cp' = [cp EXCEPT !.created = FALSE], pc' \in {"backup", "copied"}, UNCHANGED outcome
      PROVE  Shape'
  <2>1. cp' \in Copies
    BY <1>1, <1>3 DEF Copies
  <2>2. QED
    BY <1>1, <1>3, <2>1, ShapeStep DEF Shape, TypeOK, Labels, CopyIsInside
<1>4. ASSUME NEW c \in cp.todo, cp' = [cp EXCEPT !.todo = @ \ {c}, !.child = c],
             \/ pc' \in {"existing", "item"} /\ UNCHANGED outcome
             \/ Raise(Failed("Permanent"))
      PROVE  Shape'
  <2>1. c \in Names /\ c \in DOMAIN fs["from"].kids /\ "Permanent" \in Classes
    BY <1>1, <1>4 DEF AtChild, Classes
  <2>2. cp' \in Copies /\ cp'.child = c /\ cp'.root = cp.root /\ cp'.todo = cp.todo \ {c}
    BY <1>1, <1>4, <2>1 DEF Copies
  <2>3. outcome' \in Statuses \ {Started} /\ pc' \in {"existing", "item", "unwind"}
    BY <1>4, <2>1, StatusFacts DEF Shape, TypeOK, Raise, Goto
  <2>4. CopyIsInside'
    BY <1>1, <2>1, <2>2, <2>3 DEF CopyIsInside, AtChild
  <2>5. QED
    BY <1>1, <2>2, <2>3, <2>4, ShapeStep DEF Labels
<1>5. Raise(StopError) /\ UNCHANGED cp => Leaves
  BY <1>1, RaiseLeaves DEF Rest
<1>6. QED
  BY <1>1, <1>2, <1>3, <1>4, <1>5 DEF Children, Goto

\* What is left of the source when an attempt looks at it.
LEMMA SourceFacts ==
  ASSUME Shape
  PROVE  /\ op.from \in Whole /\ op.to \in Whole \cup {None}
         /\ fs["from"] \in Nodes
         /\ IsDir(fs["from"]) =>
              /\ IsDir(op.from) /\ DOMAIN fs["from"].kids \subseteq DOMAIN op.from.kids
              /\ DOMAIN op.from.kids \subseteq Names
              /\ \A c \in DOMAIN fs["from"].kids :
                   fs["from"].kids[c] = op.from.kids[c] /\ fs["from"].kids[c] \in Files
         /\ Exists(fs["from"]) /\ ~IsDir(fs["from"]) => fs["from"] = op.from /\ NonDir(op.from)
<1>1. op.from \in Whole /\ op.to \in Whole \cup {None} /\ fs["from"] \in Nodes
  BY ConfigFacts DEF Shape, TypeOK, Paths
<1>2. IsDir(op.from) => DOMAIN op.from.kids \subseteq Names /\ \A c \in DOMAIN op.from.kids : op.from.kids[c] \in Files
  BY <1>1, WholeFacts
<1>3. IsDir(op.from) \/ NonDir(op.from)
  BY <1>1, WholeFacts
<1>4. ~IsDir(None)
  BY <1>1, NodeFacts
<1>5. QED
  BY <1>1, <1>2, <1>3, <1>4 DEF Shape, SourceIsOriginal, LeftOver, Exists

\* The item that is being copied.
LEMMA ItemShape ==
  ASSUME Shape, pc \in {"existing", "item", "bytes", "write", "finish"}
  PROVE  /\ cp.child = Self => Source = fs["from"]
         /\ cp.child # Self =>
              /\ cp.child \in Names /\ Source = op.from.kids[cp.child] /\ Source \in Files
              /\ IsDir(fs[cp.root])
         /\ Source.kind = "file" => Source \in Files
         /\ Source \in Nodes
<1>1. cp \in Copies /\ cp.child \in Names \cup {Self}
  BY CopyFields DEF Shape, TypeOK
<1>2. ASSUME cp.child # Self
      PROVE  /\ cp.child \in Names /\ Source = op.from.kids[cp.child] /\ Source \in Files
             /\ IsDir(fs[cp.root])
  <2>1. AtChild /\ cp.child \in DOMAIN fs["from"].kids /\ cp.child \in Names
    BY <1>1, <1>2 DEF Shape, CopyIsInside
  <2>2. Source = fs["from"].kids[cp.child]
    BY <2>1, ItemFacts DEF Source, AtChild
  <2>3. QED
    BY <2>1, <2>2, SourceFacts DEF AtChild
<1>3. cp.child = Self => Source = fs["from"]
  BY ItemFacts DEF Source
<1>4. fs["from"].kind = "file" => fs["from"] \in Files
  <2>1. ASSUME fs["from"].kind = "file" PROVE fs["from"] \in Files
    <3>1. Exists(fs["from"]) /\ ~IsDir(fs["from"])
      BY <2>1 DEF Exists, None, IsDir
    <3>2. fs["from"] = op.from /\ NonDir(op.from) /\ op.from \in Whole
      BY <3>1, SourceFacts
    <3>3. QED
      BY <2>1, <3>2, WholeFacts, FileFacts
  <2>2. QED
    BY <2>1
<1>5. Files \subseteq Nodes
  BY DEF Nodes
<1>6. QED
  BY <1>2, <1>3, <1>4, <1>5, SourceFacts

\* Writing the item, and removing it.
LEMMA ItemWritten ==
  ASSUME Shape, pc \in {"item", "bytes", "write"}, NEW item, SetItem(item),
         item = Source \/ (Source.kind = "file" /\ item = PartOf(Source))
  PROVE  /\ fs' \in [Paths -> Nodes] /\ fs'["from"] = fs["from"]
         /\ cp.child # Self => IsDir(fs'[cp.root])
<1>1. cp.root \in Paths \ {"from"} /\ fs \in [Paths -> Nodes] /\ fs[cp.root] \in Nodes
  BY CopyFields DEF Shape, TypeOK
<1>2. fs' = [fs EXCEPT ![cp.root] = Put(fs[cp.root], cp.child, item)]
  BY DEF SetItem
<1>3. CASE cp.child = Self
  <2>1. item \in Nodes
    BY ItemShape, FileFacts DEF Nodes
  <2>2. Put(fs[cp.root], cp.child, item) = item
    BY <1>3, SelfFacts
  <2>3. QED
    BY <1>1, <1>2, <1>3, <2>1, <2>2
<1>4. CASE cp.child # Self
  <2>1. item \in Files \cup PartFiles /\ IsDir(fs[cp.root]) /\ cp.child \in Names
    BY <1>4, ItemShape, FileFacts
  <2>2. Put(fs[cp.root], cp.child, item) \in Nodes /\ IsDir(Put(fs[cp.root], cp.child, item))
    BY <1>1, <2>1, PutChild
  <2>3. QED
    BY <1>1, <1>2, <2>2
<1>5. QED
  BY <1>3, <1>4

\* Removing what a byte copy wrote leaves a tree.
LEMMA ItemRemoved ==
  ASSUME Shape, pc \in {"bytes", "write"}
  PROVE  Drop(fs[cp.root], cp.child) \in Nodes
<1>1. cp.root \in Paths \ {"from"} /\ fs \in [Paths -> Nodes] /\ fs[cp.root] \in Nodes
  BY CopyFields DEF Shape, TypeOK
<1>2. cp.child # Self => cp.child \in Names /\ IsDir(fs[cp.root])
  BY ItemShape
<1>3. cp.child # Self => Drop(fs[cp.root], cp.child) \in Nodes
  BY <1>1, <1>2, DropChild
<1>4. cp.child = Self => Drop(fs[cp.root], cp.child) = None
  BY SelfFacts
<1>5. QED
  BY <1>3, <1>4 DEF Nodes

\* The end of an item keeps Shape.
LEMMA ShapeItemDone ==
  ASSUME Shape, pc \in {"existing", "finish"}, fs' = fs, UNCHANGED Rest, ItemDone
  PROVE  Shape'
<1>1. cp \in Copies /\ fs \in [Paths -> Nodes]
  BY DEF Shape, TypeOK
<1>2. cp' \in Copies /\ cp'.child = Self /\ cp'.root = cp.root /\ cp'.todo = cp.todo
  BY <1>1 DEF ItemDone, Copies
<1>3. pc' \in {"children", "commit", "copied"} /\ outcome' = outcome /\ (pc' = "children" => cp.child # Self)
  BY DEF ItemDone, Goto
<1>4. CopyIsInside'
  BY <1>2, <1>3 DEF Shape, CopyIsInside, AtChild
<1>5. QED
  BY <1>1, <1>2, <1>3, <1>4, ShapeStep DEF Shape, TypeOK, Labels

\* Comparing an item that is there keeps Shape.
LEMMA ShapeExistingItem == ASSUME Shape, ExistingItem PROVE Shape'
<1>1. pc = "existing" /\ fs' = fs /\ UNCHANGED Rest
  BY DEF ExistingItem, Rest
<1>2. CASE Leaves
  BY <1>1, <1>2, ShapeLeaves
<1>3. Raise(StopError) /\ UNCHANGED cp => Leaves
  BY <1>1, RaiseLeaves DEF Rest
<1>4. Raise(Failed("Permanent")) /\ UNCHANGED cp => Leaves
  BY <1>1, RaiseLeaves DEF Rest, Classes
<1>5. QED
  BY <1>1, <1>2, <1>3, <1>4, ShapeItemDone DEF ExistingItem

\* The end of a copied item keeps Shape.
LEMMA ShapeFinishItem == ASSUME Shape, FinishItem PROVE Shape'
<1>1. pc = "finish" /\ fs' = fs /\ UNCHANGED Rest
  BY DEF FinishItem, Rest
<1>2. CASE Leaves
  BY <1>1, <1>2, ShapeLeaves
<1>3. Raise(StopError) /\ UNCHANGED cp => Leaves
  BY <1>1, RaiseLeaves DEF Rest
<1>4. QED
  BY <1>1, <1>2, <1>3, ShapeItemDone DEF FinishItem

\* A step from one place of an item to another.
LEMMA ShapeWithin ==
  ASSUME Shape, pc \in {"item", "bytes", "write"}, pc' \in {"bytes", "write", "finish"},
         UNCHANGED <<cp, outcome>>, UNCHANGED Rest,
         \/ fs' = fs
         \/ SetItem(Source)
         \/ Source.kind = "file" /\ SetItem(PartOf(Source))
  PROVE  Shape'
<1>1. cp \in Copies /\ fs \in [Paths -> Nodes]
  BY DEF Shape, TypeOK
<1>2. /\ fs' \in [Paths -> Nodes] /\ fs'["from"] = fs["from"]
      /\ cp.child # Self => IsDir(fs'[cp.root])
  BY <1>1, ItemWritten, ItemShape
<1>3. CopyIsInside'
  BY <1>2 DEF Shape, CopyIsInside, AtChild
<1>4. QED
  BY <1>1, <1>2, <1>3, ShapeStep DEF Shape, TypeOK, Labels

\* The first call of a file copy keeps Shape.
LEMMA ShapeCopyItem == ASSUME Shape, CopyItem PROVE Shape'
<1>1. pc = "item" /\ UNCHANGED Rest /\ UNCHANGED cp
  BY DEF CopyItem, Rest
<1>2. CASE Leaves
  BY <1>1, <1>2, ShapeLeaves
<1>3. Raise(StopError) /\ UNCHANGED fs => Leaves
  BY <1>1, RaiseLeaves DEF Rest
<1>4. QED
  BY <1>1, <1>2, <1>3, ShapeWithin DEF CopyItem, Goto

\* The check at the top of the byte loop keeps Shape.
LEMMA ShapeLoopCheck == ASSUME Shape, LoopCheck PROVE Shape'
<1>1. pc = "bytes" /\ UNCHANGED Rest /\ UNCHANGED <<cp, fs>>
  BY DEF LoopCheck, Rest
<1>2. CASE Leaves
  BY <1>1, <1>2, ShapeLeaves
<1>3. Raise(StopError) => Leaves
  BY <1>1, RaiseLeaves DEF Rest
<1>4. QED
  BY <1>1, <1>2, <1>3, ShapeWithin DEF LoopCheck, Goto

\* The error path of a byte copy, which removes what it wrote.
LEMMA ShapeItemRemoved ==
  ASSUME Shape, pc \in {"bytes", "write"}, fs' = [fs EXCEPT ![cp.root] = Drop(@, cp.child)],
         pc' = "unwind", outcome' \in Statuses \ {Started}, UNCHANGED Rest, UNCHANGED cp
  PROVE  Shape'
<1>1. cp \in Copies /\ fs \in [Paths -> Nodes] /\ cp.root \in Paths \ {"from"}
  BY CopyFields DEF Shape, TypeOK
<1>2. fs' \in [Paths -> Nodes] /\ fs'["from"] = fs["from"]
  BY <1>1, ItemRemoved
<1>3. QED
  BY <1>1, <1>2, ShapeStep DEF Labels, CopyIsInside

\* Writing the last chunk keeps Shape.
LEMMA ShapeWriteChunk == ASSUME Shape, WriteChunk PROVE Shape'
<1>1. pc = "write" /\ UNCHANGED Rest /\ UNCHANGED cp
  BY DEF WriteChunk, Rest
<1>2. CASE control # {}
  BY <1>1, <1>2, ShapeItemRemoved, StopIsNoSuccess DEF WriteChunk, Raise, Goto
<1>3. CASE control = {}
  BY <1>1, <1>3, ShapeWithin DEF WriteChunk, Goto
<1>4. QED
  BY <1>2, <1>3

\* A step of a removal.
LEMMA Removal ==
  ASSUME Shape, NEW p \in Paths, NEW c \in DOMAIN fs[p].kids, IsDir(fs[p])
  PROVE  /\ Drop(fs[p], c) \in Nodes /\ c \in Names
         /\ p = "from" => LeftOver(Drop(fs[p], c), op.from)
<1>1. fs[p] \in Nodes /\ op.from \in Whole
  BY SourceFacts DEF Shape, TypeOK
<1>2. c \in Names
  BY <1>1, KidFacts
<1>3. Drop(fs[p], c) \in Nodes
  BY <1>1, <1>2, DropChild
<1>4. p = "from" => LeftOver(Drop(fs[p], c), op.from)
  BY <1>1, <1>2, LeftOverDrop DEF Shape, SourceIsOriginal
<1>5. QED
  BY <1>2, <1>3, <1>4

\* Removing a destination of another sort keeps Shape.
LEMMA ShapeClearTarget == ASSUME Shape, ClearTarget PROVE Shape'
<1>1. /\ pc = "clear" /\ UNCHANGED Rest /\ UNCHANGED cp /\ fs \in [Paths -> Nodes]
      /\ target \in Paths \ {"from"} /\ cp.child = Self /\ cp \in Copies
      /\ outcome \in Statuses \ {Started}
  BY DEF ClearTarget, Rest, Shape, TypeOK, CopyIsInside, Paths
<1>2. ASSUME NEW n \in Nodes, fs' = [fs EXCEPT ![target] = n], UNCHANGED outcome,
             \/ pc' = pc
             \/ pc' = "mkdir" /\ IsDir(fs["from"])
             \/ pc' \in {"rename", "item"}
      PROVE  Shape'
  <2>1. fs' \in [Paths -> Nodes] /\ fs'["from"] = fs["from"]
    BY <1>1, <1>2
  <2>2. CopyIsInside'
    BY <1>1, <1>2, <2>1 DEF CopyIsInside
  <2>3. QED
    BY <1>1, <1>2, <2>1, <2>2, ShapeStep DEF Labels
<1>3. CASE IsDir(fs[target]) /\ DOMAIN fs[target].kids # {}
  <2>1. PICK c \in DOMAIN fs[target].kids : fs' = [fs EXCEPT ![target] = Drop(@, c)] /\ UNCHANGED <<pc, outcome>>
    BY <1>3 DEF ClearTarget, RemoveTree
  <2>2. Drop(fs[target], c) \in Nodes
    BY <1>1, <1>3, Removal
  <2>3. QED
    BY <1>2, <2>1, <2>2
<1>4. CASE ~(IsDir(fs[target]) /\ DOMAIN fs[target].kids # {})
  <2>1. None \in Nodes
    BY DEF Nodes
  <2>2. QED
    BY <1>2, <1>4, <2>1 DEF ClearTarget, RemoveTree, Goto
<1>5. QED
  BY <1>3, <1>4

\* A step that writes whole trees at some of the paths.
LEMMA ShapeMoved ==
  ASSUME Shape, pc \notin {"idle", "down", "returned"}, UNCHANGED Rest, cp' \in Copies,
         outcome' \in Statuses \ {Started},
         fs' \in [Paths -> Nodes], fs'["from"] = fs["from"] \/ LeftOver(fs'["from"], op.from),
         pc' \in {"unwind", "append", "copied", "delete_source", "renamed", "commit", "backup",
                  "install", "cleanup"}
  PROVE  Shape'
<1>1. CopyIsInside'
  BY DEF CopyIsInside
<1>2. QED
  BY <1>1, ShapeStep DEF Labels

\* Removing the moved source keeps Shape.
LEMMA ShapeDeleteSource == ASSUME Shape, DeleteSource PROVE Shape'
<1>1. /\ pc = "delete_source" /\ UNCHANGED Rest /\ UNCHANGED cp /\ fs \in [Paths -> Nodes]
      /\ cp \in Copies /\ outcome \in Statuses \ {Started} /\ Completed \in Statuses \ {Started}
  BY StatusFacts DEF DeleteSource, Rest, Shape, TypeOK
<1>2. CASE IsDir(fs["from"]) /\ DOMAIN fs["from"].kids # {}
  <2>1. PICK c \in DOMAIN fs["from"].kids : fs' = [fs EXCEPT !["from"] = Drop(@, c)] /\ UNCHANGED <<pc, outcome>>
    BY <1>2 DEF DeleteSource, RemoveTree
  <2>2. Drop(fs["from"], c) \in Nodes /\ LeftOver(Drop(fs["from"], c), op.from)
    BY <1>2, Removal DEF Paths
  <2>3. fs' \in [Paths -> Nodes] /\ LeftOver(fs'["from"], op.from)
    BY <1>1, <2>1, <2>2 DEF Paths
  <2>4. QED
    BY <1>1, <2>1, <2>3, ShapeMoved
<1>3. CASE ~(IsDir(fs["from"]) /\ DOMAIN fs["from"].kids # {})
  <2>1. fs' = [fs EXCEPT !["from"] = None] /\ outcome' = Completed /\ pc' = "append"
    BY <1>3 DEF DeleteSource, RemoveTree, End, Goto
  <2>2. fs' \in [Paths -> Nodes] /\ LeftOver(fs'["from"], op.from)
    BY <1>1, <2>1 DEF Paths, Nodes, LeftOver
  <2>3. QED
    BY <1>1, <2>1, <2>2, ShapeMoved
<1>4. QED
  BY <1>2, <1>3

\* Removing the backup keeps Shape.
LEMMA ShapeRemoveBackup == ASSUME Shape, RemoveBackup PROVE Shape'
<1>1. /\ pc = "cleanup" /\ UNCHANGED Rest /\ UNCHANGED cp /\ fs \in [Paths -> Nodes]
      /\ cp \in Copies /\ outcome \in Statuses \ {Started}
  BY DEF RemoveBackup, Rest, Shape, TypeOK
<1>2. ASSUME NEW n \in Nodes, fs' = [fs EXCEPT !["backup"] = n], UNCHANGED outcome, pc' \in {"cleanup", "copied"}
      PROVE  Shape'
  <2>1. fs' \in [Paths -> Nodes] /\ fs'["from"] = fs["from"]
    BY <1>1, <1>2 DEF Paths
  <2>2. QED
    BY <1>1, <1>2, <2>1, ShapeMoved
<1>3. CASE IsDir(fs["backup"]) /\ DOMAIN fs["backup"].kids # {}
  <2>1. PICK c \in DOMAIN fs["backup"].kids : fs' = [fs EXCEPT !["backup"] = Drop(@, c)] /\ UNCHANGED <<pc, outcome>>
    BY <1>3 DEF RemoveBackup, RemoveTree
  <2>2. Drop(fs["backup"], c) \in Nodes
    BY <1>3, Removal DEF Paths
  <2>3. QED
    BY <1>1, <1>2, <2>1, <2>2
<1>4. CASE ~(IsDir(fs["backup"]) /\ DOMAIN fs["backup"].kids # {})
  <2>1. None \in Nodes
    BY DEF Nodes
  <2>2. QED
    BY <1>2, <1>4, <2>1 DEF RemoveBackup, RemoveTree, Goto
<1>5. QED
  BY <1>3, <1>4

\* The rename, or the copy instead of it, keeps Shape.
LEMMA ShapeRename == ASSUME Shape, Rename PROVE Shape'
<1>1. /\ pc = "rename" /\ UNCHANGED Rest /\ fs \in [Paths -> Nodes] /\ target \in Paths \ {"from"}
      /\ cp \in Copies /\ outcome \in Statuses \ {Started} /\ target \in {"to", "alt", "stage"}
  BY DEF Rename, Rest, Shape, TypeOK, Paths
<1>2. CASE fs' = [fs EXCEPT ![target] = fs["from"], !["from"] = None] /\ pc' = "renamed" /\ UNCHANGED <<cp, outcome>>
  <2>1. fs' \in [Paths -> Nodes] /\ fs'["from"] = None
    BY <1>1, <1>2 DEF Paths, Nodes
  <2>2. QED
    BY <1>1, <1>2, <2>1, ShapeMoved DEF LeftOver
<1>3. CASE StartCopy("Replace", FALSE, TRUE) /\ UNCHANGED fs
  <2>1. cp' \in Copies /\ cp'.child = Self /\ pc' = "copy" /\ outcome' = outcome
    BY <1>1, <1>3 DEF StartCopy, Goto, NoCopy, Copies, Policies
  <2>2. QED
    BY <1>1, <1>3, <2>1, ShapeStep DEF Labels, CopyIsInside
<1>4. QED
  BY <1>2, <1>3 DEF Rename, Goto

\* The other steps that move whole trees, and those that move none.
LEMMA ShapeOthers ==
  ASSUME Shape,
         \/ CollapseSameFile \/ Renamed \/ Copied \/ CommitFile \/ BackUpTarget \/ InstallStage
         \/ Unwind \/ RestoreFails \/ RollbackFails
  PROVE  Shape'
<1>1. /\ fs \in [Paths -> Nodes] /\ cp \in Copies /\ outcome \in Statuses \ {Started}
      /\ target \in Paths \ {"from"} /\ cp.root \in Paths \ {"from"} /\ None \in Nodes
      /\ StopError \in Statuses \ {Started} /\ Completed \in Statuses \ {Started}
      /\ Failed("Permanent") \in Statuses \ {Started}
  BY StopIsNoSuccess, StatusFacts, CopyFields DEF Shape, TypeOK, Paths, Nodes, Classes
<1>2. UNCHANGED Rest /\ UNCHANGED cp
  BY DEF CollapseSameFile, Renamed, Copied, CommitFile, BackUpTarget, InstallStage, Unwind,
         RestoreFails, RollbackFails, Rest
<1>3. pc \notin {"idle", "down", "returned"} /\ outcome' \in Statuses \ {Started}
  BY <1>1 DEF CollapseSameFile, Renamed, Copied, CommitFile, BackUpTarget, InstallStage, Unwind,
         RestoreFails, RollbackFails, Raise, End, Goto
<1>4. pc' \in {"unwind", "append", "copied", "delete_source", "renamed", "install", "cleanup"}
  BY DEF CollapseSameFile, Renamed, Copied, CommitFile, BackUpTarget, InstallStage, Unwind,
         RestoreFails, RollbackFails, Raise, End, Goto
<1>5. fs' \in [Paths -> Nodes] /\ (fs'["from"] = fs["from"] \/ fs'["from"] = None)
  <2>1. CASE CollapseSameFile
    BY <1>1, <2>1 DEF CollapseSameFile, Paths
  <2>2. CASE CommitFile \/ InstallStage
    BY <1>1, <2>2 DEF CommitFile, InstallStage, Paths
  <2>3. CASE BackUpTarget
    BY <1>1, <2>3 DEF BackUpTarget, Paths
  <2>4. CASE Unwind
    BY <1>1, <2>4 DEF Unwind
  <2>5. CASE Renamed \/ Copied \/ RestoreFails \/ RollbackFails
    BY <1>1, <2>5 DEF Renamed, Copied, RestoreFails, RollbackFails
  <2>6. QED
    BY <2>1, <2>2, <2>3, <2>4, <2>5
<1>6. LeftOver(None, op.from)
  BY DEF LeftOver
<1>7. QED
  BY <1>1, <1>2, <1>3, <1>4, <1>5, <1>6, ShapeMoved

\* A failed call and its error path keep Shape.
LEMMA ShapeSystemCallFails ==
  ASSUME Shape, NEW class \in {"Transient", "Permanent"}, SystemCallFails(class)
  PROVE  Shape'
<1>1. /\ fs \in [Paths -> Nodes] /\ cp \in Copies /\ target \in Paths \ {"from"} /\ None \in Nodes
      /\ UNCHANGED Rest /\ Failed(class) \in Statuses \ {Started} /\ NoCopy \in Copies
      /\ pc \notin {"idle", "down", "returned"}
  <2>1. NoCopy \in Copies
    BY DEF NoCopy, Copies, Policies
  <2>2. fs \in [Paths -> Nodes] /\ cp \in Copies /\ target \in Paths \ {"from"} /\ None \in Nodes
    BY DEF Shape, TypeOK, Paths, Nodes
  <2>3. Failed(class) \in Statuses \ {Started}
    BY StatusFacts DEF Classes
  <2>4. UNCHANGED Rest /\ pc \notin {"idle", "down", "returned"}
    BY DEF SystemCallFails, Rest
  <2>5. QED
    BY <2>1, <2>2, <2>3, <2>4
<1>2. pc' \in {"append", "unwind"} /\ outcome' = Failed(class) /\ cp' \in {cp, NoCopy} /\ (pc # "begin" => cp' = cp /\ pc' = "unwind")
  BY DEF SystemCallFails, Raise, End, Goto
<1>3. CASE pc \in {"bytes", "write"}
  <2>1. fs' = [fs EXCEPT ![cp.root] = Drop(@, cp.child)]
    BY <1>3 DEF SystemCallFails
  <2>2. QED
    BY <1>1, <1>2, <1>3, <2>1, ShapeItemRemoved
<1>4. CASE pc \notin {"bytes", "write"}
  <2>1. fs' = [fs EXCEPT ![target] = fs["backup"], !["backup"] = None] \/ fs' = fs
    BY <1>4 DEF SystemCallFails
  <2>2. fs' \in [Paths -> Nodes] /\ fs'["from"] = fs["from"]
    BY <1>1, <2>1 DEF Paths
  <2>3. QED
    BY <1>1, <1>2, <2>2, ShapeMoved
<1>5. QED
  BY <1>3, <1>4

\* The beginning of an attempt keeps Shape.
LEMMA ShapeBegin == ASSUME Shape, Begin PROVE Shape'
<1>1. /\ fs \in [Paths -> Nodes] /\ NoCopy \in Copies /\ NoCopy.child = Self /\ None \in Nodes
      /\ pc = "begin" /\ UNCHANGED <<op, journal, target, ctx, control>> /\ cp' = NoCopy
      /\ orphans \subseteq Nodes \ {None} /\ outcome \in Statuses \ {Started}
  BY DEF Begin, Shape, TypeOK, Nodes, NoCopy, Copies, Policies
<1>2. /\ fs' \in [Paths -> Nodes] /\ fs'["from"] = fs["from"] /\ orphans' \subseteq Nodes \ {None}
  BY <1>1 DEF Begin, Sweep, Paths
<1>3. Skipped \in Statuses \ {Started} /\ Cancelled \in Statuses \ {Started} /\ Failed("MissingFile") \in Statuses \ {Started}
  BY StatusFacts DEF Classes
<1>4. pc' \in {"append", "apply"} /\ outcome' \in Statuses \ {Started}
  BY <1>1, <1>3 DEF Begin, End, Goto
<1>5. TypeOK'
  BY <1>1, <1>2, <1>4 DEF Shape, TypeOK, Labels
<1>6. AttemptIsStarted' /\ SourceIsOriginal'
  BY <1>1, <1>2 DEF Shape, AttemptIsStarted, SourceIsOriginal
<1>7. CopyIsInside'
  BY <1>1, <1>4 DEF CopyIsInside
<1>8. QED
  BY <1>5, <1>6, <1>7 DEF Shape

\* The journal at the beginning and the end of an attempt.
LEMMA ShapeJournal ==
  ASSUME Shape,
         \/ Accept \/ AppendOutcome \/ Retry \/ GiveUp \/ AppendFails
         \/ \E r \in BOOLEAN, m \in {1, MaxAttempts} : Recover(r, m)
         \/ Crash \/ \E flag \in {"cancel", "pause"} : RequestStop(flag)
  PROVE  Shape'
<1>1. /\ fs \in [Paths -> Nodes] /\ NoCopy \in Copies /\ journal \in Seq(Statuses)
      /\ outcome \in Statuses \ {Started} /\ {Completed, Failed("Permission")} \subseteq Statuses \ {Started}
      /\ Started \in Statuses /\ cp \in Copies /\ pc \in Labels /\ control \subseteq {"cancel", "pause"}
  BY StatusFacts DEF Shape, TypeOK, NoCopy, Copies, Policies, Classes
<1>2. UNCHANGED <<op, fs, orphans>>
  BY DEF Accept, AppendOutcome, Retry, GiveUp, AppendFails, Recover, Crash, RequestStop
<1>3. ctx' \in Contexts
  BY ContextFacts DEF Shape, TypeOK, Accept, AppendOutcome, Retry, GiveUp, AppendFails, Recover, Crash, RequestStop
<1>4. cp' \in Copies /\ outcome' \in Statuses \ {Started} /\ control' \subseteq {"cancel", "pause"}
  BY <1>1 DEF Accept, AppendOutcome, Retry, GiveUp, AppendFails, Recover, Crash, RequestStop, End
<1>5. target' \in {"to", "alt"}
  BY DEF Shape, TypeOK, Accept, AppendOutcome, Retry, GiveUp, AppendFails, Recover, Crash, RequestStop
<1>6. pc' \in {"idle", "down", "returned", "begin", "append"} \/ (UNCHANGED <<pc, cp, journal>>)
  BY DEF Accept, AppendOutcome, Retry, GiveUp, AppendFails, Recover, Crash, RequestStop, End, Goto
<1>7. journal' \in Seq(Statuses) /\ AttemptIsStarted'
  <2>1. CASE Accept
    <3>1. journal' = Append(<<>>, Started)
      BY <2>1 DEF Accept
    <3>2. <<>> \in Seq(Statuses)
      OBVIOUS
    <3>3. QED
      BY <1>1, <3>1, <3>2, LastEntry DEF AttemptIsStarted
  <2>2. CASE AppendOutcome
    BY <1>1, <2>2, LastEntry DEF AppendOutcome, AttemptIsStarted, Goto
  <2>3. CASE Retry \/ \E r \in BOOLEAN, m \in {1, MaxAttempts} : Recover(r, m)
    <3>1. journal' = Restarted /\ journal # <<>>
      BY <2>3 DEF Retry, Recover, recoverable_operations
    <3>2. QED
      BY <1>1, <3>1, LastEntry DEF Restarted, AttemptIsStarted
  <2>4. CASE GiveUp \/ AppendFails \/ Crash \/ \E flag \in {"cancel", "pause"} : RequestStop(flag)
    BY <1>1, <2>4 DEF GiveUp, AppendFails, Crash, RequestStop, AttemptIsStarted, Shape, Goto
  <2>5. QED
    BY <2>1, <2>2, <2>3, <2>4
<1>8. CopyIsInside'
  BY <1>2, <1>6 DEF Shape, CopyIsInside, AtChild
<1>9. TypeOK'
  BY <1>1, <1>2, <1>3, <1>4, <1>5, <1>6, <1>7 DEF Shape, TypeOK, Labels
<1>10. QED
  BY <1>2, <1>7, <1>8, <1>9 DEF Shape, SourceIsOriginal

\* Shape holds before the operation is accepted.
LEMMA ShapeInit == Init => Shape
<1> SUFFICES ASSUME Init PROVE Shape
  OBVIOUS
<1>1. op \in Configs /\ op.from \in Whole /\ op.to \in Whole \cup {None}
  BY ConfigFacts DEF Init
<1>2. op.from \in Nodes /\ op.to \in Nodes /\ None \in Nodes
  BY <1>1, WholeFacts DEF Nodes
<1>3. fs \in [Paths -> Nodes] /\ fs["from"] = op.from
  BY <1>2 DEF Init, Paths
<1>4. Completed \in Statuses \ {Started} /\ <<>> \in Seq(Statuses)
  BY StatusFacts
<1>5. NoCopy \in Copies /\ RecoveryContext \in Contexts
  BY DEF NoCopy, Copies, RecoveryContext, Contexts, Policies, Verifications
<1>6. TypeOK
  BY <1>3, <1>4, <1>5 DEF Init, TypeOK, Labels
<1>7. QED
  BY <1>3, <1>6 DEF Init, Shape, AttemptIsStarted, SourceIsOriginal, CopyIsInside

\* Every step keeps Shape.
LEMMA ShapeNext == ASSUME Shape, [Next]_vars PROVE Shape'
<1>1. CASE UNCHANGED vars
  BY <1>1 DEF Shape, TypeOK, AttemptIsStarted, SourceIsOriginal, CopyIsInside, AtChild, vars
<1>2. CASE Next
  BY <1>2, ShapeApply, ShapeCopyPath, ShapeMakeDirectory, ShapeChildren, ShapeExistingItem,
     ShapeFinishItem, ShapeCopyItem, ShapeLoopCheck, ShapeWriteChunk, ShapeClearTarget,
     ShapeDeleteSource, ShapeRemoveBackup, ShapeRename, ShapeOthers, ShapeSystemCallFails,
     ShapeBegin, ShapeJournal DEF Next, Engine
<1>3. QED
  BY <1>1, <1>2

\* Shape is an invariant: whatever stops, fails or is replayed, the engine is in an
\* attempt that is journaled as started, its source is the original or what a
\* removal has left of it, and its copy works inside the trees it found.
THEOREM ShapeInvariance == Spec => []Shape
<1>1. Init => Shape
  BY ShapeInit
<1>2. Shape /\ [Next]_vars => Shape'
  BY ShapeNext
<1>3. QED
  BY <1>1, <1>2, PTL DEF Spec

\* The variables keep the values of TypeOK: no step of the engine writes a child
\* into what is not a directory, or an item that the source does not have.
THEOREM TypeCorrect == Spec => []TypeOK
<1>1. Shape => TypeOK
  BY DEF Shape
<1>2. QED
  BY <1>1, ShapeInvariance, PTL

\* A step from an operation that is over changes neither a file nor the journal.
LEMMA EndedStep ==
  ASSUME Shape, [Next]_vars, journal # <<>>, Last(journal) \in {Completed, Skipped, Cancelled}
  PROVE  UNCHANGED <<fs, journal>>
<1>1. Last(journal) # Started /\ Last(journal) # Paused /\ Last(journal) # Failed("Transient")
  BY StatusFacts DEF Classes
<1>2. pc \in {"idle", "down", "returned"}
  BY <1>1 DEF Shape, AttemptIsStarted
<1>3. \A r, m : ~recoverable_operations(r, m)
  BY <1>1 DEF recoverable_operations
<1>4. CASE UNCHANGED vars
  BY <1>4 DEF vars
<1>5. CASE GiveUp \/ Crash \/ \E flag \in {"cancel", "pause"} : RequestStop(flag)
  BY <1>5 DEF GiveUp, Crash, RequestStop
<1>6. ~Accept /\ ~Retry /\ ~(\E r \in BOOLEAN, m \in {1, MaxAttempts} : Recover(r, m))
  BY <1>3 DEF Accept, Retry, Recover
<1>7. /\ ~Begin /\ ~Apply /\ ~ClearTarget /\ ~Rename /\ ~CollapseSameFile /\ ~Renamed /\ ~DeleteSource
      /\ ~CopyPath /\ ~MakeDirectory /\ ~Children /\ ~ExistingItem /\ ~CopyItem /\ ~LoopCheck
      /\ ~WriteChunk /\ ~FinishItem /\ ~Copied /\ ~CommitFile /\ ~BackUpTarget /\ ~InstallStage
      /\ ~RemoveBackup /\ ~Unwind /\ ~AppendOutcome /\ ~RestoreFails /\ ~RollbackFails
      /\ ~AppendFails /\ \A class : ~SystemCallFails(class)
  BY <1>2 DEF Begin, Apply, ClearTarget, Rename, CollapseSameFile, Renamed, DeleteSource, CopyPath,
     MakeDirectory, Children, ExistingItem, CopyItem, LoopCheck, WriteChunk, FinishItem, Copied,
     CommitFile, BackUpTarget, InstallStage, RemoveBackup, Unwind, AppendOutcome, RestoreFails,
     RollbackFails, AppendFails, SystemCallFails
<1>8. QED
  BY <1>4, <1>5, <1>6, <1>7 DEF Next, Engine

\* A completed, skipped or cancelled operation is over: no retry or recovery
\* (operator.rs retry_failed_by_id, recover_with_policy) and no step of an attempt that
\* is still running touches a file or the journal after that entry.
THEOREM EndFinal == Spec => EndIsFinal
<1>1. Shape /\ [Next]_vars =>
        [(journal # <<>> /\ LastStatus \in {Completed, Skipped, Cancelled})
           => UNCHANGED <<fs, journal>>]_vars
  BY EndedStep DEF LastStatus
<1>2. QED
  BY <1>1, ShapeInvariance, PTL DEF Spec, EndIsFinal

-----------------------------------------------------------------------------
(***************************************************************************)
(* The user's data.  What the engine may do at a place depends on what is  *)
(* left of the source there: once a removal has begun, the destination is  *)
(* complete, and every later attempt only compares, until the source is    *)
(* gone.  That a comparison tells a complete destination from an old one   *)
(* is ComparisonTells, the hypothesis of the two theorems below.           *)
(***************************************************************************)

\* The places at which the engine writes to the destination.
Writing == {"clear", "rename", "same_file", "item", "bytes", "write", "finish", "commit",
            "backup", "install", "cleanup"}
AtItem == {"existing", "item", "bytes", "write", "finish"}
Copying == AtItem \cup {"copy", "mkdir", "children", "copied", "commit", "backup", "install", "cleanup"}

Good(p) == Holds(fs[p], op.from)
Finished == Good(target) /\ (op.kind = "move" => ~Exists(fs["from"]))

\* Nothing has been done yet.
Untouched == fs["from"] = op.from /\ fs["to"] = op.to /\ fs["alt"] = None

\* The attempt writes nothing to the destination, and its end removes nothing there.
Comparing ==
  /\ pc \notin Writing
  /\ pc \in {"begin", "apply"} => ctx.resuming
  /\ pc = "copy" => cp.resuming
  /\ pc \in {"mkdir", "children", "existing"} => cp.mode = "Resume" /\ cp.root = target
  /\ cp.created => cp.root = "stage"

TreesAreMixed == \A p \in Paths \ {"from"} : Mixed(fs[p], op.from, op.to)

SourceIsKept ==
  fs["from"] = op.from \/ (op.kind = "move" /\ Good(target) /\ Comparing)

FirstAttempt ==
  /\ journal = <<>> => pc = "idle" /\ Untouched
  /\ pc \in {"begin", "apply"} /\ ~ctx.resuming => Untouched
  /\ op.alias /\ HasTarget /\ (pc = "rename" \/ (pc = "copy" /\ ~cp.resuming)) => Good(target)

\* The record of the copy.
CopyRecord ==
  /\ pc \in {"apply", "clear", "rename", "same_file", "renamed", "delete_source", "copy", "mkdir",
             "copied", "commit", "backup", "install", "cleanup"} => ~cp.created
  /\ pc \in AtItem /\ cp.child = Self => ~cp.created
  /\ pc \in Copying => (cp.delete_source <=> op.kind = "move")
  /\ pc = "clear" /\ op.kind = "copy" => ~cp.delete_source /\ cp.root = target
  /\ pc \in AtItem \cup {"mkdir", "children"} => cp.root \in {target, "stage"}

\* How far the copy is.
CopyProgress ==
  /\ pc \in {"apply", "copy"} => Exists(fs["from"])
  /\ pc \in AtItem \ {"finish"} /\ cp.child = Self => NonDir(fs["from"])
  /\ pc = "children" => CopiedBut(fs[cp.root], op.from, cp.todo)
  /\ pc \in {"existing", "item", "bytes", "write"} /\ cp.child # Self =>
       CopiedBut(fs[cp.root], op.from, cp.todo \cup {cp.child})
  /\ pc = "finish" /\ cp.child # Self => CopiedBut(fs[cp.root], op.from, cp.todo)
  /\ pc = "finish" /\ cp.child = Self => Good(cp.root)
  /\ pc = "existing" => Exists(Destination)
  /\ pc \in {"bytes", "write"} => Source.kind = "file" /\ Destination \in {Source, PartOf(Source)}
  /\ pc \in {"commit", "backup", "install"} => Good("stage")
  /\ pc \in {"copied", "cleanup", "delete_source", "same_file"} => Good(target)

EndIsDone ==
  /\ pc \in {"rename", "same_file", "renamed", "delete_source"} => op.kind = "move"
  /\ pc = "renamed" => Finished
  /\ pc = "append" /\ outcome = Completed => Finished
  /\ pc = "unwind" => outcome # Completed
  /\ journal # <<>> /\ Last(journal) = Completed => Finished

Safe ==
  /\ ctx.verify # "None"
  /\ TreesAreMixed
  /\ SourceIsKept
  /\ FirstAttempt
  /\ CopyRecord
  /\ CopyProgress
  /\ EndIsDone

\* The paths that the engine and its copy use are distinct.
LEMMA EnginePlaces ==
  ASSUME Shape
  PROVE  /\ target \in Paths \ {"from", "stage", "backup"} /\ cp.root \in Paths \ {"from", "backup"}
         /\ fs \in [Paths -> Nodes] /\ cp \in Copies /\ op.from \in Whole /\ Exists(op.from)
         /\ cp.child \in Names \cup {Self}
<1>1. op.from \in Whole
  BY SourceFacts
<1>2. QED
  BY <1>1, WholeFacts, CopyFields DEF Shape, TypeOK, Paths

\* The source is whole wherever the engine writes.
LEMMA WholeSource ==
  ASSUME Shape, Safe, \/ pc \in Writing
                      \/ pc = "copy" /\ ~cp.resuming
                      \/ pc = "copy" /\ ~HasTarget
                      \/ pc \in {"mkdir", "children"} /\ cp.mode # "Resume"
                      \/ pc \in {"begin", "apply"} /\ ~ctx.resuming
                      \/ pc = "apply" /\ ~HasTarget
  PROVE  fs["from"] = op.from
<1>1. op.from \in Whole /\ fs[target] \in Nodes
  BY EnginePlaces
<1>2. ~HasTarget => ~Good(target)
  BY <1>1, HoldsFacts DEF HasTarget, Good
<1>3. QED
  BY <1>2 DEF Safe, SourceIsKept, Comparing

\* A step that stays in the attempt.
LEMMA SafeStep ==
  ASSUME Shape, Safe, UNCHANGED Rest, pc \notin {"idle", "down", "returned"},
         pc' \notin {"begin", "apply", "rename", "copy"},
         TreesAreMixed', SourceIsKept', CopyRecord', CopyProgress',
         pc' \in {"same_file", "renamed", "delete_source"} => op.kind = "move",
         pc' = "renamed" => Finished', pc' = "append" /\ outcome' = Completed => Finished',
         pc' = "unwind" => outcome' # Completed
  PROVE  Safe'
<1>1. journal # <<>> /\ Last(journal) # Completed
  BY StatusFacts DEF Shape, AttemptIsStarted
<1>2. FirstAttempt'
  BY <1>1 DEF FirstAttempt, Rest
<1>3. EndIsDone'
  BY <1>1 DEF EndIsDone, Rest
<1>4. QED
  BY <1>2, <1>3 DEF Safe, Rest

\* An early return keeps Safe.
LEMMA SafeLeaves == ASSUME Shape, Safe, Leaves, pc \notin {"idle", "down", "returned"} PROVE Safe'
<1>1. UNCHANGED Rest /\ fs' = fs /\ cp' = cp /\ pc' = "unwind" /\ outcome' # Completed
  BY DEF Leaves, Rest
<1>2. TreesAreMixed' /\ SourceIsKept'
  BY <1>1 DEF Safe, TreesAreMixed, SourceIsKept, Comparing, Writing, Good, Rest
<1>3. CopyRecord' /\ CopyProgress'
  BY <1>1 DEF CopyRecord, CopyProgress, AtItem, Copying
<1>4. QED
  BY <1>1, <1>2, <1>3, SafeStep

\* A first attempt finds the second name of an aliased source as it was.
LEMMA AliasIsGood ==
  ASSUME Shape, Untouched, op.alias, HasTarget
  PROVE  Good(target)
<1>1. target \in {"to", "alt"} /\ op.to = op.from /\ op.from \in Whole
  BY ConfigFacts DEF Shape, TypeOK
<1>2. fs[target] = op.from
  BY <1>1 DEF Untouched, HasTarget, Exists
<1>3. Holds(op.from, op.from)
  <2>1. op.from \in Nodes
    BY <1>1, WholeFacts
  <2>2. QED
    BY <1>1, <2>1, HoldsFacts
<1>4. QED
  BY <1>2, <1>3 DEF Good

\* Starting a copy: of a whole source, or to compare what is left of it.
LEMMA SafeStartCopy ==
  ASSUME Shape, Safe, UNCHANGED Rest, fs' = fs, pc \in {"apply", "rename"},
         NEW conflict, NEW resuming \in BOOLEAN, NEW delete_source \in BOOLEAN,
         StartCopy(conflict, resuming, delete_source), delete_source <=> op.kind = "move",
         fs["from"] # op.from => resuming,
         op.alias /\ HasTarget /\ ~resuming => Good(target)
  PROVE  Safe'
<1>1. /\ pc' = "copy" /\ outcome' = outcome
      /\ cp'.resuming = resuming /\ cp'.delete_source = delete_source /\ ~cp'.created
  BY DEF StartCopy, NoCopy, Goto
<1>2. Exists(fs["from"])
  <2>1. CASE pc = "apply"
    BY <2>1 DEF Safe, CopyProgress
  <2>2. CASE pc = "rename"
    BY <2>2, WholeSource, EnginePlaces DEF Writing
  <2>3. QED
    BY <2>1, <2>2
<1>3. TreesAreMixed'
  BY DEF Safe, TreesAreMixed, Rest
<1>4. SourceIsKept'
  BY <1>1 DEF Safe, SourceIsKept, Comparing, Writing, Good, Rest
<1>5. journal # <<>> /\ Last(journal) # Completed
  BY StatusFacts DEF Shape, AttemptIsStarted
<1>6. FirstAttempt'
  BY <1>1, <1>5 DEF FirstAttempt, Rest, HasTarget, Good
<1>7. CopyRecord'
  BY <1>1 DEF CopyRecord, AtItem, Copying, Rest
<1>8. CopyProgress'
  BY <1>1, <1>2 DEF CopyProgress, AtItem
<1>9. EndIsDone'
  BY <1>1, <1>5 DEF EndIsDone, Rest
<1>10. QED
  BY <1>3, <1>4, <1>6, <1>7, <1>8, <1>9 DEF Safe, Rest

\* Choosing between rename and copy keeps Safe.
LEMMA SafeApply == ASSUME Shape, Safe, Apply PROVE Safe'
<1>1. pc = "apply" /\ fs' = fs /\ UNCHANGED Rest
  BY DEF Apply, Rest
<1>2. CASE Leaves
  BY <1>1, <1>2, SafeLeaves
<1>3. Raise(StopError) /\ UNCHANGED cp => Leaves
  BY <1>1, RaiseLeaves DEF Rest
<1>4. Raise(Failed("Permanent")) /\ UNCHANGED cp => Leaves
  BY <1>1, RaiseLeaves DEF Rest, Classes
<1>5. /\ fs["from"] # op.from => ctx.resuming /\ HasTarget
      /\ op.alias /\ HasTarget /\ ~ctx.resuming => Good(target)
      /\ ctx.resuming \in BOOLEAN
  <2>1. ~ctx.resuming => Untouched
    BY <1>1 DEF Safe, FirstAttempt
  <2>2. QED
    BY <1>1, <2>1, WholeSource, AliasIsGood, ContextFacts DEF Shape
<1>6. ASSUME op.kind = "copy", StartCopy(ctx.conflict, ctx.resuming, FALSE) PROVE Safe'
  BY <1>1, <1>5, <1>6, SafeStartCopy
<1>7. ASSUME op.kind = "move", ctx.resuming, StartCopy("Replace", TRUE, TRUE) PROVE Safe'
  BY <1>1, <1>5, <1>7, SafeStartCopy
<1>8. ASSUME op.kind = "move", ~ctx.resuming, StartCopy("Merge", FALSE, TRUE) PROVE Safe'
  BY <1>1, <1>5, <1>8, SafeStartCopy
<1>9. ASSUME op.kind = "move", pc' \in {"rename", "clear", "same_file"}, UNCHANGED <<outcome, cp>>,
             ~HasTarget \/ ~ctx.resuming, pc' = "rename" /\ HasTarget => ~op.alias,
             pc' = "same_file" => op.alias /\ HasTarget
      PROVE  Safe'
  <2>1. fs["from"] = op.from
    BY <1>5, <1>9
  <2>2. TreesAreMixed' /\ SourceIsKept'
    BY <1>1, <2>1 DEF Safe, TreesAreMixed, SourceIsKept, Rest
  <2>3. journal # <<>> /\ Last(journal) # Completed
    BY <1>1, StatusFacts DEF Shape, AttemptIsStarted
  <2>4. FirstAttempt'
    BY <1>1, <1>9, <2>3 DEF FirstAttempt, Rest, HasTarget
  <2>5. CopyRecord'
    BY <1>1, <1>9 DEF Safe, CopyRecord, AtItem, Copying, Rest
  <2>6. CopyProgress'
    BY <1>1, <1>5, <1>9 DEF CopyProgress, AtItem, Rest, Good
  <2>7. EndIsDone'
    BY <1>1, <1>9, <2>3 DEF EndIsDone, Rest
  <2>8. QED
    BY <1>1, <2>2, <2>4, <2>5, <2>6, <2>7 DEF Safe, Rest
<1>10. QED
  BY <1>2, <1>3, <1>4, <1>6, <1>7, <1>8, <1>9 DEF Apply, Goto

\* Removing a destination of another sort keeps Safe: the source is whole.
LEMMA SafeClearTarget == ASSUME Shape, Safe, ClearTarget PROVE Safe'
<1>1. /\ pc = "clear" /\ UNCHANGED Rest /\ cp' = cp /\ cp.child = Self
      /\ fs["from"] = op.from /\ op.kind \in {"copy", "move"}
  <2>1. op.kind \in {"copy", "move"}
    BY ConfigFacts DEF Shape, TypeOK, Kinds
  <2>2. QED
    BY <2>1, WholeSource DEF ClearTarget, Rest, Writing, Shape, CopyIsInside
<1>2. ASSUME NEW n, Mixed(n, op.from, op.to), fs' = [fs EXCEPT ![target] = n], UNCHANGED outcome,
             \/ pc' = pc
             \/ pc' = "mkdir" /\ op.kind = "copy"
             \/ pc' = "rename" /\ op.kind = "move" /\ n = None
             \/ pc' = "item" /\ op.kind = "copy" /\ ~IsDir(fs["from"])
      PROVE  Safe'
  <2>1. fs'["from"] = op.from /\ fs'[target] = n
    BY <1>1, <1>2, EnginePlaces
  <2>2. TreesAreMixed'
    BY <1>1, <1>2, EnginePlaces DEF Safe, TreesAreMixed, Rest
  <2>3. SourceIsKept'
    BY <1>1, <2>1 DEF SourceIsKept, Rest
  <2>4. journal # <<>> /\ Last(journal) # Completed
    BY <1>1, StatusFacts DEF Shape, AttemptIsStarted
  <2>5. FirstAttempt'
    BY <1>1, <1>2, <2>1, <2>4 DEF FirstAttempt, HasTarget, Rest, Exists
  <2>6. CopyRecord'
    BY <1>1, <1>2 DEF Safe, CopyRecord, AtItem, Copying, Rest
  <2>7. NonDir(op.from) \/ IsDir(op.from)
    BY EnginePlaces, WholeFacts
  <2>8. CopyProgress'
    BY <1>1, <1>2, <2>1, <2>7 DEF CopyProgress, AtItem
  <2>9. EndIsDone'
    BY <1>1, <1>2, <2>4 DEF EndIsDone, Rest
  <2>10. QED
    BY <1>1, <2>2, <2>3, <2>5, <2>6, <2>8, <2>9 DEF Safe, Rest
<1>3. CASE IsDir(fs[target]) /\ DOMAIN fs[target].kids # {}
  <2>1. PICK c \in DOMAIN fs[target].kids : fs' = [fs EXCEPT ![target] = Drop(@, c)] /\ UNCHANGED <<pc, outcome>>
    BY <1>3 DEF ClearTarget, RemoveTree
  <2>0. target \in Paths /\ fs[target] \in Nodes /\ op.from \in Whole
    BY EnginePlaces
  <2>2. c \in Names
    BY <1>3, <2>0, Removal
  <2>3. Mixed(fs[target], op.from, op.to)
    BY EnginePlaces DEF Safe, TreesAreMixed
  <2>4. Mixed(Drop(fs[target], c), op.from, op.to)
    BY <1>3, <2>0, <2>2, <2>3, MixedDrop
  <2>5. QED
    BY <1>2, <2>1, <2>4
<1>4. CASE ~(IsDir(fs[target]) /\ DOMAIN fs[target].kids # {})
  <2>1. Mixed(None, op.from, op.to)
    BY DEF Mixed
  <2>2. QED
    BY <1>1, <1>2, <1>4, <2>1 DEF ClearTarget, RemoveTree, Goto
<1>5. QED
  BY <1>3, <1>4

\* The whole source holds itself, at any place.
LEMMA WholeIsGood == ASSUME Shape PROVE Holds(op.from, op.from) /\ Mixed(op.from, op.from, op.to)
<1>1. op.from \in Whole /\ op.from \in Nodes
  BY EnginePlaces, WholeFacts
<1>2. Holds(op.from, op.from)
  BY <1>1, HoldsFacts
<1>3. Mixed(op.from, op.from, op.to)
  BY <1>1, MixedFacts
<1>4. QED
  BY <1>2, <1>3

\* The rename keeps Safe: the source arrives in one step.
LEMMA SafeRename == ASSUME Shape, Safe, Rename PROVE Safe'
<1>1. pc = "rename" /\ UNCHANGED Rest /\ fs["from"] = op.from /\ op.kind = "move" /\ ~cp.created
  BY WholeSource DEF Rename, Rest, Writing, Safe, EndIsDone, CopyRecord
<1>2. CASE fs' = [fs EXCEPT ![target] = fs["from"], !["from"] = None] /\ pc' = "renamed" /\ UNCHANGED <<cp, outcome>>
  <2>1. fs'[target] = op.from /\ fs'["from"] = None /\ \A p \in Paths \ {target, "from"} : fs'[p] = fs[p]
    BY <1>1, <1>2, EnginePlaces DEF Paths
  <2>2. Finished'
    BY <1>1, <2>1, WholeIsGood DEF Finished, Good, Rest, Exists
  <2>3. TreesAreMixed'
    BY <1>1, <2>1, WholeIsGood DEF Safe, TreesAreMixed, Rest
  <2>4. SourceIsKept'
    BY <1>1, <1>2, <2>2 DEF SourceIsKept, Finished, Comparing, Writing, Rest
  <2>5. CopyRecord' /\ CopyProgress'
    BY <1>1, <1>2 DEF CopyRecord, CopyProgress, AtItem, Copying
  <2>6. QED
    BY <1>1, <1>2, <2>2, <2>3, <2>4, <2>5, SafeStep
<1>3. CASE StartCopy("Replace", FALSE, TRUE) /\ UNCHANGED fs
  <2>1. op.alias /\ HasTarget => Good(target)
    BY <1>1 DEF Safe, FirstAttempt
  <2>2. QED
    BY <1>1, <1>3, <2>1, SafeStartCopy
<1>4. QED
  BY <1>2, <1>3 DEF Rename, Goto

\* Removing one of two names of a file keeps Safe.
LEMMA SafeCollapseSameFile == ASSUME Shape, Safe, CollapseSameFile PROVE Safe'
<1>1. /\ pc = "same_file" /\ UNCHANGED Rest /\ cp' = cp /\ op.kind = "move" /\ ~cp.created /\ pc' = "renamed"
      /\ fs' = [fs EXCEPT !["from"] = None] /\ Good(target)
  BY DEF CollapseSameFile, Rest, Goto, Safe, EndIsDone, CopyRecord, CopyProgress
<1>2. fs'["from"] = None /\ \A p \in Paths \ {"from"} : fs'[p] = fs[p]
  BY <1>1, EnginePlaces DEF Paths
<1>3. Finished'
  BY <1>1, <1>2, EnginePlaces DEF Finished, Good, Rest, Exists
<1>4. TreesAreMixed'
  BY <1>1, <1>2 DEF Safe, TreesAreMixed, Rest
<1>5. SourceIsKept'
  BY <1>1, <1>3 DEF SourceIsKept, Finished, Comparing, Writing, Rest
<1>6. CopyRecord' /\ CopyProgress'
  BY <1>1 DEF CopyRecord, CopyProgress, AtItem, Copying
<1>7. QED
  BY <1>1, <1>3, <1>4, <1>5, <1>6, SafeStep

\* The check after the rename keeps Safe.
LEMMA SafeRenamed == ASSUME Shape, Safe, Renamed PROVE Safe'
<1>1. pc = "renamed" /\ UNCHANGED Rest /\ UNCHANGED <<fs, cp>> /\ Finished
  BY DEF Renamed, Rest, Safe, EndIsDone
<1>2. CASE control # {}
  BY <1>1, <1>2, RaiseLeaves, SafeLeaves DEF Renamed, Rest
<1>3. CASE control = {}
  <2>1. pc' = "append"
    BY <1>3 DEF Renamed, End, Goto
  <2>2. Finished'
    BY <1>1 DEF Finished, Good, Rest
  <2>3. TreesAreMixed' /\ SourceIsKept'
    BY <1>1, <2>1 DEF Safe, TreesAreMixed, SourceIsKept, Comparing, Writing, Good, Rest
  <2>4. CopyRecord' /\ CopyProgress'
    BY <2>1 DEF CopyRecord, CopyProgress, AtItem, Copying
  <2>5. QED
    BY <1>1, <2>1, <2>2, <2>3, <2>4, SafeStep
<1>4. QED
  BY <1>2, <1>3

\* Removing the source keeps Safe: it is whole at the destination.
LEMMA SafeDeleteSource == ASSUME Shape, Safe, DeleteSource PROVE Safe'
<1>1. /\ pc = "delete_source" /\ UNCHANGED Rest /\ cp' = cp /\ op.kind = "move" /\ ~cp.created
      /\ Good(target)
  BY DEF DeleteSource, Rest, Safe, EndIsDone, CopyRecord, CopyProgress
<1>2. ASSUME NEW n, fs' = [fs EXCEPT !["from"] = n], pc' \in {"delete_source", "append"},
             pc' = "append" => n = None
      PROVE  Safe'
  <2>1. fs'["from"] = n /\ \A p \in Paths \ {"from"} : fs'[p] = fs[p]
    BY <1>2, EnginePlaces DEF Paths
  <2>2. Good(target)' /\ (pc' = "append" => Finished')
    BY <1>1, <1>2, <2>1, EnginePlaces DEF Finished, Good, Rest, Exists
  <2>3. TreesAreMixed'
    BY <1>1, <2>1 DEF Safe, TreesAreMixed, Rest
  <2>4. SourceIsKept'
    BY <1>1, <1>2, <2>2 DEF SourceIsKept, Comparing, Writing, Rest
  <2>5. CopyRecord' /\ CopyProgress'
    BY <1>1, <1>2, <2>2 DEF CopyRecord, CopyProgress, AtItem, Copying
  <2>6. QED
    BY <1>1, <1>2, <2>2, <2>3, <2>4, <2>5, SafeStep
<1>3. CASE IsDir(fs["from"]) /\ DOMAIN fs["from"].kids # {}
  BY <1>1, <1>2, <1>3 DEF DeleteSource, RemoveTree
<1>4. CASE ~(IsDir(fs["from"]) /\ DOMAIN fs["from"].kids # {})
  BY <1>1, <1>2, <1>4 DEF DeleteSource, RemoveTree, End, Goto
<1>5. QED
  BY <1>3, <1>4

\* The end of a copy keeps Safe.
LEMMA SafeCopied == ASSUME Shape, Safe, Copied PROVE Safe'
<1>1. /\ pc = "copied" /\ UNCHANGED Rest /\ UNCHANGED <<fs, cp>> /\ ~cp.created /\ Good(target)
      /\ cp.delete_source <=> op.kind = "move"
  BY DEF Copied, Rest, Safe, CopyRecord, CopyProgress, Copying
<1>2. IF cp.delete_source THEN pc' = "delete_source" ELSE pc' = "append"
  BY DEF Copied, End, Goto
<1>3. Good(target)' /\ (op.kind # "move" => Finished')
  BY <1>1 DEF Finished, Good, Rest
<1>4. TreesAreMixed' /\ SourceIsKept'
  BY <1>1, <1>2, <1>3 DEF Safe, TreesAreMixed, SourceIsKept, Comparing, Writing, Good, Rest
<1>5. CopyRecord' /\ CopyProgress'
  BY <1>1, <1>2, <1>3 DEF CopyRecord, CopyProgress, AtItem, Copying
<1>6. QED
  BY <1>1, <1>2, <1>3, <1>4, <1>5, SafeStep

\* Choosing the copy algorithm keeps Safe.
LEMMA SafeCopyPath == ASSUME Shape, Safe, CopyPath PROVE Safe'
<1>1. /\ pc = "copy" /\ fs' = fs /\ UNCHANGED Rest /\ cp.child = Self /\ cp \in Copies
      /\ target \in {"to", "alt"} /\ target # "stage" /\ ~cp.created
      /\ cp.delete_source <=> op.kind = "move"
      /\ Exists(fs["from"])
  BY DEF CopyPath, Rest, Shape, TypeOK, CopyIsInside, Safe, CopyRecord, CopyProgress, Copying
<1>2. CASE Leaves
  BY <1>1, <1>2, SafeLeaves
<1>3. Raise(StopError) /\ UNCHANGED cp => Leaves
  BY <1>1, RaiseLeaves DEF Rest
<1>4. Raise(Failed("Permanent")) /\ UNCHANGED cp => Leaves
  BY <1>1, RaiseLeaves DEF Rest, Classes
<1>5. ~IsDir(fs["from"]) => NonDir(fs["from"])
  BY <1>1, SourceFacts
<1>6. ASSUME NEW mode \in {"Fresh", "Merge", "Resume"}, NEW root \in {target, "stage"},
             NEW label \in {"mkdir", "item", "existing", "clear", "finish"},
             cp' = [cp EXCEPT !.mode = mode, !.root = root], pc' = label, UNCHANGED outcome,
             label \in {"item", "existing"} => ~IsDir(fs["from"]),
             label = "existing" => root = target /\ HasTarget,
             label = "clear" => root = target,
             label = "finish" => Good(root),
             fs["from"] = op.from \/ (label \in {"mkdir", "existing"} /\ mode = "Resume" /\ root = target)
      PROVE  Safe'
  <2>1. /\ cp'.child = Self /\ cp'.root = root /\ cp'.mode = mode /\ ~cp'.created
        /\ cp'.delete_source = cp.delete_source
    BY <1>1, <1>6 DEF Copies
  <2>2. TreesAreMixed' /\ SourceIsKept'
    BY <1>1, <1>6, <2>1 DEF Safe, TreesAreMixed, SourceIsKept, Comparing, Writing, Good, Rest
  <2>3. CopyRecord'
    BY <1>1, <1>6, <2>1 DEF CopyRecord, AtItem, Copying, Rest
  <2>4. label = "existing" => Exists(Destination')
    BY <1>1, <1>6, <2>1, ItemFacts DEF HasTarget, Destination
  <2>5. CopyProgress'
    BY <1>1, <1>5, <1>6, <2>1, <2>4 DEF CopyProgress, AtItem, Good, Rest
  <2>6. QED
    BY <1>1, <1>6, <2>2, <2>3, <2>5, SafeStep
<1>7. ~HasTarget \/ ~cp.resuming => fs["from"] = op.from
  BY <1>1, WholeSource
<1>8. op.alias /\ HasTarget /\ ~cp.resuming => Good(target)
  BY <1>1 DEF Safe, FirstAttempt
<1>9. QED
  BY <1>1, <1>2, <1>3, <1>4, <1>6, <1>7, <1>8 DEF CopyPath, Goto

\* Making the directory keeps Safe.
LEMMA SafeMakeDirectory == ASSUME Shape, Safe, MakeDirectory PROVE Safe'
<1>1. /\ pc = "mkdir" /\ UNCHANGED Rest /\ cp.child = Self /\ cp \in Copies /\ IsDir(fs["from"])
      /\ target # "stage" /\ ~cp.created /\ cp.root \in {target, "stage"}
      /\ cp.delete_source <=> op.kind = "move"
  BY DEF MakeDirectory, Rest, Shape, TypeOK, CopyIsInside, Safe, CopyRecord, Copying
<1>2. CASE Leaves
  BY <1>1, <1>2, SafeLeaves
<1>3. Raise(StopError) /\ UNCHANGED <<fs, cp>> => Leaves
  BY <1>1, RaiseLeaves DEF Rest
<1>4. Raise(Failed("Permanent")) /\ UNCHANGED <<fs, cp>> => Leaves
  BY <1>1, RaiseLeaves DEF Rest, Classes
<1>5. IsDir(op.from) /\ op.from \in Whole
  BY <1>1, SourceFacts
<1>6. ASSUME cp.mode = "Fresh", fs' = [fs EXCEPT ![cp.root] = Dir([k \in {} |-> None])],
             cp' = [cp EXCEPT !.todo = DOMAIN fs["from"].kids, !.created = TRUE],
             pc' = "children", UNCHANGED outcome
      PROVE  Safe'
  <2> DEFINE new == Dir([k \in {} |-> None])
  <2>1. IsDir(new) /\ Mixed(new, op.from, op.to)
    BY <1>5, EmptyDir, MixedFacts
  <2>2. fs["from"] = op.from
    BY <1>1, <1>6, WholeSource
  <2>3. /\ cp'.todo = DOMAIN op.from.kids /\ cp'.root = cp.root /\ cp'.child = Self
        /\ cp'.delete_source = cp.delete_source
    BY <1>1, <1>6, <2>2 DEF Copies
  <2>4. fs' = [fs EXCEPT ![cp.root] = new]
    BY <1>6
  <2> HIDE DEF new
  <2>5. fs'[cp.root] = new /\ \A p \in Paths \ {cp.root} : fs'[p] = fs[p]
    BY <2>4, EnginePlaces
  <2>6. fs'["from"] = op.from
    BY <2>2, <2>5, EnginePlaces DEF Paths
  <2>7. TreesAreMixed' /\ SourceIsKept'
    BY <1>1, <2>1, <2>5, <2>6 DEF Safe, TreesAreMixed, SourceIsKept, Rest
  <2>8. CopyRecord'
    BY <1>1, <1>6, <2>3 DEF CopyRecord, AtItem, Copying, Rest
  <2>9. CopiedBut(new, op.from, DOMAIN op.from.kids)
    BY <1>5, <2>1 DEF CopiedBut
  <2>10. CopyProgress'
    BY <1>1, <1>6, <2>3, <2>5, <2>9 DEF CopyProgress, AtItem, Rest
  <2>11. QED
    BY <1>1, <1>6, <2>7, <2>8, <2>10, SafeStep
<1>7. ASSUME IsDir(fs[cp.root]), cp' = [cp EXCEPT !.todo = DOMAIN fs["from"].kids],
             pc' = "children", UNCHANGED <<fs, outcome>>
      PROVE  Safe'
  <2>1. /\ cp'.todo = DOMAIN fs["from"].kids /\ cp'.root = cp.root /\ cp'.child = Self /\ cp'.mode = cp.mode
        /\ cp'.delete_source = cp.delete_source /\ ~cp'.created
    BY <1>1, <1>7 DEF Copies
  <2>2. TreesAreMixed' /\ SourceIsKept'
    BY <1>1, <1>7, <2>1 DEF Safe, TreesAreMixed, SourceIsKept, Comparing, Writing, Good, Rest
  <2>3. CopyRecord'
    BY <1>1, <1>7, <2>1 DEF CopyRecord, AtItem, Copying, Rest
  <2>4. CopiedBut(fs[cp.root], op.from, DOMAIN fs["from"].kids)
    <3>1. CASE fs["from"] = op.from
      BY <1>5, <1>7, <3>1 DEF CopiedBut
    <3>2. CASE fs["from"] # op.from
      <4>1. cp.root = target /\ Good(target)
        BY <1>1, <3>2 DEF Safe, SourceIsKept, Comparing
      <4>2. fs[target] \in Nodes
        BY EnginePlaces
      <4>3. QED
        BY <1>5, <4>1, <4>2, HoldsFacts DEF Good
    <3>3. QED
      BY <3>1, <3>2
  <2>5. CopyProgress'
    BY <1>1, <1>7, <2>1, <2>4 DEF CopyProgress, AtItem, Rest
  <2>6. QED
    BY <1>1, <1>7, <2>2, <2>3, <2>5, SafeStep
<1>8. QED
  BY <1>1, <1>2, <1>3, <1>4, <1>6, <1>7 DEF MakeDirectory, Goto

\* Taking up the next child keeps Safe.
LEMMA SafeChildren == ASSUME Shape, Safe, Children PROVE Safe'
<1>1. /\ pc = "children" /\ fs' = fs /\ UNCHANGED Rest /\ cp.child = Self /\ cp \in Copies /\ AtChild
      /\ target # "stage" /\ cp.root \in {target, "stage"}
      /\ cp.delete_source <=> op.kind = "move"
      /\ CopiedBut(fs[cp.root], op.from, cp.todo)
  BY DEF Children, Rest, Shape, TypeOK, CopyIsInside, Safe, CopyRecord, CopyProgress, Copying
<1>2. CASE Leaves
  BY <1>1, <1>2, SafeLeaves
<1>3. Raise(StopError) /\ UNCHANGED cp => Leaves
  BY <1>1, RaiseLeaves DEF Rest
<1>4. fs[cp.root] \in Nodes /\ op.from \in Whole
  BY EnginePlaces
<1>5. ASSUME cp.todo = {}, cp' = [cp EXCEPT !.created = FALSE],
             pc' = IF cp.root = "stage" THEN "backup" ELSE "copied", UNCHANGED outcome
      PROVE  Safe'
  <2>1. cp'.root = cp.root /\ cp'.child = Self /\ cp'.delete_source = cp.delete_source /\ ~cp'.created
    BY <1>1, <1>5 DEF Copies
  <2>2. Good(cp.root)
    BY <1>1, <1>4, <1>5, HoldsFacts DEF Good
  <2>3. TreesAreMixed' /\ SourceIsKept'
    BY <1>1, <1>5, <2>1 DEF Safe, TreesAreMixed, SourceIsKept, Comparing, Writing, Good, Rest
  <2>4. CopyRecord' /\ CopyProgress'
    BY <1>1, <1>5, <2>1, <2>2 DEF CopyRecord, CopyProgress, AtItem, Copying, Rest, Good
  <2>5. QED
    BY <1>1, <1>5, <2>3, <2>4, SafeStep
<1>6. ASSUME NEW c \in cp.todo, cp' = [cp EXCEPT !.todo = @ \ {c}, !.child = c],
             LET there == Exists(ItemOf(fs[cp.root], c)) IN
             \/ pc' = "unwind" /\ cp.mode # "Resume" /\ outcome' # Completed
             \/ pc' = "existing" /\ there /\ cp.mode = "Resume" /\ UNCHANGED outcome
             \/ pc' = "item" /\ ~(there /\ cp.mode = "Resume") /\ UNCHANGED outcome
      PROVE  Safe'
  <2>1. c \in Names /\ c # Self /\ c \in DOMAIN fs["from"].kids /\ c \in DOMAIN op.from.kids
    BY <1>1, SourceFacts, ConfigsAssumption DEF AtChild
  <2>2. /\ cp'.root = cp.root /\ cp'.child = c /\ cp'.todo = cp.todo \ {c} /\ cp'.mode = cp.mode
        /\ cp'.delete_source = cp.delete_source /\ cp'.created = cp.created
    BY <1>1, <1>6 DEF Copies
  <2>3. fs["from"] # op.from => /\ cp.mode = "Resume" /\ cp.root = target
                                /\ Exists(ItemOf(fs[cp.root], c))
    <3>1. fs["from"] # op.from => cp.mode = "Resume" /\ cp.root = target /\ Good(target)
      BY <1>1 DEF Safe, SourceIsKept, Comparing
    <3>2. IsDir(op.from) /\ op.from.kids[c] \in Files
      BY <1>1, <2>1, SourceFacts DEF AtChild
    <3>3. Good(target) => ItemOf(fs[target], c) = op.from.kids[c]
      BY <2>1, <3>2 DEF Good, Holds
    <3>4. Exists(op.from.kids[c])
      BY <3>2, FileFacts DEF Exists, None
    <3>5. QED
      BY <3>1, <3>3, <3>4
  <2>4. TreesAreMixed'
    BY <1>1 DEF Safe, TreesAreMixed, Rest
  <2>5. SourceIsKept'
    BY <1>1, <1>6, <2>2, <2>3 DEF Safe, SourceIsKept, Comparing, Writing, Good, Rest
  <2>6. CopyRecord'
    BY <1>1, <1>6, <2>1, <2>2 DEF CopyRecord, AtItem, Copying, Rest
  <2>7. (cp.todo \ {c}) \cup {c} = cp.todo
    OBVIOUS
  <2>8. pc' = "existing" => Exists(Destination')
    BY <1>1, <1>6, <2>2 DEF Destination
  <2>9. CopyProgress'
    BY <1>1, <1>6, <2>1, <2>2, <2>7, <2>8 DEF CopyProgress, AtItem, Rest
  <2>10. QED
    BY <1>1, <1>6, <2>4, <2>5, <2>6, <2>9, SafeStep
<1>7. Failed("Permanent") # Completed
  BY StatusFacts DEF Classes
<1>8. QED
  BY <1>2, <1>3, <1>5, <1>6, <1>7 DEF Children, Goto, Raise

\* The item is at the destination: on to the next one, or to the end of the copy.
LEMMA SafeItemDone ==
  ASSUME Shape, Safe, pc \in {"existing", "finish"}, fs' = fs, UNCHANGED Rest, ItemDone,
         cp.child = Self => Good(cp.root),
         cp.child # Self => CopiedBut(fs[cp.root], op.from, cp.todo)
  PROVE  Safe'
<1>1. /\ cp \in Copies /\ target # "stage" /\ cp.root \in {target, "stage"}
      /\ cp.delete_source <=> op.kind = "move"
      /\ cp.child = Self => ~cp.created
  BY DEF Shape, TypeOK, Safe, CopyRecord, AtItem, Copying
<1>2. /\ cp'.child = Self /\ cp'.root = cp.root /\ cp'.todo = cp.todo /\ cp'.mode = cp.mode
      /\ cp'.created = cp.created /\ cp'.delete_source = cp.delete_source
  BY <1>1 DEF ItemDone, Copies
<1>3. /\ pc' = IF cp.child # Self THEN "children" ELSE IF cp.root = "stage" THEN "commit" ELSE "copied"
      /\ outcome' = outcome
  BY DEF ItemDone, Goto
<1>4. TreesAreMixed' /\ SourceIsKept'
  BY <1>1, <1>2, <1>3 DEF Safe, TreesAreMixed, SourceIsKept, Comparing, Writing, Good, Rest
<1>5. CopyRecord'
  BY <1>1, <1>2, <1>3 DEF CopyRecord, AtItem, Copying, Rest
<1>6. CopyProgress'
  BY <1>1, <1>2, <1>3 DEF CopyProgress, AtItem, Rest, Good
<1>7. QED
  BY <1>3, <1>4, <1>5, <1>6, SafeStep

\* The item of the source that is being copied is one of the tree the operation found.
LEMMA OriginalItem ==
  ASSUME Shape, Safe, pc \in AtItem \ {"finish"}
  PROVE  /\ Source = ItemOf(op.from, cp.child) /\ NonDir(Source)
         /\ cp.child = Self => Source = op.from /\ NonDir(op.from) /\ ~IsDir(op.from)
         /\ cp.child # Self => /\ IsDir(op.from) /\ cp.child \in DOMAIN op.from.kids
                               /\ Source = op.from.kids[cp.child] /\ Source \in Files
                               /\ cp.child \in Names /\ IsDir(fs[cp.root])
<1>1. CASE cp.child = Self
  <2>1. NonDir(fs["from"]) /\ Source = fs["from"]
    BY <1>1, ItemShape DEF Safe, CopyProgress, AtItem
  <2>2. Exists(fs["from"]) /\ ~IsDir(fs["from"])
    BY <2>1 DEF NonDir, IsDir, Exists, None
  <2>3. fs["from"] = op.from
    BY <2>2, SourceFacts
  <2>4. QED
    BY <1>1, <2>1, <2>2, <2>3, ItemFacts
<1>2. CASE cp.child # Self
  <2>1. /\ cp.child \in Names /\ Source = op.from.kids[cp.child] /\ Source \in Files
        /\ IsDir(fs[cp.root])
    BY <1>2, ItemShape DEF AtItem
  <2>2. AtChild /\ cp.child \in DOMAIN fs["from"].kids
    BY <1>2 DEF Shape, CopyIsInside, AtItem
  <2>3. IsDir(op.from) /\ cp.child \in DOMAIN op.from.kids
    BY <2>2, SourceFacts DEF AtChild
  <2>4. NonDir(Source)
    BY <2>1, FileFacts DEF NonDir
  <2>5. ItemOf(op.from, cp.child) = op.from.kids[cp.child]
    BY <2>1, <2>3, ItemFacts
  <2>6. QED
    BY <1>2, <2>1, <2>3, <2>4, <2>5
<1>3. QED
  BY <1>1, <1>2

\* The item as it is at the destination completes the copy.
LEMMA ItemIsThere ==
  ASSUME Shape, Safe, pc \in AtItem \ {"finish"}, Destination = Source
  PROVE  /\ cp.child = Self => Good(cp.root)
         /\ cp.child # Self => CopiedBut(fs[cp.root], op.from, cp.todo)
<1>1. CASE cp.child = Self
  <2>1. fs[cp.root] = op.from
    BY <1>1, OriginalItem, ItemFacts DEF Destination
  <2>2. QED
    BY <1>1, <2>1, WholeIsGood DEF Good
<1>2. CASE cp.child # Self
  <2>1. CopiedBut(fs[cp.root], op.from, cp.todo \cup {cp.child})
    BY <1>2 DEF Safe, CopyProgress, AtItem
  <2>2. ItemOf(fs[cp.root], cp.child) = op.from.kids[cp.child]
    BY <1>2, OriginalItem DEF Destination
  <2>3. QED
    BY <1>2, <2>1, <2>2, CopiedDone
<1>3. QED
  BY <1>1, <1>2

\* Comparing keeps Safe: only the item itself passes.
LEMMA SafeExistingItem == ASSUME ComparisonTells, Shape, Safe, ExistingItem PROVE Safe'
<1>1. pc = "existing" /\ fs' = fs /\ UNCHANGED Rest
  BY DEF ExistingItem, Rest
<1>2. CASE Leaves
  BY <1>1, <1>2, SafeLeaves
<1>3. Raise(StopError) /\ UNCHANGED cp => Leaves
  BY <1>1, RaiseLeaves DEF Rest
<1>4. Raise(Failed("Permanent")) /\ UNCHANGED cp => Leaves
  BY <1>1, RaiseLeaves DEF Rest, Classes
<1>5. ASSUME Verified(ctx.verify, Source, Destination), ItemDone PROVE Safe'
  <2>1. /\ op.from \in Whole /\ op.to \in Whole \cup {None} /\ fs[cp.root] \in Nodes
        /\ cp.child \in Names \cup {Self}
    BY EnginePlaces, SourceFacts
  <2>2. Mixed(fs[cp.root], op.from, op.to)
    BY EnginePlaces DEF Safe, TreesAreMixed
  <2>3. Source = ItemOf(op.from, cp.child) /\ NonDir(ItemOf(op.from, cp.child))
    BY <1>1, OriginalItem DEF AtItem
  <2>4. Exists(ItemOf(fs[cp.root], cp.child))
    BY <1>1 DEF Safe, CopyProgress, Destination
  <2>5. \A k \in Names \cup {Self} :
          /\ ItemOf(op.from, k).kind = "file" /\ Exists(ItemOf(op.to, k))
          /\ Length(ItemOf(op.to, k)) = Length(ItemOf(op.from, k))
          => ItemOf(op.to, k) = ItemOf(op.from, k)
    BY DEF ComparisonTells, Shape, TypeOK
  <2>6. ctx.verify \in Verifications \ {"None"}
    BY ContextFacts DEF Shape, Safe
  <2>7. Verified(ctx.verify, ItemOf(op.from, cp.child), ItemOf(fs[cp.root], cp.child))
    BY <1>5, <2>3 DEF Destination
  <2>8. ItemOf(fs[cp.root], cp.child) = ItemOf(op.from, cp.child)
    BY <2>1, <2>2, <2>3, <2>4, <2>5, <2>6, <2>7, VerifiedIsSame
  <2>9. Destination = Source
    BY <2>3, <2>8 DEF Destination
  <2>10. QED
    BY <1>1, <1>5, <2>9, ItemIsThere, SafeItemDone DEF AtItem
<1>6. QED
  BY <1>2, <1>3, <1>4, <1>5 DEF ExistingItem

\* The end of a copied item keeps Safe.
LEMMA SafeFinishItem == ASSUME Shape, Safe, FinishItem PROVE Safe'
<1>1. pc = "finish" /\ fs' = fs /\ UNCHANGED Rest
  BY DEF FinishItem, Rest
<1>2. CASE Leaves
  BY <1>1, <1>2, SafeLeaves
<1>3. Raise(StopError) /\ UNCHANGED cp => Leaves
  BY <1>1, RaiseLeaves DEF Rest
<1>4. ASSUME ItemDone PROVE Safe'
  BY <1>1, <1>4, SafeItemDone DEF Safe, CopyProgress
<1>5. QED
  BY <1>2, <1>3, <1>4 DEF FinishItem

\* Writing the item, in part or whole.
LEMMA SafeWritten ==
  ASSUME Shape, Safe, pc \in {"item", "write"}, UNCHANGED Rest, UNCHANGED <<cp, outcome>>,
         NEW item, SetItem(item), item = Source \/ (Source.kind = "file" /\ item = PartOf(Source)),
         \/ pc' = "bytes" /\ Source.kind = "file"
         \/ pc' = "finish" /\ item = Source
  PROVE  Safe'
<1>1. fs["from"] = op.from
  BY WholeSource DEF Writing
<1>2. /\ cp.root \in Paths \ {"from"} /\ fs \in [Paths -> Nodes] /\ fs[cp.root] \in Nodes /\ op.from \in Whole
      /\ op.from \in Nodes
  BY EnginePlaces, WholeFacts
<1> DEFINE new == Put(fs[cp.root], cp.child, item)
<1>3. fs'[cp.root] = new /\ \A p \in Paths \ {cp.root} : fs'[p] = fs[p]
  BY <1>2 DEF SetItem
<1>4. fs'["from"] = fs["from"]
  BY <1>2, <1>3 DEF Paths
<1>5. /\ Mixed(new, op.from, op.to) /\ ItemOf(new, cp.child) = item
      /\ cp.child = Self /\ item = Source => Holds(new, op.from)
      /\ cp.child # Self => CopiedBut(new, op.from, cp.todo \cup {cp.child})
      /\ cp.child # Self /\ item = Source => CopiedBut(new, op.from, cp.todo)
  <2>1. CASE cp.child = Self
    <3>1. new = item /\ ItemOf(new, cp.child) = item
      BY <2>1, SelfFacts, ItemFacts
    <3>2. Source = op.from
      BY <2>1, OriginalItem DEF AtItem
    <3>3. Mixed(item, op.from, op.to)
      BY <1>2, <3>2, MixedFacts
    <3>4. QED
      BY <2>1, <3>1, <3>2, <3>3, WholeIsGood
  <2>2. CASE cp.child # Self
    <3>1. /\ IsDir(op.from) /\ cp.child \in DOMAIN op.from.kids /\ IsDir(fs[cp.root])
          /\ Source = op.from.kids[cp.child]
      BY <2>2, OriginalItem DEF AtItem
    <3>2. item \in {op.from.kids[cp.child], PartOf(op.from.kids[cp.child])}
      BY <3>1
    <3>3. Mixed(fs[cp.root], op.from, op.to)
      BY <1>2 DEF Safe, TreesAreMixed
    <3>4. Mixed(new, op.from, op.to)
      BY <1>2, <3>1, <3>2, <3>3, MixedPut
    <3>5. CopiedBut(fs[cp.root], op.from, cp.todo \cup {cp.child})
      BY <2>2 DEF Safe, CopyProgress
    <3>6. /\ CopiedBut(new, op.from, cp.todo \cup {cp.child})
          /\ ItemOf(new, cp.child) = item
      <4> DEFINE rest == cp.todo \cup {cp.child}
      <4>1. cp.child \in rest
        OBVIOUS
      <4> HIDE DEF rest
      <4>2. CopiedBut(fs[cp.root], op.from, rest)
        BY <3>5 DEF rest
      <4>3. CopiedBut(new, op.from, rest) /\ ItemOf(new, cp.child) = item
        BY <1>2, <3>1, <3>2, <4>1, <4>2, CopiedPut
      <4>4. QED
        BY <4>3 DEF rest
    <3>7. item = Source => CopiedBut(new, op.from, cp.todo)
      <4> HIDE DEF new
      <4> QED
        BY <3>1, <3>6, CopiedDone
    <3>8. QED
      BY <2>2, <3>4, <3>6, <3>7
  <2>3. QED
    BY <2>1, <2>2
<1> HIDE DEF new
<1>6. TreesAreMixed' /\ SourceIsKept'
  BY <1>1, <1>3, <1>4, <1>5 DEF Safe, TreesAreMixed, SourceIsKept, Rest
<1>7. CopyRecord'
  BY DEF Safe, CopyRecord, AtItem, Copying, Rest
<1>8. Source' = Source /\ Destination' = item
  BY <1>3, <1>4, <1>5 DEF Source, Destination
<1>9. cp.child = Self => NonDir(fs["from"])
  BY DEF Safe, CopyProgress, AtItem
<1>10. CopyProgress'
  BY <1>3, <1>4, <1>5, <1>8, <1>9 DEF CopyProgress, AtItem, Rest, Good
<1>11. QED
  BY <1>6, <1>7, <1>10, SafeStep

\* The first call of a file copy keeps Safe.
LEMMA SafeCopyItem == ASSUME Shape, Safe, CopyItem PROVE Safe'
<1>1. pc = "item" /\ UNCHANGED Rest /\ UNCHANGED cp
  BY DEF CopyItem, Rest
<1>2. CASE Leaves
  BY <1>1, <1>2, SafeLeaves
<1>3. Raise(StopError) /\ UNCHANGED fs => Leaves
  BY <1>1, RaiseLeaves DEF Rest
<1>4. ASSUME SetItem(Source), pc' = "finish", UNCHANGED outcome PROVE Safe'
  BY <1>1, <1>4, SafeWritten
<1>5. ASSUME Source.kind = "file", SetItem(PartOf(Source)), pc' = "bytes", UNCHANGED outcome PROVE Safe'
  BY <1>1, <1>5, SafeWritten
<1>6. QED
  BY <1>2, <1>3, <1>4, <1>5 DEF CopyItem, Goto

\* The check at the top of the byte loop keeps Safe.
LEMMA SafeLoopCheck == ASSUME Shape, Safe, LoopCheck PROVE Safe'
<1>1. pc = "bytes" /\ UNCHANGED Rest /\ UNCHANGED <<cp, fs>>
  BY DEF LoopCheck, Rest
<1>2. CASE control # {}
  BY <1>1, <1>2, RaiseLeaves, SafeLeaves DEF LoopCheck, Rest
<1>3. CASE control = {}
  <2>1. pc' = (IF Destination.whole THEN "finish" ELSE "write") /\ outcome' = outcome
    BY <1>3 DEF LoopCheck, Goto
  <2>2. Source.kind = "file" /\ Destination \in {Source, PartOf(Source)}
    BY <1>1 DEF Safe, CopyProgress
  <2>3. Source \in Files
    BY <1>1, <2>2, ItemShape
  <2>4. ~PartOf(Source).whole
    BY <2>3, FileFacts
  <2>5. pc' = "finish" => Destination = Source
    BY <2>1, <2>2, <2>4
  <2>6. pc' = "finish" => /\ cp.child = Self => Good(cp.root)
                          /\ cp.child # Self => CopiedBut(fs[cp.root], op.from, cp.todo)
    BY <1>1, <2>5, ItemIsThere DEF AtItem
  <2>7. fs["from"] = op.from
    BY <1>1, WholeSource DEF Writing
  <2>8. TreesAreMixed' /\ SourceIsKept'
    BY <1>1, <2>7 DEF Safe, TreesAreMixed, SourceIsKept, Rest
  <2>9. CopyRecord'
    BY <1>1, <2>1 DEF Safe, CopyRecord, AtItem, Copying, Rest
  <2>10. Source' = Source /\ Destination' = Destination
    BY <1>1 DEF Source, Destination
  <2>11. CopyProgress'
    BY <1>1, <2>1, <2>2, <2>6, <2>10 DEF Safe, CopyProgress, AtItem, Rest, Good
  <2>12. QED
    BY <1>1, <2>1, <2>8, <2>9, <2>11, SafeStep
<1>4. QED
  BY <1>2, <1>3

\* The error path of a byte copy.
LEMMA SafeItemRemoved ==
  ASSUME Shape, Safe, pc \in {"bytes", "write"}, fs' = [fs EXCEPT ![cp.root] = Drop(@, cp.child)],
         pc' = "unwind", outcome' # Completed, UNCHANGED Rest, UNCHANGED cp
  PROVE  Safe'
<1>1. fs["from"] = op.from
  BY WholeSource DEF Writing
<1>2. cp.root \in Paths \ {"from"} /\ fs \in [Paths -> Nodes] /\ fs[cp.root] \in Nodes /\ op.from \in Whole
  BY EnginePlaces
<1>3. Mixed(Drop(fs[cp.root], cp.child), op.from, op.to)
  <2>1. CASE cp.child = Self
    BY <2>1, SelfFacts DEF Mixed
  <2>2. CASE cp.child # Self
    <3>1. cp.child \in Names /\ IsDir(fs[cp.root])
      BY <2>2, OriginalItem DEF AtItem
    <3>2. Mixed(fs[cp.root], op.from, op.to)
      BY <1>2 DEF Safe, TreesAreMixed
    <3>3. QED
      BY <1>2, <3>1, <3>2, MixedDrop
  <2>3. QED
    BY <2>1, <2>2
<1>4. fs'["from"] = op.from /\ \A p \in Paths \ {cp.root} : fs'[p] = fs[p]
  BY <1>1, <1>2 DEF Paths
<1>5. fs'[cp.root] = Drop(fs[cp.root], cp.child)
  BY <1>2
<1>6. TreesAreMixed' /\ SourceIsKept'
  BY <1>3, <1>4, <1>5 DEF Safe, TreesAreMixed, SourceIsKept, Rest
<1>7. CopyRecord' /\ CopyProgress'
  BY DEF CopyRecord, CopyProgress, AtItem, Copying
<1>8. QED
  BY <1>6, <1>7, SafeStep

\* Writing the last chunk keeps Safe.
LEMMA SafeWriteChunk == ASSUME Shape, Safe, WriteChunk PROVE Safe'
<1>1. pc = "write" /\ UNCHANGED Rest /\ UNCHANGED cp /\ Source.kind = "file"
  BY DEF WriteChunk, Rest, Safe, CopyProgress
<1>2. CASE control # {}
  BY <1>1, <1>2, SafeItemRemoved, StopIsNoSuccess DEF WriteChunk, Raise, Goto
<1>3. CASE control = {}
  BY <1>1, <1>3, SafeWritten DEF WriteChunk, Goto
<1>4. QED
  BY <1>2, <1>3

\* The end of a staged replacement: the source is whole, and the new tree is complete in
\* the stage until it is complete at the destination.
LEMMA SafeReplacement ==
  ASSUME Shape, Safe, CommitFile \/ BackUpTarget \/ InstallStage
  PROVE  Safe'
<1>1. /\ pc \in {"commit", "backup", "install"} /\ UNCHANGED Rest /\ UNCHANGED <<cp, outcome>>
      /\ fs["from"] = op.from /\ Good("stage") /\ ~cp.created
      /\ cp.delete_source <=> op.kind = "move"
  <2>1. pc \in {"commit", "backup", "install"} /\ UNCHANGED Rest /\ UNCHANGED <<cp, outcome>>
    BY DEF CommitFile, BackUpTarget, InstallStage, Rest
  <2>2. fs["from"] = op.from
    BY <2>1, WholeSource DEF Writing
  <2>3. QED
    BY <2>1, <2>2 DEF Safe, CopyRecord, CopyProgress, Copying
<1>2. /\ fs'["from"] = op.from
      /\ \A p \in Paths \ {"from"} : fs'[p] = None \/ \E q \in Paths \ {"from"} : fs'[p] = fs[q]
      /\ pc' \in {"copied", "cleanup"} => fs'[target] = fs["stage"]
      /\ pc' = "install" => fs'["stage"] = fs["stage"]
      /\ pc' \in {"copied", "install", "cleanup"}
  <2>1. CASE CommitFile \/ InstallStage
    BY <1>1, <2>1, EnginePlaces DEF CommitFile, InstallStage, Paths, Goto
  <2>2. CASE BackUpTarget
    BY <1>1, <2>2, EnginePlaces DEF BackUpTarget, Paths, Goto
  <2>3. QED
    BY <2>1, <2>2
<1>3. Mixed(None, op.from, op.to)
  BY DEF Mixed
<1>4. TreesAreMixed' /\ SourceIsKept'
  BY <1>1, <1>2, <1>3 DEF Safe, TreesAreMixed, SourceIsKept, Rest
<1>5. CopyRecord'
  BY <1>1, <1>2 DEF CopyRecord, AtItem, Copying, Rest
<1>6. CopyProgress'
  BY <1>1, <1>2 DEF CopyProgress, AtItem, Good, Rest
<1>7. QED
  BY <1>1, <1>2, <1>4, <1>5, <1>6, SafeStep

\* Removing the backup keeps Safe.
LEMMA SafeRemoveBackup == ASSUME Shape, Safe, RemoveBackup PROVE Safe'
<1>1. /\ pc = "cleanup" /\ UNCHANGED Rest /\ cp' = cp /\ fs["from"] = op.from /\ Good(target) /\ ~cp.created
      /\ cp.delete_source <=> op.kind = "move"
  BY WholeSource DEF RemoveBackup, Rest, Writing, Safe, CopyRecord, CopyProgress, Copying
<1>2. ASSUME NEW n, Mixed(n, op.from, op.to), fs' = [fs EXCEPT !["backup"] = n], UNCHANGED outcome,
             pc' \in {"cleanup", "copied"}
      PROVE  Safe'
  <2>1. fs'["backup"] = n /\ \A p \in Paths \ {"backup"} : fs'[p] = fs[p]
    BY <1>2, EnginePlaces DEF Paths
  <2>2. fs'["from"] = op.from /\ fs'[target] = fs[target]
    BY <1>1, <2>1, EnginePlaces DEF Paths
  <2>3. TreesAreMixed' /\ SourceIsKept'
    BY <1>1, <1>2, <2>1, <2>2 DEF Safe, TreesAreMixed, SourceIsKept, Rest
  <2>4. CopyRecord' /\ CopyProgress'
    BY <1>1, <1>2, <2>2 DEF CopyRecord, CopyProgress, AtItem, Copying, Good, Rest
  <2>5. QED
    BY <1>1, <1>2, <2>3, <2>4, SafeStep
<1>3. CASE IsDir(fs["backup"]) /\ DOMAIN fs["backup"].kids # {}
  <2>1. PICK c \in DOMAIN fs["backup"].kids : fs' = [fs EXCEPT !["backup"] = Drop(@, c)] /\ UNCHANGED <<pc, outcome>>
    BY <1>3 DEF RemoveBackup, RemoveTree
  <2>2. "backup" \in Paths /\ fs["backup"] \in Nodes /\ op.from \in Whole
    BY EnginePlaces DEF Paths
  <2>3. c \in Names
    BY <1>3, <2>2, Removal
  <2>4. Mixed(fs["backup"], op.from, op.to)
    BY <2>2 DEF Safe, TreesAreMixed
  <2>5. Mixed(Drop(fs["backup"], c), op.from, op.to)
    BY <1>3, <2>2, <2>3, <2>4, MixedDrop
  <2>6. QED
    BY <1>1, <1>2, <2>1, <2>5
<1>4. CASE ~(IsDir(fs["backup"]) /\ DOMAIN fs["backup"].kids # {})
  <2>1. Mixed(None, op.from, op.to)
    BY DEF Mixed
  <2>2. QED
    BY <1>2, <1>4, <2>1 DEF RemoveBackup, RemoveTree, Goto
<1>5. QED
  BY <1>3, <1>4

\* The way out removes a stage, or a destination that the attempt made from a whole source.
LEMMA SafeUnwind == ASSUME Shape, Safe, Unwind \/ RollbackFails PROVE Safe'
<1>1. /\ pc = "unwind" /\ UNCHANGED Rest /\ UNCHANGED <<cp, outcome>> /\ pc' = "append" /\ outcome # Completed
      /\ fs' = fs \/ (fs' = [fs EXCEPT ![cp.root] = None] /\ (cp.root = "stage" \/ cp.created))
  BY DEF Unwind, RollbackFails, Rest, Goto, RolledBack, Safe, EndIsDone
<1>2. Mixed(None, op.from, op.to)
  BY DEF Mixed
<1>3. fs'["from"] = fs["from"] /\ \A p \in Paths \ {"from"} : fs'[p] = fs[p] \/ fs'[p] = None
  BY <1>1, EnginePlaces DEF Paths
<1>4. TreesAreMixed'
  BY <1>1, <1>2, <1>3 DEF Safe, TreesAreMixed, Rest
<1>5. SourceIsKept'
  <2>1. CASE fs["from"] = op.from
    BY <1>1, <1>3, <2>1 DEF SourceIsKept, Rest
  <2>2. CASE fs["from"] # op.from
    <3>1. op.kind = "move" /\ Good(target) /\ Comparing
      BY <2>2 DEF Safe, SourceIsKept
    <3>2. fs'[target] = fs[target]
      BY <1>1, <3>1, EnginePlaces DEF Comparing
    <3>3. Comparing'
      BY <1>1, <3>1 DEF Comparing, Writing, Rest
    <3>4. QED
      BY <1>1, <3>1, <3>2, <3>3 DEF SourceIsKept, Good, Rest
  <2>3. QED
    BY <2>1, <2>2
<1>6. CopyRecord' /\ CopyProgress'
  BY <1>1 DEF CopyRecord, CopyProgress, AtItem, Copying
<1>7. QED
  BY <1>1, <1>4, <1>5, <1>6, SafeStep

\* A failed call and its error path keep Safe.
LEMMA SafeSystemCallFails ==
  ASSUME Shape, Safe, NEW class \in {"Transient", "Permanent"}, SystemCallFails(class)
  PROVE  Safe'
<1>1. UNCHANGED Rest /\ class \in Classes /\ Failed(class) # Completed
  BY StatusFacts DEF SystemCallFails, Rest, Classes
<1>2. CASE pc \in {"bytes", "write"}
  <2>1. fs' = [fs EXCEPT ![cp.root] = Drop(@, cp.child)] /\ pc' = "unwind" /\ outcome' = Failed(class) /\ cp' = cp
    BY <1>2 DEF SystemCallFails, Raise, Goto
  <2>2. QED
    BY <1>1, <1>2, <2>1, SafeItemRemoved
<1>3. CASE pc = "install"
  <2>1. /\ fs' = [fs EXCEPT ![target] = fs["backup"], !["backup"] = None]
        /\ pc' = "unwind" /\ outcome' = Failed(class)
    BY <1>3 DEF SystemCallFails, Raise, Goto
  <2>2. /\ fs'["from"] = fs["from"]
        /\ \A p \in Paths \ {"from"} : fs'[p] = None \/ \E q \in Paths \ {"from"} : fs'[p] = fs[q]
    BY <2>1, EnginePlaces DEF Paths
  <2>3. fs["from"] = op.from /\ Mixed(None, op.from, op.to)
    BY <1>3, WholeSource DEF Writing, Mixed
  <2>4. TreesAreMixed' /\ SourceIsKept'
    BY <1>1, <2>2, <2>3 DEF Safe, TreesAreMixed, SourceIsKept, Rest
  <2>5. CopyRecord' /\ CopyProgress'
    BY <2>1 DEF CopyRecord, CopyProgress, AtItem, Copying
  <2>6. QED
    BY <1>1, <1>3, <2>1, <2>4, <2>5, SafeStep
<1>4. CASE pc = "begin"
  <2>1. fs' = fs /\ pc' = "append" /\ outcome' = Failed(class) /\ ~cp'.created
    BY <1>4 DEF SystemCallFails, End, Goto, NoCopy
  <2>2. TreesAreMixed' /\ SourceIsKept'
    BY <1>1, <2>1 DEF Safe, TreesAreMixed, SourceIsKept, Comparing, Writing, Good, Rest
  <2>3. CopyRecord' /\ CopyProgress'
    BY <2>1 DEF CopyRecord, CopyProgress, AtItem, Copying
  <2>4. QED
    BY <1>1, <1>4, <2>1, <2>2, <2>3, SafeStep
<1>5. CASE pc \notin {"bytes", "write", "install", "begin"}
  <2>1. fs' = fs /\ cp' = cp /\ Raise(Failed(class)) /\ pc \notin {"idle", "down", "returned"}
    BY <1>5 DEF SystemCallFails
  <2>2. Leaves
    BY <1>1, <2>1, RaiseLeaves DEF Rest
  <2>3. QED
    BY <2>1, <2>2, SafeLeaves
<1>6. QED
  BY <1>2, <1>3, <1>4, <1>5

\* A failed return of the backup keeps Safe.
LEMMA SafeRestoreFails == ASSUME Shape, Safe, RestoreFails PROVE Safe'
<1>1. pc = "install" /\ Raise(Failed("Permanent")) /\ UNCHANGED <<op, fs, orphans, journal, target, ctx, cp, control>>
  BY DEF RestoreFails
<1>2. Leaves
  BY <1>1, RaiseLeaves DEF Classes
<1>3. QED
  BY <1>1, <1>2, SafeLeaves

\* The beginning of an attempt keeps Safe.
LEMMA SafeBegin == ASSUME Shape, Safe, Begin PROVE Safe'
<1>1. /\ pc = "begin" /\ UNCHANGED <<op, journal, target, ctx, control>> /\ cp' = NoCopy
      /\ fs' = [fs EXCEPT !["stage"] = None, !["backup"] = None]
      /\ ~NoCopy.created
  BY DEF Begin, Sweep, NoCopy
<1>2. /\ \A p \in {"from", "to", "alt"} : fs'[p] = fs[p]
      /\ \A p \in Paths : fs'[p] = fs[p] \/ fs'[p] = None
      /\ fs'["from"] = fs["from"] /\ fs'[target] = fs[target]
  BY <1>1, EnginePlaces DEF Paths
<1>3. \/ pc' = "append" /\ outcome' # Completed
      \/ pc' = "apply" /\ Exists(fs["from"])
  <2>1. Skipped # Completed /\ Cancelled # Completed /\ Failed("MissingFile") # Completed
    BY StatusFacts DEF Classes
  <2>2. QED
    BY <2>1 DEF Begin, End, Goto
<1>4. Mixed(None, op.from, op.to)
  BY DEF Mixed
<1>5. TreesAreMixed'
  BY <1>1, <1>2, <1>4 DEF Safe, TreesAreMixed
<1>6. SourceIsKept'
  BY <1>1, <1>2, <1>3 DEF Safe, SourceIsKept, Comparing, Writing, Good
<1>7. journal # <<>> /\ Last(journal) # Completed
  BY <1>1, StatusFacts DEF Shape, AttemptIsStarted
<1>8. FirstAttempt'
  BY <1>1, <1>2, <1>3, <1>7 DEF Safe, FirstAttempt, Untouched
<1>9. CopyRecord'
  BY <1>1, <1>3 DEF CopyRecord, AtItem, Copying
<1>10. CopyProgress'
  BY <1>2, <1>3 DEF CopyProgress, AtItem
<1>11. EndIsDone'
  BY <1>1, <1>3, <1>7 DEF EndIsDone
<1>12. QED
  BY <1>1, <1>5, <1>6, <1>8, <1>9, <1>10, <1>11 DEF Safe

\* Between attempts.
LEMMA SafeBetween ==
  ASSUME ComparisonTells, Shape, Safe,
         \/ Accept \/ Retry \/ GiveUp \/ AppendFails \/ AppendOutcome
         \/ \E r \in BOOLEAN, m \in {1, MaxAttempts} : Recover(r, m)
         \/ Crash
  PROVE  Safe'
<1>1. UNCHANGED <<op, fs>> /\ (cp' = cp \/ cp' = NoCopy) /\ ~NoCopy.created
  BY DEF Accept, AppendOutcome, Retry, GiveUp, AppendFails, Recover, Crash, NoCopy
<1>2. \/ pc' \in {"idle", "down", "returned"}
      \/ pc' = "begin" /\ ctx'.resuming
      \/ pc' \in {"begin", "append"} /\ Untouched
  <2>1. CASE Accept
    BY <2>1 DEF Accept, End, Goto, Safe, FirstAttempt
  <2>2. CASE Retry \/ \E r \in BOOLEAN, m \in {1, MaxAttempts} : Recover(r, m)
    BY <2>2, ContextFacts DEF Retry, Recover, Goto, Shape
  <2>3. CASE GiveUp \/ AppendFails \/ AppendOutcome \/ Crash
    BY <2>3 DEF GiveUp, AppendFails, AppendOutcome, Crash, Goto
  <2>4. QED
    BY <2>1, <2>2, <2>3
<1>3. ctx'.verify # "None"
  <2>1. op.verify # "None"
    BY DEF ComparisonTells, Shape, TypeOK
  <2>2. QED
    BY <2>1, ContextFacts DEF Shape, Safe, Accept, AppendOutcome, Retry, GiveUp, AppendFails, Recover, Crash
<1>4. TreesAreMixed'
  BY <1>1 DEF Safe, TreesAreMixed
<1>5. target' = target \/ Untouched
  BY DEF Accept, AppendOutcome, Retry, GiveUp, AppendFails, Recover, Crash, Safe, FirstAttempt
<1>6. SourceIsKept'
  <2>1. CASE fs["from"] = op.from
    BY <1>1, <2>1 DEF SourceIsKept
  <2>2. CASE fs["from"] # op.from
    <3>1. op.kind = "move" /\ Good(target) /\ Comparing /\ ~Untouched
      BY <2>2 DEF Safe, SourceIsKept, Untouched
    <3>2. cp'.created => cp'.root = "stage"
      BY <1>1, <3>1 DEF Comparing
    <3>3. Comparing'
      BY <1>2, <3>1, <3>2 DEF Comparing, Writing
    <3>4. QED
      BY <1>1, <1>5, <3>1, <3>3 DEF SourceIsKept, Good
  <2>3. QED
    BY <2>1, <2>2
<1>7. journal' # <<>>
  <2>1. CASE Accept
    BY <2>1 DEF Accept
  <2>2. CASE AppendOutcome
    BY <2>2, LastEntry DEF AppendOutcome, Shape, TypeOK
  <2>3. CASE Retry \/ GiveUp \/ AppendFails \/ (\E r \in BOOLEAN, m \in {1, MaxAttempts} : Recover(r, m)) \/ Crash
    <3>1. journal # <<>>
      BY <2>3 DEF Retry, GiveUp, AppendFails, Recover, recoverable_operations, Crash, Running,
             Safe, FirstAttempt
    <3>2. journal' = journal \/ journal' = Append(journal, Started)
      BY <2>3 DEF Retry, GiveUp, AppendFails, Recover, Crash, Restarted
    <3>3. QED
      BY <3>1, <3>2, LastEntry, StatusFacts DEF Shape, TypeOK
  <2>4. QED
    BY <2>1, <2>2, <2>3
<1>8. FirstAttempt'
  BY <1>1, <1>2, <1>7 DEF FirstAttempt, Safe, Untouched
<1>9. CopyRecord' /\ CopyProgress'
  BY <1>2 DEF CopyRecord, CopyProgress, AtItem, Copying
<1>10. EndIsDone'
  <2>1. journal' # <<>> /\ Last(journal') = Completed => Finished /\ target' = target
    <3>1. CASE Accept
      <4>1. journal' = Append(<<>>, Started) /\ <<>> \in Seq(Statuses)
        BY <3>1 DEF Accept
      <4>2. Last(journal') = Started
        BY <4>1, LastEntry, StatusFacts
      <4>3. QED
        BY <4>2, StatusFacts
    <3>2. CASE AppendOutcome
      <4>1. Last(journal') = outcome /\ target' = target /\ pc = "append"
        BY <3>2, LastEntry DEF AppendOutcome, Shape, TypeOK
      <4>2. QED
        BY <4>1 DEF Safe, EndIsDone
    <3>3. CASE Retry \/ \E r \in BOOLEAN, m \in {1, MaxAttempts} : Recover(r, m)
      <4>1. (journal' = journal /\ Last(journal) = Started) \/ journal' = Append(journal, Started)
        BY <3>3 DEF Retry, Recover, Restarted
      <4>2. Last(journal') = Started
        BY <4>1, LastEntry, StatusFacts DEF Shape, TypeOK
      <4>3. QED
        BY <4>2, StatusFacts
    <3>4. CASE GiveUp \/ AppendFails \/ Crash
      BY <3>4 DEF GiveUp, AppendFails, Crash, Safe, EndIsDone
    <3>5. QED
      BY <3>1, <3>2, <3>3, <3>4
  <2>2. pc' = "append" => outcome' # Completed
    <3>1. Failed("Permission") # Completed
      BY StatusFacts DEF Classes
    <3>2. QED
      BY <3>1 DEF Accept, AppendOutcome, Retry, GiveUp, AppendFails, Recover, Crash, End, Goto
  <2>3. QED
    BY <1>1, <1>2, <2>1, <2>2 DEF EndIsDone, Finished, Good
<1>11. QED
  BY <1>3, <1>4, <1>6, <1>8, <1>9, <1>10 DEF Safe

\* A stop request keeps Safe.
LEMMA SafeRequestStop == ASSUME Shape, Safe, NEW flag, RequestStop(flag) PROVE Safe'
<1>1. UNCHANGED <<op, fs, journal, target, pc, ctx, cp, outcome>>
  BY DEF RequestStop
<1>2. TreesAreMixed' /\ SourceIsKept' /\ FirstAttempt'
  BY <1>1 DEF Safe, TreesAreMixed, SourceIsKept, Comparing, Good, FirstAttempt, Untouched, HasTarget
<1>3. CopyRecord' /\ CopyProgress' /\ EndIsDone'
  BY <1>1 DEF Safe, CopyRecord, CopyProgress, EndIsDone, Finished, Good, Source, Destination
<1>4. QED
  BY <1>1, <1>2, <1>3 DEF Safe

\* Safe holds before the operation is accepted.
LEMMA SafeInit == ASSUME Init PROVE Safe
<1>1. op \in Configs /\ op.from \in Whole /\ op.to \in Whole \cup {None}
  BY ConfigFacts DEF Init
<1>2. Mixed(None, op.from, op.to) /\ Mixed(op.to, op.from, op.to)
  BY <1>1, MixedFacts, MixedFound
<1>3. fs["from"] = op.from /\ fs["to"] = op.to /\ fs["alt"] = None /\ fs["stage"] = None /\ fs["backup"] = None
  BY DEF Init, Paths
<1>4. TreesAreMixed
  BY <1>2, <1>3 DEF TreesAreMixed, Paths
<1>5. SourceIsKept /\ FirstAttempt /\ CopyRecord /\ CopyProgress /\ EndIsDone
  BY <1>3 DEF Init, SourceIsKept, FirstAttempt, Untouched, CopyRecord, CopyProgress, EndIsDone, AtItem, Copying
<1>6. ctx.verify # "None"
  BY DEF Init, RecoveryContext
<1>7. QED
  BY <1>4, <1>5, <1>6 DEF Safe

\* Every step keeps Safe.
LEMMA SafeNext == ASSUME ComparisonTells, Shape, Safe, [Next]_vars PROVE Safe'
<1>1. CASE UNCHANGED vars
  <2>1. UNCHANGED <<op, fs, journal, target, pc, ctx, cp, outcome>>
    BY <1>1 DEF vars
  <2>2. TreesAreMixed' /\ SourceIsKept' /\ FirstAttempt'
    BY <2>1 DEF Safe, TreesAreMixed, SourceIsKept, Comparing, Good, FirstAttempt, Untouched, HasTarget
  <2>3. CopyRecord' /\ CopyProgress' /\ EndIsDone'
    BY <2>1 DEF Safe, CopyRecord, CopyProgress, EndIsDone, Finished, Good, Source, Destination
  <2>4. QED
    BY <2>1, <2>2, <2>3 DEF Safe
<1>2. CASE Next
  BY <1>2, SafeApply, SafeCopyPath, SafeMakeDirectory, SafeChildren, SafeExistingItem,
     SafeFinishItem, SafeCopyItem, SafeLoopCheck, SafeWriteChunk, SafeClearTarget,
     SafeDeleteSource, SafeRemoveBackup, SafeRename, SafeCollapseSameFile, SafeRenamed, SafeCopied,
     SafeReplacement, SafeUnwind, SafeSystemCallFails, SafeRestoreFails, SafeBegin, SafeBetween,
     SafeRequestStop DEF Next, Engine
<1>3. QED
  BY <1>1, <1>2

\* Safe is an invariant when comparing tells items apart: wherever the engine is, the
\* source is whole or all of it is at the destination, and the copy record says
\* which children are still missing there (copy.rs, relocate.rs, operator.rs).
THEOREM Invariance == ASSUME ComparisonTells PROVE Spec => [](Shape /\ Safe)
<1>1. Init => Shape /\ Safe
  BY ShapeInit, SafeInit
<1>2. Shape /\ Safe /\ [Next]_vars => (Shape /\ Safe)'
  BY ShapeNext, SafeNext
<1>3. QED
  BY <1>1, <1>2, PTL DEF Spec

\* The user's data is in one place, whatever is interrupted, failed, retried or replayed:
\* a copy leaves its source alone and a move (relocate.rs move_path) removes nothing of it
\* that is not whole at the destination, when comparing tells the old destination from
\* the new one.
THEOREM SourceSafe == ASSUME ComparisonTells PROVE Spec => []SourceIsSafe
<1>1. Shape /\ Safe => SourceIsSafe
  BY WholeIsGood DEF Safe, SourceIsKept, SourceIsSafe, Good
<1>2. QED
  BY <1>1, Invariance, PTL

\* A completed entry of the journal is true, also when a replay wrote it that only
\* compared what it found (copy.rs copy_path_existing), under the same hypothesis.
THEOREM CompletedTrue == ASSUME ComparisonTells PROVE Spec => []CompletedIsDone
<1>1. Completed # Skipped
  BY StatusFacts
<1>2. Safe => CompletedIsDone
  BY <1>1 DEF Safe, EndIsDone, CompletedIsDone, LastStatus, Finished, Good
<1>3. QED
  BY <1>2, Invariance, PTL

-----------------------------------------------------------------------------
(***************************************************************************)
(* The old destination.  Three things can be true of it: a hidden sibling  *)
(* of an earlier attempt has it for good; the operation writes beside it;  *)
(* or it is in its place, until a complete replacement is, or in the       *)
(* backup between the two.                                                 *)
(***************************************************************************)
Protected == Exists(op.to) /\ (op.conflict = "Replace" => SameSort(op.from, op.to))

OldInOrphan == op.conflict = "Replace" /\ \E n \in orphans : Holds(n, op.to)

OldBeside ==
  /\ target = "alt" /\ fs["to"] = op.to /\ journal # <<>>
  /\ cp.created => cp.root \in {"alt", "stage"}

\* The places before the backup of an attempt.
Early == AtItem \cup {"apply", "rename", "same_file", "copy", "mkdir", "children", "commit", "backup"}

\* A copy to the stage has the old destination still in its place.
OldWhileStaged ==
  /\ pc \in AtItem \cup {"mkdir", "children"} /\ cp.root = "stage" => fs["to"] = op.to /\ op.conflict = "Replace"
  /\ pc \in {"commit", "backup"} => fs["to"] = op.to /\ op.conflict = "Replace"
  /\ pc = "install" => fs["backup"] = op.to /\ op.conflict = "Replace"
  /\ pc = "cleanup" => op.conflict = "Replace"

\* A copy into the old destination adds what it does not have.
OldWhileMerged ==
  /\ pc \in AtItem \cup {"mkdir", "children"} /\ cp.root # "stage" =>
       cp.mode # "Fresh" \/ (pc = "finish" /\ cp.child = Self)
  /\ pc \in {"item", "bytes", "write"} /\ cp.root # "stage" =>
       /\ cp.child # Self /\ Holds(fs["to"], op.to)
       /\ IsDir(op.to) /\ cp.child \notin DOMAIN op.to.kids

OldInPlace ==
  /\ target = "to"
  /\ OldOrNew({fs["backup"]})
  /\ pc \in Early => fs["backup"] = None
  /\ cp.created => cp.root = "stage"
  /\ ctx.conflict = "Replace" => op.conflict = "Replace"
  /\ pc # "clear"
  /\ pc = "rename" => fs["to"] = op.to /\ op.conflict = "Replace"
  /\ pc = "copy" /\ ~cp.resuming => fs["to"] = op.to /\ (cp.conflict = "Replace" => op.conflict = "Replace")
  /\ OldWhileStaged
  /\ OldWhileMerged

OldIsKept == Protected => OldInOrphan \/ OldBeside \/ OldInPlace

\* Adding to a tree, or removing from it, what another tree does not have.
LEMMA HoldsOthers ==
  ASSUME NEW b \in Whole, IsDir(b), NEW n \in Nodes, Holds(n, b), IsDir(n), NEW c \in Names,
         c \notin DOMAIN b.kids
  PROVE  /\ \A item \in Files \cup PartFiles : Holds(Put(n, c, item), b)
         /\ Holds(Drop(n, c), b)
<1>1. DOMAIN b.kids \subseteq Names /\ \A k \in DOMAIN b.kids : b.kids[k] \in Files
  BY WholeFacts
<1>2. \A k \in DOMAIN b.kids : ItemOf(n, k) = b.kids[k] /\ Exists(b.kids[k])
  BY <1>1, FileFacts DEF Holds, Exists, None
<1>3. \A k \in DOMAIN b.kids : k \in DOMAIN n.kids /\ n.kids[k] = b.kids[k] /\ k # c
  BY <1>1, <1>2, ItemFacts DEF Exists
<1>4. ASSUME NEW item \in Files \cup PartFiles PROVE Holds(Put(n, c, item), b)
  <2> DEFINE m == Put(n, c, item)
  <2>1. /\ IsDir(m) /\ DOMAIN m.kids = DOMAIN n.kids \cup {c}
        /\ \A k \in DOMAIN n.kids \ {c} : m.kids[k] = n.kids[k]
    BY PutChild
  <2> HIDE DEF m
  <2>2. \A k \in DOMAIN b.kids : ItemOf(m, k) = b.kids[k]
    BY <1>1, <1>3, <2>1, ItemFacts
  <2>3. QED
    BY <2>1, <2>2 DEF Holds, m
<1>5. Holds(Drop(n, c), b)
  <2> DEFINE m == Drop(n, c)
  <2>1. /\ IsDir(m) /\ DOMAIN m.kids = DOMAIN n.kids \ {c}
        /\ \A k \in DOMAIN n.kids \ {c} : m.kids[k] = n.kids[k]
    BY DropChild
  <2> HIDE DEF m
  <2>2. \A k \in DOMAIN b.kids : ItemOf(m, k) = b.kids[k]
    BY <1>1, <1>3, <2>1, ItemFacts
  <2>3. QED
    BY <2>1, <2>2 DEF Holds, m
<1>6. QED
  BY <1>4, <1>5

\* What an operation with a protected destination found there.
LEMMA OldFacts ==
  ASSUME Shape, Protected
  PROVE  /\ op.to \in Whole /\ op.to \in Nodes /\ Holds(op.to, op.to)
         /\ \A n \in Nodes : Holds(n, op.to) \/ Holds(n, op.from) => Exists(n)
<1>1. op.to \in Whole /\ op.from \in Whole
  BY SourceFacts DEF Protected, Exists
<1>2. op.to \in Nodes
  BY <1>1, WholeFacts
<1>3. QED
  BY <1>1, <1>2, HoldsFacts

\* Before the backup, there is something in the place of the old destination.
LEMMA OldPresent ==
  ASSUME Shape, Protected, OldInPlace, fs["backup"] = None
  PROVE  /\ HasTarget
         /\ Holds(fs["to"], op.to) \/ (op.conflict = "Replace" /\ Holds(fs["to"], op.from))
<1>1. fs["to"] \in Nodes /\ None \in Nodes
  BY EnginePlaces DEF Paths, Nodes
<1>2. ~Holds(None, op.to)
  BY <1>1, OldFacts DEF Exists
<1>3. Holds(fs["to"], op.to) \/ (op.conflict = "Replace" /\ Holds(fs["to"], op.from))
  BY <1>2 DEF OldInPlace, OldOrNew
<1>4. QED
  BY <1>1, <1>3, OldFacts DEF HasTarget, OldInPlace

\* A hidden sibling is never touched again.
LEMMA OrphanStays == ASSUME OldInOrphan, [Next]_vars PROVE OldInOrphan'
<1>1. op' = op /\ orphans \subseteq orphans'
  BY DEF Next, Engine, vars, Begin, Sweep, Apply, ClearTarget, Rename, CollapseSameFile, Renamed,
     DeleteSource, CopyPath, MakeDirectory, Children, ExistingItem, CopyItem, LoopCheck, WriteChunk,
     FinishItem, Copied, CommitFile, BackUpTarget, InstallStage, RemoveBackup, Unwind, AppendOutcome,
     Retry, GiveUp, Accept, Recover, Crash, RestoreFails, RollbackFails, AppendFails, RequestStop,
     SystemCallFails
<1>2. QED
  BY <1>1 DEF OldInOrphan

\* Steps that leave the place of the old destination and the backup alone, outside of a copy.
Quiet == {"begin", "idle", "down", "returned", "append", "unwind", "renamed", "copied", "delete_source"}

\* A step to a place where nothing is being replaced keeps the old destination there.
LEMMA OldQuiet ==
  ASSUME OldInPlace, UNCHANGED <<op, target>>, fs'["to"] = fs["to"], fs'["backup"] = fs["backup"],
         pc' \in Quiet, cp'.created => cp'.root = "stage",
         ctx'.conflict = "Replace" => op.conflict = "Replace"
  PROVE  OldInPlace'
<1>1. pc' \notin Early \cup {"clear", "install", "cleanup"}
  BY DEF Quiet, Early, AtItem
<1>2. OldWhileStaged' /\ OldWhileMerged'
  BY <1>1 DEF OldWhileStaged, OldWhileMerged, Early, AtItem
<1>3. OldOrNew({fs["backup"]})'
  BY DEF OldInPlace, OldOrNew
<1>4. QED
  BY <1>1, <1>2, <1>3 DEF OldInPlace, Early

\* An early return keeps OldIsKept.
LEMMA OldLeaves == ASSUME OldInPlace, Leaves PROVE OldInPlace'
  BY OldQuiet DEF Leaves, OldInPlace, Quiet

\* Steps within an attempt.
LEMMA OldStep ==
  ASSUME OldInPlace, UNCHANGED Rest, OldOrNew({fs["backup"]})', pc' \in Early => fs'["backup"] = None,
         cp'.created => cp'.root = "stage", pc' \notin {"clear", "rename", "copy"},
         OldWhileStaged', OldWhileMerged'
  PROVE  OldInPlace'
  BY DEF OldInPlace, Rest

\* Starting a copy keeps OldIsKept.
LEMMA OldStartCopy ==
  ASSUME OldInPlace, UNCHANGED Rest, fs' = fs, pc \in {"apply", "rename"}, NEW conflict,
         NEW resuming \in BOOLEAN, NEW delete_source, StartCopy(conflict, resuming, delete_source),
         ~resuming => fs["to"] = op.to /\ (conflict = "Replace" => op.conflict = "Replace")
  PROVE  OldInPlace'
<1>1. pc' = "copy" /\ cp'.resuming = resuming /\ cp'.conflict = conflict /\ ~cp'.created
  BY DEF StartCopy, NoCopy, Goto
<1>2. OldOrNew({fs["backup"]})' /\ fs["backup"] = None
  BY DEF OldInPlace, OldOrNew, Early, Rest
<1>3. OldWhileStaged' /\ OldWhileMerged'
  BY <1>1 DEF OldWhileStaged, OldWhileMerged, AtItem
<1>4. QED
  BY <1>1, <1>2, <1>3 DEF OldInPlace, Rest

\* Choosing between rename and copy keeps OldIsKept.
LEMMA OldApply == ASSUME Shape, Safe, Protected, OldInPlace, Apply PROVE OldInPlace'
<1>1. pc = "apply" /\ fs' = fs /\ UNCHANGED Rest /\ fs["backup"] = None
  BY DEF Apply, Rest, OldInPlace, Early
<1>2. HasTarget
  BY <1>1, OldPresent
<1>3. ~ctx.resuming => fs["from"] = op.from /\ fs["to"] = op.to /\ fs[target] = op.to
  BY <1>1 DEF Safe, FirstAttempt, Untouched, OldInPlace
<1>4. Raise(StopError) /\ UNCHANGED cp => OldInPlace'
  BY <1>1, RaiseLeaves, OldLeaves DEF Rest
<1>5. Raise(Failed("Permanent")) /\ UNCHANGED cp => OldInPlace'
  BY <1>1, RaiseLeaves, OldLeaves DEF Rest, Classes
<1>6. /\ ctx.conflict = "Replace" => op.conflict = "Replace"
      /\ ctx.resuming \in BOOLEAN /\ "Merge" # "Replace"
  BY ContextFacts DEF OldInPlace, Shape
<1>7. StartCopy(ctx.conflict, ctx.resuming, FALSE) => OldInPlace'
  BY <1>1, <1>3, <1>6, OldStartCopy
<1>8. StartCopy("Replace", TRUE, TRUE) => OldInPlace'
  BY <1>1, OldStartCopy
<1>9. ~ctx.resuming /\ StartCopy("Merge", FALSE, TRUE) => OldInPlace'
  BY <1>1, <1>3, <1>6, OldStartCopy
<1>10. ASSUME ~ctx.resuming, ctx.conflict = "Replace", pc' \in {"rename", "same_file"}, UNCHANGED <<outcome, cp>>
       PROVE  OldInPlace'
  <2>1. OldOrNew({fs["backup"]})'
    BY <1>1 DEF OldInPlace, OldOrNew, Rest
  <2>2. OldWhileStaged' /\ OldWhileMerged'
    BY <1>10 DEF OldWhileStaged, OldWhileMerged, AtItem
  <2>3. QED
    BY <1>1, <1>3, <1>6, <1>10, <2>1, <2>2 DEF OldInPlace, Rest
<1>11. ~ctx.resuming /\ ctx.conflict = "Replace" => SameSort(fs["from"], fs[target])
  BY <1>3, <1>6 DEF Protected
<1>12. QED
  BY <1>2, <1>4, <1>5, <1>7, <1>8, <1>9, <1>10, <1>11 DEF Apply, Goto

\* A rename over the old destination puts the whole source there.
LEMMA OldRename == ASSUME Shape, Safe, Protected, OldInPlace, Rename PROVE OldInPlace'
<1>1. pc = "rename" /\ UNCHANGED Rest /\ fs["to"] = op.to /\ op.conflict = "Replace" /\ target = "to" /\ fs["from"] = op.from
  BY WholeSource DEF Rename, Rest, OldInPlace, Writing
<1>2. CASE fs' = [fs EXCEPT ![target] = fs["from"], !["from"] = None] /\ pc' = "renamed" /\ UNCHANGED <<cp, outcome>>
  <2>1. fs'["to"] = op.from
    BY <1>1, <1>2, EnginePlaces DEF Paths
  <2>2. OldOrNew({fs["backup"]})'
    BY <1>1, <2>1, WholeIsGood DEF OldOrNew, Rest
  <2>3. OldWhileStaged' /\ OldWhileMerged'
    BY <1>2 DEF OldWhileStaged, OldWhileMerged, AtItem
  <2>4. QED
    BY <1>1, <1>2, <2>2, <2>3, OldStep DEF OldInPlace, Early, AtItem
<1>3. CASE StartCopy("Replace", FALSE, TRUE) /\ UNCHANGED fs
  BY <1>1, <1>3, OldStartCopy
<1>4. QED
  BY <1>2, <1>3 DEF Rename, Goto

\* Choosing the copy algorithm keeps OldIsKept: a replacement is staged.
LEMMA OldCopyPath == ASSUME Shape, Safe, Protected, OldInPlace, CopyPath PROVE OldInPlace'
<1>1. /\ pc = "copy" /\ fs' = fs /\ UNCHANGED Rest /\ cp \in Copies /\ ~cp.created /\ target = "to"
      /\ fs["backup"] = None /\ cp.child = Self
  BY DEF CopyPath, Rest, Shape, TypeOK, CopyIsInside, Safe, CopyRecord, OldInPlace, Early
<1>2. HasTarget
  BY <1>1, OldPresent
<1>3. Raise(StopError) /\ UNCHANGED cp => OldInPlace'
  BY <1>1, RaiseLeaves, OldLeaves DEF Rest
<1>4. Raise(Failed("Permanent")) /\ UNCHANGED cp => OldInPlace'
  BY <1>1, RaiseLeaves, OldLeaves DEF Rest, Classes
<1>5. ASSUME NEW mode \in {"Fresh", "Merge", "Resume"}, NEW root \in {target, "stage"},
             NEW label \in {"mkdir", "item", "existing", "finish"},
             cp' = [cp EXCEPT !.mode = mode, !.root = root], pc' = label,
             root = "stage" => fs["to"] = op.to /\ op.conflict = "Replace",
             root # "stage" /\ label # "finish" => mode # "Fresh" /\ label # "item"
      PROVE  OldInPlace'
  <2>1. cp'.root = root /\ cp'.mode = mode /\ ~cp'.created /\ cp'.child = Self
    BY <1>1, <1>5 DEF Copies
  <2>2. OldOrNew({fs["backup"]})'
    BY <1>1 DEF OldInPlace, OldOrNew, Rest
  <2>3. OldWhileStaged' /\ OldWhileMerged'
    BY <1>1, <1>5, <2>1 DEF OldWhileStaged, OldWhileMerged, AtItem, Rest
  <2>4. QED
    BY <1>1, <1>5, <2>1, <2>2, <2>3, OldStep
<1>6. /\ ~cp.resuming => fs["to"] = op.to /\ fs["from"] = op.from
      /\ ~cp.resuming /\ cp.conflict = "Replace" => op.conflict = "Replace" /\ SameSort(fs["from"], fs[target])
  BY <1>1, WholeSource DEF OldInPlace, Protected
<1>7. QED
  BY <1>1, <1>2, <1>3, <1>4, <1>5, <1>6 DEF CopyPath, Goto

\* Making the directory keeps OldIsKept.
LEMMA OldMakeDirectory == ASSUME Shape, Safe, Protected, OldInPlace, MakeDirectory PROVE OldInPlace'
<1>1. /\ pc = "mkdir" /\ UNCHANGED Rest /\ cp \in Copies /\ ~cp.created /\ target = "to" /\ fs["backup"] = None
      /\ cp.mode = "Fresh" => cp.root = "stage"
      /\ cp.root = "stage" => fs["to"] = op.to /\ op.conflict = "Replace"
  BY DEF MakeDirectory, Rest, Shape, TypeOK, Safe, CopyRecord, OldInPlace, OldWhileMerged, OldWhileStaged, Early, AtItem
<1>2. Raise(StopError) /\ UNCHANGED <<fs, cp>> => OldInPlace'
  BY <1>1, RaiseLeaves, OldLeaves DEF Rest
<1>3. Raise(Failed("Permanent")) /\ UNCHANGED <<fs, cp>> => OldInPlace'
  BY <1>1, RaiseLeaves, OldLeaves DEF Rest, Classes
<1>4. ASSUME pc' = "children", fs'["to"] = fs["to"], fs'["backup"] = fs["backup"],
             cp'.root = cp.root, cp'.mode = cp.mode, cp'.created => cp.mode = "Fresh"
      PROVE  OldInPlace'
  <2>1. OldOrNew({fs["backup"]})'
    BY <1>1, <1>4 DEF OldInPlace, OldOrNew, Rest
  <2>2. OldWhileStaged' /\ OldWhileMerged'
    BY <1>1, <1>4 DEF OldWhileStaged, OldWhileMerged, AtItem, Rest
  <2>3. QED
    BY <1>1, <1>4, <2>1, <2>2, OldStep
<1>5. ASSUME cp.mode = "Fresh", fs' = [fs EXCEPT ![cp.root] = Dir([k \in {} |-> None])],
             cp' = [cp EXCEPT !.todo = DOMAIN fs["from"].kids, !.created = TRUE], pc' = "children"
      PROVE  OldInPlace'
  <2>1. cp'.root = cp.root /\ cp'.mode = cp.mode
    BY <1>1, <1>5 DEF Copies
  <2>2. fs'["to"] = fs["to"] /\ fs'["backup"] = fs["backup"]
    BY <1>1, <1>5, EnginePlaces DEF Paths
  <2>3. QED
    BY <1>4, <1>5, <2>1, <2>2
<1>6. ASSUME cp' = [cp EXCEPT !.todo = DOMAIN fs["from"].kids], pc' = "children", UNCHANGED fs
      PROVE  OldInPlace'
  <2>1. cp'.root = cp.root /\ cp'.mode = cp.mode /\ ~cp'.created
    BY <1>1, <1>6 DEF Copies
  <2>2. QED
    BY <1>4, <1>6, <2>1
<1>7. QED
  BY <1>2, <1>3, <1>5, <1>6 DEF MakeDirectory, Goto

\* Taking up the next child keeps OldIsKept.
LEMMA OldChildren == ASSUME Shape, Safe, Protected, OldInPlace, Children PROVE OldInPlace'
<1>1. /\ pc = "children" /\ fs' = fs /\ UNCHANGED Rest /\ cp \in Copies /\ target = "to" /\ fs["backup"] = None
      /\ AtChild /\ cp.root \in {"to", "stage"}
      /\ cp.root # "stage" => cp.mode # "Fresh"
      /\ cp.root = "stage" => fs["to"] = op.to /\ op.conflict = "Replace"
  BY DEF Children, Rest, Shape, TypeOK, CopyIsInside, Safe, CopyRecord, OldInPlace, OldWhileMerged,
         OldWhileStaged, Early, AtItem
<1>2. OldOrNew({fs["backup"]})'
  BY <1>1 DEF OldInPlace, OldOrNew, Rest
<1>3. Raise(StopError) /\ UNCHANGED cp => OldInPlace'
  BY <1>1, RaiseLeaves, OldLeaves DEF Rest
<1>4. ASSUME cp' = [cp EXCEPT !.created = FALSE], pc' = IF cp.root = "stage" THEN "backup" ELSE "copied"
      PROVE  OldInPlace'
  <2>1. cp'.root = cp.root /\ ~cp'.created
    BY <1>1, <1>4 DEF Copies
  <2>2. OldWhileStaged' /\ OldWhileMerged'
    BY <1>1, <1>4, <2>1 DEF OldWhileStaged, OldWhileMerged, AtItem, Rest
  <2>3. QED
    BY <1>1, <1>2, <1>4, <2>1, <2>2, OldStep
<1>5. ASSUME NEW c \in cp.todo, cp' = [cp EXCEPT !.todo = @ \ {c}, !.child = c],
             \/ pc' \in {"unwind", "existing"}
             \/ pc' = "item" /\ (cp.mode # "Fresh" => ~Exists(ItemOf(fs[cp.root], c)))
      PROVE  OldInPlace'
  <2>1. cp'.root = cp.root /\ cp'.child = c /\ cp'.mode = cp.mode /\ cp'.created = cp.created
    BY <1>1, <1>5 DEF Copies
  <2>2. c \in Names /\ c # Self /\ IsDir(op.from) /\ c \in DOMAIN op.from.kids /\ op.from.kids[c] \in Files
    BY <1>1, SourceFacts, ConfigsAssumption DEF AtChild
  <2>3. ASSUME pc' = "item", cp.root # "stage"
        PROVE  Holds(fs["to"], op.to) /\ IsDir(op.to) /\ c \notin DOMAIN op.to.kids
    <3>1. cp.root = "to" /\ IsDir(fs["to"]) /\ ~Exists(ItemOf(fs["to"], c))
      BY <1>1, <1>5, <2>3 DEF AtChild
    <3>2. Exists(op.from.kids[c])
      BY <2>2, FileFacts DEF Exists, None
    <3>3. ~Holds(fs["to"], op.from)
      BY <2>2, <3>1, <3>2 DEF Holds
    <3>4. Holds(fs["to"], op.to)
      BY <1>1, <3>3, OldPresent
    <3>5. op.to \in Whole
      BY OldFacts
    <3>6. IsDir(op.to)
      BY <3>1, <3>4 DEF Holds
    <3>7. c \in DOMAIN op.to.kids => Exists(op.to.kids[c]) /\ ItemOf(fs["to"], c) = op.to.kids[c]
      BY <3>4, <3>5, <3>6, WholeFacts, FileFacts DEF Holds, Exists, None
    <3>8. QED
      BY <3>1, <3>4, <3>6, <3>7
  <2>4. OldWhileStaged'
    BY <1>1, <1>5, <2>1 DEF OldWhileStaged, AtItem, Rest
  <2>5. OldWhileMerged'
    BY <1>1, <1>5, <2>1, <2>2, <2>3 DEF OldWhileMerged, AtItem, Rest
  <2>6. QED
    BY <1>1, <1>2, <1>5, <2>1, <2>4, <2>5, OldStep DEF OldInPlace
<1>6. cp.mode \in {"Fresh", "Merge", "Resume"}
  BY <1>1, CopyFields
<1>7. QED
  BY <1>3, <1>4, <1>5, <1>6 DEF Children, Goto, Raise

\* The end of an item keeps OldIsKept.
LEMMA OldItemDone ==
  ASSUME Shape, Safe, Protected, OldInPlace, pc \in {"existing", "finish"}, fs' = fs, UNCHANGED Rest, ItemDone
  PROVE  OldInPlace'
<1>1. cp \in Copies /\ fs["backup"] = None
  BY DEF Shape, TypeOK, OldInPlace, Early, AtItem
<1>2. /\ cp'.root = cp.root /\ cp'.mode = cp.mode /\ cp'.created = cp.created /\ cp'.child = Self
      /\ pc' = IF cp.child # Self THEN "children" ELSE IF cp.root = "stage" THEN "commit" ELSE "copied"
  BY <1>1 DEF ItemDone, Copies, Goto
<1>3. cp.child # Self /\ cp.root # "stage" => cp.mode # "Fresh"
  BY DEF OldInPlace, OldWhileMerged, AtItem
<1>4. OldOrNew({fs["backup"]})'
  BY DEF OldInPlace, OldOrNew, Rest
<1>5. OldWhileStaged' /\ OldWhileMerged'
  BY <1>2, <1>3 DEF OldInPlace, OldWhileStaged, OldWhileMerged, AtItem, Rest
<1>6. QED
  BY <1>1, <1>2, <1>4, <1>5, OldStep DEF OldInPlace

\* Comparing keeps OldIsKept.
LEMMA OldCompared == ASSUME Shape, Safe, Protected, OldInPlace, ExistingItem \/ FinishItem PROVE OldInPlace'
<1>1. pc \in {"existing", "finish"} /\ fs' = fs /\ UNCHANGED Rest
  BY DEF ExistingItem, FinishItem, Rest
<1>2. Raise(StopError) /\ UNCHANGED cp => OldInPlace'
  BY <1>1, RaiseLeaves, OldLeaves DEF Rest
<1>3. Raise(Failed("Permanent")) /\ UNCHANGED cp => OldInPlace'
  BY <1>1, RaiseLeaves, OldLeaves DEF Rest, Classes
<1>4. QED
  BY <1>1, <1>2, <1>3, OldItemDone DEF ExistingItem, FinishItem

\* A step of a byte copy: the new tree at the path that is written still has what the old
\* destination has.
LEMMA OldWritten ==
  ASSUME Shape, Safe, Protected, OldInPlace, pc \in {"item", "bytes", "write"},
         pc' \in {"bytes", "write", "finish", "unwind"}, UNCHANGED Rest, UNCHANGED cp,
         NEW new, fs' = [fs EXCEPT ![cp.root] = new],
         cp.root # "stage" => Holds(new, op.to)
  PROVE  OldInPlace'
<1>1. target = "to" /\ cp.root \in {"to", "stage"} /\ fs["backup"] = None
  BY DEF OldInPlace, Early, AtItem, Safe, CopyRecord
<1>2. fs'["backup"] = None /\ (cp.root = "stage" => fs'["to"] = fs["to"])
      /\ (cp.root # "stage" => Holds(fs'["to"], op.to))
  BY <1>1, EnginePlaces DEF Paths
<1>3. OldOrNew({fs["backup"]})'
  BY <1>1, <1>2 DEF OldInPlace, OldOrNew, Rest
<1>4. OldWhileStaged' /\ OldWhileMerged'
  BY <1>2 DEF OldInPlace, OldWhileStaged, OldWhileMerged, AtItem, Rest
<1>5. QED
  BY <1>2, <1>3, <1>4, OldStep DEF OldInPlace

\* A child is only written or removed beside those of the old destination.
LEMMA OldItem ==
  ASSUME Shape, Safe, Protected, OldInPlace, pc \in {"item", "bytes", "write"}, cp.root # "stage"
  PROVE  /\ \A item \in Files \cup PartFiles : Holds(Put(fs[cp.root], cp.child, item), op.to)
         /\ Holds(Drop(fs[cp.root], cp.child), op.to)
         /\ Source \in Files /\ PartOf(Source) \in PartFiles
<1>1. /\ cp.root = "to" /\ cp.child # Self /\ Holds(fs["to"], op.to) /\ IsDir(op.to)
      /\ cp.child \notin DOMAIN op.to.kids
  BY DEF OldInPlace, OldWhileMerged, Safe, CopyRecord, AtItem
<1>2. IsDir(fs["to"]) /\ cp.child \in Names /\ Source \in Files
  BY <1>1, OriginalItem DEF AtItem
<1>3. op.to \in Whole /\ fs["to"] \in Nodes
  BY OldFacts, EnginePlaces DEF Paths
<1>4. /\ \A item \in Files \cup PartFiles : Holds(Put(fs["to"], cp.child, item), op.to)
      /\ Holds(Drop(fs["to"], cp.child), op.to)
  BY <1>1, <1>2, <1>3, HoldsOthers
<1>5. QED
  BY <1>1, <1>2, <1>4, FileFacts

\* A byte copy keeps OldIsKept.
LEMMA OldBytes ==
  ASSUME Shape, Safe, Protected, OldInPlace, CopyItem \/ LoopCheck \/ WriteChunk
  PROVE  OldInPlace'
<1>1. pc \in {"item", "bytes", "write"} /\ UNCHANGED Rest /\ UNCHANGED cp
  BY DEF CopyItem, LoopCheck, WriteChunk, Rest
<1>2. Raise(StopError) /\ UNCHANGED fs => OldInPlace'
  BY <1>1, RaiseLeaves, OldLeaves DEF Rest
<1>3. ASSUME fs' = fs, pc' \in {"write", "finish"}, pc = "bytes" PROVE OldInPlace'
  <2>1. OldOrNew({fs["backup"]})'
    BY <1>1, <1>3 DEF OldInPlace, OldOrNew, Rest
  <2>2. OldWhileStaged' /\ OldWhileMerged'
    BY <1>1, <1>3 DEF OldInPlace, OldWhileStaged, OldWhileMerged, AtItem, Rest
  <2>3. QED
    BY <1>1, <1>3, <2>1, <2>2, OldStep DEF OldInPlace, Early, AtItem
<1>4. ASSUME NEW item, SetItem(item), item = Source \/ item = PartOf(Source), pc' \in {"bytes", "finish"}
      PROVE  OldInPlace'
  <2>1. cp.root # "stage" => Holds(Put(fs[cp.root], cp.child, item), op.to)
    BY <1>1, <1>4, OldItem
  <2>2. fs' = [fs EXCEPT ![cp.root] = Put(fs[cp.root], cp.child, item)]
    BY <1>4 DEF SetItem
  <2>3. QED
    BY <1>1, <1>4, <2>1, <2>2, OldWritten
<1>5. ASSUME fs' = [fs EXCEPT ![cp.root] = Drop(@, cp.child)], pc' = "unwind" PROVE OldInPlace'
  <2>1. cp.root # "stage" => Holds(Drop(fs[cp.root], cp.child), op.to)
    BY <1>1, OldItem
  <2>2. QED
    BY <1>1, <1>5, <2>1, OldWritten
<1>6. CASE CopyItem
  BY <1>2, <1>4, <1>6 DEF CopyItem, Goto
<1>7. CASE LoopCheck
  BY <1>2, <1>3, <1>7 DEF LoopCheck, Goto
<1>8. CASE WriteChunk
  BY <1>4, <1>5, <1>8 DEF WriteChunk, Goto, Raise
<1>9. QED
  BY <1>6, <1>7, <1>8

\* The replacement is complete when it takes the place of the old destination.
LEMMA OldReplaced ==
  ASSUME Shape, Safe, Protected, OldInPlace, CommitFile \/ BackUpTarget \/ InstallStage
  PROVE  OldInPlace'
<1>1. UNCHANGED Rest /\ UNCHANGED cp /\ target = "to" /\ Good("stage") /\ op.conflict = "Replace"
  BY DEF CommitFile, BackUpTarget, InstallStage, Rest, OldInPlace, OldWhileStaged, Safe, CopyProgress
<1>2. pc' \in {"copied", "install", "cleanup"}
  BY DEF CommitFile, BackUpTarget, InstallStage, Goto
<1>3. \/ pc' # "install" /\ fs'["to"] = fs["stage"]
      \/ pc' = "install" /\ fs'["backup"] = op.to
  <2>1. CASE CommitFile \/ InstallStage
    BY <1>1, <2>1, EnginePlaces DEF CommitFile, InstallStage, Goto, Paths
  <2>2. CASE BackUpTarget
    <3>1. fs["to"] = op.to
      BY <2>2 DEF BackUpTarget, OldInPlace, OldWhileStaged
    <3>2. QED
      BY <1>1, <2>2, <3>1, EnginePlaces DEF BackUpTarget, Goto, Paths
  <2>3. QED
    BY <2>1, <2>2
<1>4. OldOrNew({fs["backup"]})'
  BY <1>1, <1>3, OldFacts DEF OldOrNew, Good, Rest
<1>5. OldWhileStaged' /\ OldWhileMerged'
  BY <1>1, <1>2, <1>3 DEF OldWhileStaged, OldWhileMerged, AtItem, Rest
<1>6. QED
  BY <1>1, <1>2, <1>4, <1>5, OldStep DEF OldInPlace, Early, AtItem

\* Removing the backup keeps OldIsKept: the new tree is in place.
LEMMA OldRemoveBackup == ASSUME Shape, Safe, Protected, OldInPlace, RemoveBackup PROVE OldInPlace'
<1>1. pc = "cleanup" /\ UNCHANGED Rest /\ cp' = cp /\ target = "to" /\ Good(target) /\ op.conflict = "Replace"
  BY DEF RemoveBackup, Rest, OldInPlace, OldWhileStaged, Safe, CopyProgress
<1>2. \E n : fs' = [fs EXCEPT !["backup"] = n]
  BY DEF RemoveBackup, RemoveTree
<1>3. fs'["to"] = fs["to"]
  BY <1>2, EnginePlaces DEF Paths
<1>4. pc' \in {"cleanup", "copied"}
  BY <1>1 DEF RemoveBackup, RemoveTree, Goto
<1>5. OldOrNew({fs["backup"]})'
  BY <1>1, <1>3 DEF OldOrNew, Good, Rest
<1>6. OldWhileStaged' /\ OldWhileMerged'
  BY <1>1, <1>4 DEF OldWhileStaged, OldWhileMerged, AtItem, Rest
<1>7. QED
  BY <1>1, <1>4, <1>5, <1>6, OldStep DEF OldInPlace, Early, AtItem

\* Steps that leave the place of the old destination alone.
LEMMA OldOthers ==
  ASSUME Shape, Safe, Protected, OldInPlace,
         \/ CollapseSameFile \/ Renamed \/ DeleteSource \/ Copied \/ Unwind \/ RollbackFails
         \/ RestoreFails \/ AppendOutcome \/ Retry \/ GiveUp \/ AppendFails \/ Crash
         \/ \E r \in BOOLEAN, m \in {1, MaxAttempts} : Recover(r, m)
  PROVE  OldInPlace'
<1>1. UNCHANGED <<op, target>> /\ target = "to" /\ (cp.created => cp.root = "stage")
  BY DEF CollapseSameFile, Renamed, DeleteSource, Copied, Unwind, RollbackFails, RestoreFails,
     AppendOutcome, Retry, GiveUp, AppendFails, Crash, Recover, OldInPlace
<1>2. cp' = cp \/ (cp' = NoCopy /\ ~NoCopy.created)
  BY DEF CollapseSameFile, Renamed, DeleteSource, Copied, Unwind, RollbackFails, RestoreFails,
     AppendOutcome, Retry, GiveUp, AppendFails, Crash, Recover, NoCopy
<1>3. pc' \in Quiet
  BY DEF CollapseSameFile, Renamed, DeleteSource, RemoveTree, Copied, Unwind, RollbackFails,
     RestoreFails, AppendOutcome, Retry, GiveUp, AppendFails, Crash, Recover, Goto, Raise, End, Quiet
<1>4. ctx'.conflict = "Replace" => op.conflict = "Replace"
  <2>1. [ctx EXCEPT !.resuming = TRUE, !.retry = FALSE].conflict = ctx.conflict /\ RecoveryContext.conflict = "Fail"
    BY DEF Shape, TypeOK, Contexts, RecoveryContext
  <2>2. ctx'.conflict = ctx.conflict \/ ctx'.conflict = "Fail"
    BY <2>1 DEF CollapseSameFile, Renamed, DeleteSource, Copied, Unwind, RollbackFails, RestoreFails,
       AppendOutcome, Retry, GiveUp, AppendFails, Crash, Recover
  <2>3. QED
    BY <2>2 DEF OldInPlace
<1>5. fs'["to"] = fs["to"] /\ fs'["backup"] = fs["backup"]
  <2>1. CASE CollapseSameFile \/ DeleteSource
    <3>1. \E n : fs' = [fs EXCEPT !["from"] = n]
      BY <2>1 DEF CollapseSameFile, DeleteSource, RemoveTree
    <3>2. QED
      BY <3>1, EnginePlaces DEF Paths
  <2>2. CASE Unwind
    <3>1. fs' = fs \/ fs' = [fs EXCEPT !["stage"] = None]
      BY <1>1, <2>2 DEF Unwind, RolledBack
    <3>2. QED
      BY <3>1, EnginePlaces DEF Paths
  <2>3. CASE UNCHANGED fs
    BY <2>3
  <2>4. QED
    BY <2>1, <2>2, <2>3 DEF Renamed, Copied, RollbackFails, RestoreFails,
       AppendOutcome, Retry, GiveUp, AppendFails, Crash, Recover
<1>6. QED
  BY <1>1, <1>2, <1>3, <1>4, <1>5, OldQuiet

\* A failed call and its error path keep OldIsKept.
LEMMA OldSystemCallFails ==
  ASSUME Shape, Safe, Protected, OldInPlace, NEW class \in {"Transient", "Permanent"}, SystemCallFails(class)
  PROVE  OldInPlace'
<1>1. UNCHANGED Rest /\ class \in Classes /\ target = "to" /\ pc' \in {"append", "unwind"}
  BY DEF SystemCallFails, Rest, Classes, OldInPlace, Raise, End, Goto
<1>2. CASE pc \in {"bytes", "write"}
  <2>1. fs' = [fs EXCEPT ![cp.root] = Drop(@, cp.child)] /\ cp' = cp /\ pc' = "unwind"
    BY <1>2 DEF SystemCallFails, Raise, Goto
  <2>2. cp.root # "stage" => Holds(Drop(fs[cp.root], cp.child), op.to)
    BY <1>2, OldItem
  <2>3. QED
    BY <1>1, <1>2, <2>1, <2>2, OldWritten
<1>3. CASE pc = "install"
  <2>1. /\ fs' = [fs EXCEPT ![target] = fs["backup"], !["backup"] = None]
        /\ pc' = "unwind" /\ cp' = cp
    BY <1>3 DEF SystemCallFails, Raise, Goto
  <2>2. fs["backup"] = op.to
    BY <1>3 DEF OldInPlace, OldWhileStaged
  <2>3. fs'["to"] = op.to
    BY <1>1, <2>1, <2>2, EnginePlaces DEF Paths
  <2>4. OldOrNew({fs["backup"]})'
    BY <1>1, <2>3, OldFacts DEF OldOrNew, Rest
  <2>5. OldWhileStaged' /\ OldWhileMerged'
    BY <2>1 DEF OldWhileStaged, OldWhileMerged, AtItem
  <2>6. QED
    BY <1>1, <2>1, <2>4, <2>5, OldStep DEF OldInPlace, Early, AtItem
<1>4. CASE pc \notin {"bytes", "write", "install"}
  <2>1. fs' = fs /\ (cp' = cp \/ (cp' = NoCopy /\ ~NoCopy.created))
    BY <1>4 DEF SystemCallFails, NoCopy
  <2>2. QED
    BY <1>1, <2>1, OldQuiet DEF OldInPlace, Rest, Quiet
<1>5. QED
  BY <1>2, <1>3, <1>4

\* A new attempt gives up the hidden siblings of the one before: the backup it may have
\* left becomes one that nothing touches.
LEMMA OldBegin == ASSUME Shape, Safe, Protected, OldInPlace, Begin PROVE OldInPlace' \/ OldInOrphan'
<1>1. /\ UNCHANGED <<op, journal, target, ctx, control>> /\ cp' = NoCopy /\ ~NoCopy.created
      /\ fs' = [fs EXCEPT !["stage"] = None, !["backup"] = None] /\ pc' \in {"append", "apply"}
      /\ orphans' = orphans \cup ({fs["stage"], fs["backup"]} \ {None})
  BY DEF Begin, Sweep, NoCopy, End, Goto
<1>2. fs'["to"] = fs["to"] /\ fs'["backup"] = None
  BY <1>1, EnginePlaces DEF Paths
<1>3. CASE Holds(fs["to"], op.to) \/ (op.conflict = "Replace" /\ Holds(fs["to"], op.from))
  <2>1. OldOrNew({fs["backup"]})'
    BY <1>1, <1>2, <1>3 DEF OldOrNew
  <2>2. OldWhileStaged' /\ OldWhileMerged'
    BY <1>1 DEF OldWhileStaged, OldWhileMerged, AtItem
  <2>3. QED
    BY <1>1, <1>2, <2>1, <2>2 DEF OldInPlace
<1>4. CASE ~(Holds(fs["to"], op.to) \/ (op.conflict = "Replace" /\ Holds(fs["to"], op.from)))
  <2>1. op.conflict = "Replace" /\ Holds(fs["backup"], op.to)
    BY <1>4 DEF OldInPlace, OldOrNew
  <2>2. fs["backup"] \in Nodes
    BY EnginePlaces DEF Paths
  <2>3. fs["backup"] # None
    BY <2>1, <2>2, OldFacts DEF Exists
  <2>4. QED
    BY <1>1, <2>1, <2>3 DEF OldInOrphan
<1>5. QED
  BY <1>3, <1>4

\* Accepting the operation keeps OldIsKept.
LEMMA OldAccept == ASSUME Shape, Safe, Protected, OldInPlace, Accept PROVE OldInPlace' \/ OldBeside'
<1>1. /\ UNCHANGED <<op, fs, cp>> /\ target' \in {"to", "alt"} /\ ctx' = ForegroundContext /\ journal' # <<>>
      /\ pc' \in {"begin", "append"} /\ journal = <<>>
  BY DEF Accept, End, Goto
<1>2. fs["to"] = op.to
  BY <1>1 DEF Safe, FirstAttempt, Untouched
<1>3. CASE target' = "alt"
  BY <1>1, <1>2, <1>3 DEF OldBeside, OldInPlace
<1>4. CASE target' = "to"
  <2>1. ForegroundContext.conflict = op.conflict
    BY DEF ForegroundContext
  <2>2. QED
    BY <1>1, <1>4, <2>1, OldQuiet DEF OldInPlace, Quiet
<1>5. QED
  BY <1>1, <1>3, <1>4

\* A stuttering step keeps OldIsKept.
LEMMA OldStutter ==
  ASSUME OldInPlace, UNCHANGED <<op, fs, target, pc, ctx, cp>>
  PROVE  OldInPlace'
<1>1. OldOrNew({fs["backup"]})'
  BY DEF OldInPlace, OldOrNew
<1>2. OldWhileStaged' /\ OldWhileMerged'
  BY DEF OldInPlace, OldWhileStaged, OldWhileMerged
<1>3. QED
  BY <1>1, <1>2 DEF OldInPlace

\* A step from a state with the old destination in place keeps OldIsKept.
LEMMA OldInPlaceNext ==
  ASSUME Shape, Safe, Protected, OldInPlace, [Next]_vars
  PROVE  OldInPlace' \/ OldBeside' \/ OldInOrphan'
<1>1. CASE UNCHANGED vars \/ \E flag \in {"cancel", "pause"} : RequestStop(flag)
  BY <1>1, OldStutter DEF vars, RequestStop
<1>2. ~ClearTarget
  BY DEF ClearTarget, OldInPlace
<1>3. CASE Next /\ ~(\E flag \in {"cancel", "pause"} : RequestStop(flag))
  BY <1>2, <1>3, OldApply, OldRename, OldCopyPath, OldMakeDirectory, OldChildren, OldCompared, OldBytes,
     OldReplaced, OldRemoveBackup, OldOthers, OldSystemCallFails, OldBegin, OldAccept DEF Next, Engine
<1>4. QED
  BY <1>1, <1>3

\* An operation that keeps both writes beside the old destination.
LEMMA OldBesideNext == ASSUME Shape, Safe, OldBeside, [Next]_vars PROVE OldBeside'
<1>1. target = "alt" /\ fs["to"] = op.to /\ journal # <<>> /\ (cp.created => cp.root \in {"alt", "stage"})
      /\ cp \in Copies /\ journal \in Seq(Statuses) /\ outcome \in Statuses /\ Started \in Statuses
  BY StatusFacts DEF OldBeside, Shape, TypeOK
<1>2. ~Accept
  BY <1>1 DEF Accept
<1>3. op' = op /\ target' = target
  BY <1>2 DEF Next, Engine, vars, Begin, Apply, ClearTarget, Rename, CollapseSameFile, Renamed,
     DeleteSource, CopyPath, MakeDirectory, Children, ExistingItem, CopyItem, LoopCheck, WriteChunk,
     FinishItem, Copied, CommitFile, BackUpTarget, InstallStage, RemoveBackup, Unwind, AppendOutcome,
     Retry, GiveUp, Recover, Crash, RestoreFails, RollbackFails, AppendFails, RequestStop,
     SystemCallFails
<1>4. journal' # <<>>
  <2>1. journal' = journal \/ journal' = Append(journal, outcome) \/ journal' = Append(journal, Started)
    BY <1>2 DEF Next, Engine, vars, Begin, Apply, ClearTarget, Rename, CollapseSameFile, Renamed,
       DeleteSource, CopyPath, MakeDirectory, Children, ExistingItem, CopyItem, LoopCheck, WriteChunk,
       FinishItem, Copied, CommitFile, BackUpTarget, InstallStage, RemoveBackup, Unwind, AppendOutcome,
       Retry, GiveUp, Recover, Restarted, Crash, RestoreFails, RollbackFails, AppendFails, RequestStop,
       SystemCallFails
  <2>2. QED
    BY <1>1, <2>1, LastEntry
<1>5. pc \in AtItem \cup {"mkdir", "children"} => cp.root \in {"alt", "stage"}
  BY <1>1 DEF Safe, CopyRecord
<1>6. cp'.created => cp'.root \in {"alt", "stage"}
  <2>1. ~NoCopy.created
    BY DEF NoCopy
  <2>2. \A conflict, resuming, delete_source : StartCopy(conflict, resuming, delete_source) => ~cp'.created
    BY DEF StartCopy, NoCopy
  <2>3. CASE cp' = cp \/ cp' = NoCopy
    BY <1>1, <2>1, <2>3
  <2>4. CASE Apply \/ Rename
    BY <1>1, <2>2, <2>4 DEF Apply, Rename
  <2>5. CASE CopyPath
    <3>1. ~cp.created
      BY <2>5 DEF CopyPath, Safe, CopyRecord
    <3>2. cp'.created = cp.created
      BY <1>1, <2>5 DEF CopyPath, Copies
    <3>3. QED
      BY <3>1, <3>2
  <2>6. CASE MakeDirectory
    <3>1. cp.root \in {"alt", "stage"}
      BY <1>5, <2>6 DEF MakeDirectory
    <3>2. cp'.root = cp.root
      BY <1>1, <2>6 DEF MakeDirectory, Copies
    <3>3. QED
      BY <3>1, <3>2
  <2>7. CASE Children
    <3>1. cp.root \in {"alt", "stage"}
      BY <1>5, <2>7 DEF Children
    <3>2. cp'.root = cp.root
      BY <1>1, <2>7 DEF Children, Copies
    <3>3. QED
      BY <3>1, <3>2
  <2>8. CASE ExistingItem \/ FinishItem
    <3>1. cp.root \in {"alt", "stage"}
      BY <1>5, <2>8 DEF ExistingItem, FinishItem, AtItem
    <3>2. cp'.root = cp.root
      BY <1>1, <2>8 DEF ExistingItem, FinishItem, ItemDone, Copies
    <3>3. QED
      BY <3>1, <3>2
  <2>9. QED
    BY <1>2, <2>3, <2>4, <2>5, <2>6, <2>7, <2>8 DEF Next, Engine, vars, Begin, ClearTarget,
     CollapseSameFile, Renamed, DeleteSource, CopyItem, LoopCheck, WriteChunk, Copied, CommitFile,
     BackUpTarget, InstallStage, RemoveBackup, Unwind, AppendOutcome, Retry, GiveUp, Recover, Crash,
     RestoreFails, RollbackFails, AppendFails, RequestStop, SystemCallFails
<1>7. fs'["to"] = fs["to"]
  <2>1. CASE \E p \in Paths \ {"to"} : \E n : fs' = [fs EXCEPT ![p] = n]
    BY <2>1, EnginePlaces DEF Paths
  <2>2. CASE \E p \in Paths \ {"to"}, q \in Paths \ {"to"} :
               \E m, n : fs' = [fs EXCEPT ![p] = m, ![q] = n]
    BY <2>2, EnginePlaces DEF Paths
  <2>3. CASE fs' = fs
    BY <2>3
  <2>4. CASE ClearTarget \/ RemoveBackup \/ DeleteSource \/ CollapseSameFile
    BY <1>1, <2>1, <2>4 DEF ClearTarget, RemoveBackup, DeleteSource, RemoveTree, CollapseSameFile, Paths
  <2>5. CASE MakeDirectory \/ CopyItem \/ WriteChunk
    BY <1>5, <2>1, <2>3, <2>5 DEF MakeDirectory, CopyItem, WriteChunk, SetItem, AtItem, Paths
  <2>6. CASE CommitFile \/ BackUpTarget \/ InstallStage \/ Begin \/ Rename
    <3>1. CASE CommitFile \/ InstallStage
      BY <1>1, <3>1, EnginePlaces DEF CommitFile, InstallStage, Paths
    <3>2. CASE BackUpTarget
      BY <1>1, <3>2, EnginePlaces DEF BackUpTarget, Paths
    <3>3. CASE Begin
      BY <3>3, EnginePlaces DEF Begin, Sweep, Paths
    <3>4. CASE Rename
      BY <1>1, <3>4, EnginePlaces DEF Rename, Paths
    <3>5. QED
      BY <2>6, <3>1, <3>2, <3>3, <3>4
  <2>7. CASE Unwind
    BY <1>1, <2>1, <2>3, <2>7 DEF Unwind, RolledBack, Paths
  <2>8. ASSUME NEW class \in {"Transient", "Permanent"}, SystemCallFails(class) PROVE fs'["to"] = fs["to"]
    <3>1. CASE pc \in {"bytes", "write"}
      BY <1>5, <2>1, <2>8, <3>1 DEF SystemCallFails, AtItem, Paths
    <3>2. CASE pc = "install"
      BY <1>1, <2>2, <2>8, <3>2 DEF SystemCallFails, Paths
    <3>3. CASE pc \notin {"bytes", "write", "install"}
      BY <2>8, <3>3 DEF SystemCallFails
    <3>4. QED
      BY <3>1, <3>2, <3>3
  <2>9. QED
    BY <1>2, <2>3, <2>4, <2>5, <2>6, <2>7, <2>8 DEF Next, Engine, vars, Apply, Renamed, CopyPath,
     Children, ExistingItem, LoopCheck, FinishItem, Copied, AppendOutcome, Retry, GiveUp, Recover,
     Crash, RestoreFails, RollbackFails, AppendFails, RequestStop
<1>8. QED
  BY <1>1, <1>3, <1>4, <1>6, <1>7 DEF OldBeside

\* OldIsKept holds before the operation is accepted.
LEMMA OldInit == ASSUME Init PROVE OldIsKept
<1>1. Shape
  BY ShapeInit
<1>2. ASSUME Protected PROVE OldInPlace
  <2>1. fs["to"] = op.to /\ Holds(op.to, op.to)
    BY <1>1, <1>2, OldFacts DEF Init, Paths
  <2>2. OldOrNew({fs["backup"]})
    BY <2>1 DEF OldOrNew
  <2>3. QED
    BY <2>2 DEF Init, OldInPlace, OldWhileStaged, OldWhileMerged, Early, AtItem, NoCopy, RecoveryContext
<1>3. QED
  BY <1>2 DEF OldIsKept

\* Every step keeps OldIsKept.
LEMMA OldNext == ASSUME Shape, Safe, OldIsKept, [Next]_vars PROVE OldIsKept'
<1>1. op' = op
  BY DEF Next, Engine, vars, Begin, Apply, ClearTarget, Rename, CollapseSameFile, Renamed,
     DeleteSource, CopyPath, MakeDirectory, Children, ExistingItem, CopyItem, LoopCheck, WriteChunk,
     FinishItem, Copied, CommitFile, BackUpTarget, InstallStage, RemoveBackup, Unwind, AppendOutcome,
     Retry, GiveUp, Accept, Recover, Crash, RestoreFails, RollbackFails, AppendFails, RequestStop,
     SystemCallFails
<1>2. Protected' => Protected
  BY <1>1 DEF Protected
<1>3. QED
  BY <1>2, OrphanStays, OldBesideNext, OldInPlaceNext DEF OldIsKept

\* What was at the destination is never lost: it is left in its place, or a complete
\* replacement of its own sort is there, or a hidden sibling has it (target.rs
\* commit_staged_directory_replace, rename_replacing_file), at every crash and failure,
\* when comparing tells the old destination from the new one.
THEOREM OldTargetSafe == ASSUME ComparisonTells PROVE Spec => []OldTargetIsSafe
<1>1. Init => Shape /\ Safe /\ OldIsKept
  BY ShapeInit, SafeInit, OldInit
<1>2. Shape /\ Safe /\ OldIsKept /\ [Next]_vars => (Shape /\ Safe /\ OldIsKept)'
  BY ShapeNext, SafeNext, OldNext
<1>3. Shape /\ OldIsKept => OldTargetIsSafe
  <2> SUFFICES ASSUME Shape, OldIsKept, Protected PROVE OldOrNew({fs["backup"]} \cup orphans)
    BY DEF OldTargetIsSafe, Protected
  <2>1. CASE OldInOrphan
    BY <2>1 DEF OldInOrphan, OldOrNew
  <2>2. CASE OldBeside
    BY <2>2, OldFacts DEF OldBeside, OldOrNew
  <2>3. CASE OldInPlace
    BY <2>3 DEF OldInPlace, OldOrNew
  <2>4. QED
    BY <2>1, <2>2, <2>3 DEF OldIsKept
<1>4. QED
  BY <1>1, <1>2, <1>3, PTL DEF Spec

-----------------------------------------------------------------------------
(* The Trash.                                                              *)

-----------------------------------------------------------------------------
(* Paths *)

\* A path tells what it is the path of.
LEMMA PathsTell ==
  /\ \A i, j : Home(i) = Home(j) => i = j
  /\ \A m, n : InTrash(m) = InTrash(n) => m = n
  /\ \A i, n : Home(i) # InTrash(n)
  /\ \A i : Home(i) # Nowhere /\ Home(i)[2] = i /\ BaseName(Home(i)) = NameOf[i]
  /\ \A n : InTrash(n) # Nowhere /\ BaseName(InTrash(n)) = n
BY DEF Home, InTrash, Nowhere, BaseName

\* The entries of a metadata file, one by one.
LEMMA EntriesAre ==
  ASSUME NEW e
  PROVE  e \in Entries <=> /\ DOMAIN e \subseteq NamesInTrash
                           /\ e = [n \in DOMAIN e |-> e[n]]
                           /\ \A n \in DOMAIN e : e[n] \in Items
BY DEF Entries

\* What an operation makes of the entries is a set of entries again.
LEMMA ChangedIsEntries ==
  ASSUME TrashTypeOK, NEW p \in Procs, proc[p] # Idle
  PROVE  Changed(p, meta) \in Entries
<1> DEFINE act == proc[p]
           name == BaseName(act.path)
<1>1. meta \in Entries /\ DOMAIN meta \subseteq NamesInTrash /\ \A n \in DOMAIN meta : meta[n] \in Items
  BY EntriesAre DEF TrashTypeOK
<1>2. ASSUME NEW D \in SUBSET DOMAIN meta PROVE Restrict(meta, D) \in Entries
  BY <1>1 DEF Restrict, Entries
<1>3. CASE act.kind = "trash"
  <2>1. PICK i \in Items : act.path = Home(i)
    BY <1>3 DEF TrashTypeOK, Askable, Asked, HomePaths
  <2>2. name = NameOf[i] /\ act.path[2] = i /\ NameOf[i] \in NamesInTrash
    BY <2>1, PathsTell DEF NamesInTrash
  <2>3. WithEntry(meta, name, act.path[2]) \in [DOMAIN meta \cup {name} -> Items]
    BY <2>2, <1>1 DEF WithEntry
  <2>4. WithEntry(meta, name, act.path[2]) \in Entries
    BY <2>3, <2>2, <1>1 DEF Entries
  <2>5. ~act.reconciling
    BY <1>3 DEF TrashTypeOK
  <2>6. QED
    BY <2>4, <2>5, <1>3 DEF Changed
<1>4. CASE act.kind # "trash"
  BY <1>2, <1>4 DEF Changed
<1>5. QED
  BY <1>3, <1>4

-----------------------------------------------------------------------------
(* Types *)

\* Before the first operation every item is at home and nothing is recorded.
LEMMA InitTrashTypes == TrashInit => TrashTypeOK
<1> SUFFICES ASSUME TrashInit PROVE TrashTypeOK
  OBVIOUS
<1>1. \A i, j \in Items : place[i] = place[j] => i = j \/ place[i] = Nowhere
  BY PathsTell DEF TrashInit
<1>2. place \in [Items -> Places]
  BY DEF TrashInit, Places, UserPaths, HomePaths
<1>3. Nothing \in Entries
  BY DEF Nothing, Entries
<1>4. Idle \in Operations
  BY <1>3 DEF Idle, Operations, TrashKinds, TrashLabels, Places
<1>5. QED
  BY <1>1, <1>2, <1>3, <1>4 DEF TrashInit, TrashTypeOK, Idle, NoFile

\* An item that goes to a path that is free, or is lost, stays alone there.
LEMMA MovedTypes ==
  ASSUME TrashTypeOK, NEW from, NEW to \in Places, ~Occupied(to) \/ to = Nowhere,
         from # Nowhere, MoveItem(from, to)
  PROVE  /\ place' \in [Items -> Places]
         /\ \A i, j \in Items : place'[i] = place'[j] => i = j \/ place'[i] = Nowhere
<1>1. place' = [i \in Items |-> IF place[i] = from THEN to ELSE place[i]]
  BY DEF MoveItem
<1>2. place' \in [Items -> Places]
  BY <1>1 DEF TrashTypeOK
<1>3. \A i \in Items : place[i] # to \/ to = Nowhere
  BY DEF Occupied
<1>4. QED
  BY <1>1, <1>2, <1>3 DEF TrashTypeOK

\* A new operation is as it was asked for.
LEMMA OperationTypes ==
  ASSUME TrashTypeOK, NEW kind, NEW path, NEW dest, NEW recorded \in BOOLEAN,
         Askable(kind, path, dest)
  PROVE  LET o == Operation(kind, path, dest, recorded) IN
         /\ o \in Operations
         /\ Askable(o.kind, Asked(o), o.dest)
         /\ o.pc = "next" \/ o.reconciling => o.kind = "empty"
<1>1. Nothing \in Entries
  BY DEF Nothing, Entries
<1>2. kind \in TrashKinds /\ path \in Places /\ dest \in Places
  BY DEF Askable, TrashKinds, Places, UserPaths
<1>3. TrashNames \in SUBSET NamesInTrash
  BY DEF TrashNames
<1>4. FirstStep(kind, recorded) \in TrashLabels
  BY DEF FirstStep, TrashLabels
<1>5. FirstStep(kind, recorded) = "next" => kind = "empty"
  BY DEF FirstStep
<1>6. kind = "empty" => path = Nowhere
  BY DEF Askable
<1>7. QED
  BY <1>1, <1>2, <1>3, <1>4, <1>5, <1>6 DEF Operation, Asked, Operations

\* What is asked for can be asked for: a restore goes where an entry says.
LEMMA RequestsAskable ==
  ASSUME TrashTypeOK, NEW r \in Requests
  PROVE  Askable(r[1], r[2], r[3])
<1>1. \A n \in DOMAIN meta : meta[n] \in Items
  BY EntriesAre DEF TrashTypeOK
<1>2. \A n \in TrashNames \cap DOMAIN meta :
        InTrash(n) \in TrashPaths /\ Home(meta[n]) \in HomePaths
  BY <1>1 DEF TrashNames, TrashPaths, HomePaths
<1>3. QED
  BY <1>2 DEF Requests, Askable

\* No step makes a value of another type.
LEMMA NextTrashTypes ==
  ASSUME TrashTypeOK, [TrashNext]_trashVars
  PROVE  TrashTypeOK'
<1> DEFINE Sane(o) == /\ o = Idle \/ Askable(o.kind, Asked(o), o.dest)
                      /\ o.pc = "next" \/ o.reconciling => o.kind = "empty"
<1>1. CASE UNCHANGED trashVars
  BY <1>1 DEF TrashTypeOK, trashVars, Askable, Asked
<1>2. ASSUME NEW p \in Procs, NEW o, proc' = [proc EXCEPT ![p] = o], o \in Operations, Sane(o),
             temp' \in [Procs -> SUBSET Entries],
             \A q \in Procs : q # p => temp'[q] = temp[q],
             temp'[p] # NoFile => o.pc \in {"flush", "rename"},
             place' \in [Items -> Places],
             \A i, j \in Items : place'[i] = place'[j] => i = j \/ place'[i] = Nowhere,
             meta' \in Entries,
             \A r \in unfinished' : Askable(r[1], r[2], r[3]),
             replayed' \subseteq Items
      PROVE  TrashTypeOK'
  <2>1. proc' \in [Procs -> Operations]
    BY <1>2 DEF TrashTypeOK
  <2>2. ASSUME NEW q \in Procs
        PROVE  (temp'[q] # NoFile => proc'[q].pc \in {"flush", "rename"}) /\ Sane(proc'[q])
    BY <1>2 DEF TrashTypeOK
  <2>3. QED
    BY <1>2, <2>1, <2>2 DEF TrashTypeOK
<1>3. ASSUME NEW p \in Procs, NEW r \in Requests, Start(p, r)
      PROVE  TrashTypeOK'
  <2>1. Askable(r[1], r[2], r[3])
    BY RequestsAskable
  <2> DEFINE o == Operation(r[1], r[2], r[3], TRUE)
  <2>2. o \in Operations /\ Sane(o)
    BY <2>1, OperationTypes
  <2>3. temp[p] = NoFile
    BY <1>3 DEF TrashTypeOK, Start, BeginAs, Idle
  <2> HIDE DEF o
  <2>4. proc' = [proc EXCEPT ![p] = o]
    BY <1>3 DEF Start, BeginAs, o
  <2>5. QED
    BY <1>2, <2>2, <2>3, <2>4, <1>3 DEF TrashTypeOK, Start
<1>4. ASSUME NEW p \in Procs, NEW r \in unfinished, Replay(p, r)
      PROVE  TrashTypeOK'
  <2>1. Askable(r[1], r[2], r[3])
    BY DEF TrashTypeOK
  <2> DEFINE o == Operation(r[1], r[2], r[3], FALSE)
  <2>2. o \in Operations /\ Sane(o)
    BY <2>1, OperationTypes
  <2>3. temp[p] = NoFile
    BY <1>4 DEF TrashTypeOK, Replay, BeginAs, Idle
  <2> HIDE DEF o
  <2>4. proc' = [proc EXCEPT ![p] = o]
    BY <1>4 DEF Replay, BeginAs, o
  <2>5. QED
    BY <1>2, <2>2, <2>3, <2>4, <1>4 DEF TrashTypeOK, Replay
<1>5. ASSUME NEW p \in Procs, Step(p)
      PROVE  TrashTypeOK'
  <2> DEFINE act == proc[p]
  <2>1. act \in Operations /\ Sane(act)
    BY DEF TrashTypeOK
  <2>2. Idle \in Operations /\ Sane(Idle)
    <3>1. Nothing \in Entries
      BY DEF Nothing, Entries
    <3>2. QED
      BY <3>1 DEF Idle, Operations, TrashKinds, TrashLabels, Places
  <2>3. act.pc # "idle" => act # Idle
    BY DEF Idle
  <2>4. act # Idle => Askable(act.kind, Asked(act), act.dest)
    BY <2>1
  <2>5. CASE TrashDelete(p)
    <3>1. PICK n \in NamesInTrash : ~Occupied(InTrash(n)) /\ MoveItem(act.path, InTrash(n))
      <4>1. PICK i \in Items : act.path = Home(i)
        BY <2>4, <2>3, <2>5 DEF TrashDelete, Askable, Asked, HomePaths
      <4>2. BaseName(act.path) \in NamesInTrash
        BY <4>1, PathsTell DEF NamesInTrash
      <4>3. QED
        BY <4>2, <2>5 DEF TrashDelete, TrashNames, NamesInTrash
    <3>2. InTrash(n) \in Places
      BY DEF Places, UserPaths, TrashPaths
    <3>3. act.path # Nowhere
      BY <2>4, <2>3, <2>5, PathsTell DEF TrashDelete, Askable, Asked, HomePaths
    <3>4. proc' = [proc EXCEPT ![p] = [act EXCEPT !.pc = "completed"]]
      BY <2>5 DEF TrashDelete, StepTo
    <3>5. [act EXCEPT !.pc = "completed"] \in Operations /\ Sane([act EXCEPT !.pc = "completed"])
      BY <2>1, <2>3, <2>5 DEF TrashDelete, TrashLabels, Asked, Operations
    <3>6. temp[p] = NoFile
      BY <2>5 DEF TrashDelete, TrashTypeOK
    <3>7. replayed' \subseteq Items
      BY <2>5 DEF TrashDelete, TrashTypeOK
    <3>8. place' \in [Items -> Places]
          /\ \A i, j \in Items : place'[i] = place'[j] => i = j \/ place'[i] = Nowhere
      BY <3>1, <3>2, <3>3, MovedTypes
    <3>9. QED
      BY <1>2, <2>5, <3>4, <3>5, <3>6, <3>7, <3>8 DEF TrashDelete, TrashTypeOK
  <2>6. CASE DeletePath(p)
    <3>1. act.path # Nowhere
      BY <2>4, <2>3, <2>6, PathsTell DEF DeletePath, Askable, Asked, UserPaths, HomePaths, TrashPaths
    <3>2. place' \in [Items -> Places]
          /\ \A i, j \in Items : place'[i] = place'[j] => i = j \/ place'[i] = Nowhere
      BY <3>1, <2>6, MovedTypes DEF DeletePath, Places
    <3> DEFINE o == [act EXCEPT !.pc = IF act.recorded THEN "read" ELSE "completed"]
    <3>3. o \in Operations /\ Sane(o)
      BY <2>1, <2>3, <2>6 DEF DeletePath, TrashLabels, Asked, Operations
    <3>4. proc' = [proc EXCEPT ![p] = o]
      BY <2>6 DEF DeletePath, AfterChange, StepTo
    <3>5. temp[p] = NoFile
      BY <2>6 DEF DeletePath, TrashTypeOK
    <3> HIDE DEF o
    <3>6. QED
      BY <1>2, <2>6, <3>2, <3>3, <3>4, <3>5 DEF DeletePath, TrashTypeOK
  <2>7. CASE RestorePath(p)
    <3>1. act.path # Nowhere /\ act.dest \in Places
      BY <2>4, <2>3, <2>7, PathsTell
         DEF RestorePath, Askable, Asked, UserPaths, HomePaths, TrashPaths, Places
    <3>2. place' \in [Items -> Places]
          /\ \A i, j \in Items : place'[i] = place'[j] => i = j \/ place'[i] = Nowhere
      BY <3>1, <2>7, MovedTypes DEF RestorePath
    <3> DEFINE o == [act EXCEPT !.pc = IF act.recorded THEN "read" ELSE "completed"]
    <3>3. o \in Operations /\ Sane(o)
      BY <2>1, <2>3, <2>7 DEF RestorePath, TrashLabels, Asked, Operations
    <3>4. proc' = [proc EXCEPT ![p] = o]
      BY <2>7 DEF RestorePath, AfterChange, StepTo
    <3>5. temp[p] = NoFile
      BY <2>7 DEF RestorePath, TrashTypeOK
    <3> HIDE DEF o
    <3>6. QED
      BY <1>2, <2>7, <3>2, <3>3, <3>4, <3>5 DEF RestorePath, TrashTypeOK
  <2>8. CASE DeleteTrashChild(p)
    <3>1. PICK n \in act.todo :
            /\ MoveItem(InTrash(n), Nowhere)
            /\ proc' = [proc EXCEPT ![p].todo = @ \ {n}, ![p].path = InTrash(n),
                          ![p].pc = IF @ = "next" /\ proc[p].recorded THEN "read" ELSE "next"]
      BY <2>8 DEF DeleteTrashChild
    <3>2. n \in NamesInTrash /\ InTrash(n) \in Places
      BY <2>1 DEF Operations, Places, UserPaths, TrashPaths
    <3>3. place' \in [Items -> Places]
          /\ \A i, j \in Items : place'[i] = place'[j] => i = j \/ place'[i] = Nowhere
      BY <3>1, PathsTell, MovedTypes DEF Places
    <3> DEFINE o == [act EXCEPT !.todo = act.todo \ {n}, !.path = InTrash(n),
                               !.pc = IF act.recorded THEN "read" ELSE "next"]
    <3>4. act.kind = "empty" /\ act.pc = "next"
      BY <2>8 DEF DeleteTrashChild, TrashTypeOK
    <3>5. o \in Operations /\ Sane(o)
      BY <2>1, <2>3, <3>2, <3>4 DEF TrashLabels, Asked, Operations
    <3>6. proc' = [proc EXCEPT ![p] = o]
      BY <3>1, <3>4, <2>1 DEF Operations, TrashTypeOK
    <3>7. temp[p] = NoFile
      BY <3>4 DEF TrashTypeOK
    <3> HIDE DEF o
    <3>8. QED
      BY <1>2, <2>8, <3>3, <3>5, <3>6, <3>7 DEF DeleteTrashChild, TrashTypeOK
  <2>9. CASE Reconcile(p)
    <3> DEFINE o == [act EXCEPT !.reconciling = TRUE,
                               !.pc = IF act.recorded THEN "read" ELSE "completed"]
    <3>1. o \in Operations /\ Sane(o)
      BY <2>1, <2>3, <2>9 DEF Reconcile, TrashLabels, Asked, Operations
    <3>2. proc' = [proc EXCEPT ![p] = o]
      BY <2>9 DEF Reconcile
    <3>3. temp[p] = NoFile
      BY <2>9 DEF Reconcile, TrashTypeOK
    <3> HIDE DEF o
    <3>4. QED
      BY <1>2, <2>9, <3>1, <3>2, <3>3 DEF Reconcile, TrashTypeOK
  <2>10. CASE ReadMetadata(p)
    <3> DEFINE entries == Changed(p, meta)
               o == [act EXCEPT !.buf = entries,
                               !.pc = IF act.reconciling /\ entries = meta
                                      THEN "completed" ELSE "create"]
    <3>1. entries \in Entries
      BY <2>3, <2>10, ChangedIsEntries DEF ReadMetadata
    <3>2. proc' = [proc EXCEPT ![p] = o]
      BY <2>10 DEF ReadMetadata
    <3>3. temp[p] = NoFile
      BY <2>10 DEF ReadMetadata, TrashTypeOK
    <3> HIDE DEF entries
    <3>4. o \in Operations /\ Sane(o)
      BY <2>1, <2>3, <2>10, <3>1 DEF ReadMetadata, TrashLabels, Asked, Operations
    <3> HIDE DEF o
    <3>5. QED
      BY <1>2, <2>10, <3>2, <3>3, <3>4 DEF ReadMetadata, TrashTypeOK
  <2>11. CASE CreateTemporary(p)
    <3> DEFINE o == [act EXCEPT !.pc = "flush"]
    <3>1. o \in Operations /\ Sane(o)
      BY <2>1, <2>3, <2>11 DEF CreateTemporary, TrashLabels, Asked, Operations
    <3>2. proc' = [proc EXCEPT ![p] = o] /\ o.pc = "flush"
      BY <2>11, <2>1 DEF CreateTemporary, StepTo, Operations
    <3>3. {Nothing} \in SUBSET Entries
      BY DEF Nothing, Entries
    <3> HIDE DEF o
    <3>4. QED
      BY <1>2, <2>11, <3>1, <3>2, <3>3 DEF CreateTemporary, TrashTypeOK
  <2>12. CASE FlushTemporary(p)
    <3> DEFINE o == [act EXCEPT !.pc = "rename"]
    <3>1. o \in Operations /\ Sane(o)
      BY <2>1, <2>3, <2>12 DEF FlushTemporary, TrashLabels, Asked, Operations
    <3>2. proc' = [proc EXCEPT ![p] = o] /\ o.pc = "rename"
      BY <2>12, <2>1 DEF FlushTemporary, StepTo, Operations
    <3>3. {act.buf} \in SUBSET Entries
      BY <2>1 DEF Operations
    <3> HIDE DEF o
    <3>4. QED
      BY <1>2, <2>12, <3>1, <3>2, <3>3 DEF FlushTemporary, TrashTypeOK
  <2>13. CASE RenameTemporary(p)
    <3> DEFINE o == [act EXCEPT !.pc = AfterWrite(act)]
    <3>1. /\ AfterWrite(act) \in TrashLabels
          /\ AfterWrite(act) = "next" => act.kind = "empty"
      BY DEF AfterWrite, TrashLabels
    <3>2. o \in Operations /\ Sane(o)
      BY <2>1, <2>3, <2>13, <3>1 DEF RenameTemporary, Asked, Operations
    <3>3. proc' = [proc EXCEPT ![p] = o]
      BY <2>13 DEF RenameTemporary, StepTo
    <3>4. meta' \in Entries
      BY <2>13 DEF RenameTemporary, TrashTypeOK
    <3> HIDE DEF o
    <3>5. temp' \in [Procs -> SUBSET Entries] /\ temp'[p] = NoFile
          /\ \A q \in Procs : q # p => temp'[q] = temp[q]
      BY <2>13 DEF RenameTemporary, TrashTypeOK, NoFile
    <3>6. QED
      BY <1>2, <2>13, <3>2, <3>3, <3>4, <3>5 DEF RenameTemporary, TrashTypeOK
  <2>14. CASE Complete(p)
    <3>1. temp[p] = NoFile
      BY <2>14 DEF Complete, TrashTypeOK
    <3>2. QED
      BY <1>2, <2>2, <2>14, <3>1 DEF Complete, TrashTypeOK
  <2>15. CASE Abandon(p)
    <3>1. temp' \in [Procs -> SUBSET Entries] /\ temp'[p] = NoFile
          /\ \A q \in Procs : q # p => temp'[q] = temp[q]
      BY <2>15 DEF Abandon, Fail, TrashTypeOK, NoFile
    <3>2. QED
      BY <1>2, <2>2, <2>15, <3>1 DEF Abandon, Fail, TrashTypeOK
  <2>16. CASE StopProcess(p)
    <3>1. temp' \in [Procs -> SUBSET Entries] /\ temp'[p] = NoFile
          /\ \A q \in Procs : q # p => temp'[q] = temp[q]
      BY <2>16 DEF StopProcess, TrashTypeOK, NoFile
    <3>2. \A r \in unfinished' : Askable(r[1], r[2], r[3])
      BY <2>4, <2>16 DEF StopProcess, TrashTypeOK
    <3>3. QED
      BY <1>2, <2>2, <2>16, <3>1, <3>2 DEF StopProcess, TrashTypeOK
  <2>17. QED
    BY <1>5, <2>5, <2>6, <2>7, <2>8, <2>9, <2>10, <2>11, <2>12, <2>13, <2>14, <2>15, <2>16 DEF Step
<1>6. QED
  BY <1>1, <1>3, <1>4, <1>5 DEF TrashNext

\* Places, entries and operations stay what they are, with any number of processes; no
\* two items come to be at one path, and no temporary file is left to an operation that
\* does not write (trashmeta.rs, removal.rs, restore_path).
THEOREM TrashTypes == TrashSpec => []TrashTypeOK
<1>1. TrashTypeOK /\ [TrashNext]_trashVars => TrashTypeOK'
  BY NextTrashTypes
<1>2. QED
  BY <1>1, InitTrashTypes, PTL DEF TrashSpec

-----------------------------------------------------------------------------
(* The inductive invariant, for one process and items of different names *)

\* An item is at home, in the Trash under its own name, or gone.
InItsPlaces ==
  \A i \in Items : place[i] = Home(i) \/ place[i] = InTrash(NameOf[i]) \/ place[i] = Nowhere

\* An entry leads from a name to the item of that name.
EntriesMatch == \A n \in DOMAIN meta : NameOf[meta[n]] = n

\* A restore leads from the Trash to the home of the item.
Leads(kind, path, dest) ==
  kind = "restore" => \E i \in Items : path = InTrash(NameOf[i]) /\ dest = Home(i)

RestoresMatch ==
  /\ \A p \in Procs : Leads(proc[p].kind, proc[p].path, proc[p].dest)
  /\ \A r \in unfinished : Leads(r[1], r[2], r[3])

\* What went to the Trash with its metadata has its entry.
EntriesAreThere ==
  \A i \in Items \ replayed : place[i] = InTrash(NameOf[i]) => NameOf[i] \in DOMAIN meta

TrashWriting == {"read", "create", "flush", "rename"}

\* Where an operation is: a trash has written its entry before the item goes, what is
\* being written is what the operation makes of the file as it is, the item is gone
\* before its entry goes, and an Empty Trash has looked for entries without an item.
OperationAt(p) ==
  LET act == proc[p] IN
  /\ act.kind = "trash" /\ act.recorded /\ act.pc = "change" => BaseName(act.path) \in DOMAIN meta
  /\ act.pc \in {"create", "flush", "rename"} => act.buf = Changed(p, meta)
  /\ act.pc = "rename" => temp[p] = {act.buf}
  /\ act.pc \in TrashWriting /\ act.kind # "trash" /\ ~act.reconciling =>
       \A i \in Items : NameOf[i] = BaseName(act.path) => place[i] # InTrash(NameOf[i])
  /\ act.kind = "empty" /\ act.pc = "completed" /\ act.recorded => DOMAIN meta \subseteq TrashNames

TrashInv ==
  /\ TrashTypeOK
  /\ InItsPlaces
  /\ EntriesMatch
  /\ RestoresMatch
  /\ EntriesAreThere
  /\ \A p \in Procs : OperationAt(p)

\* As long as the item and the file stay, so does what an operation makes of it.
LEMMA SameChange ==
  ASSUME NEW p \in Procs, place' = place, meta' = meta,
         proc'[p].kind = proc[p].kind, proc'[p].path = proc[p].path,
         proc'[p].reconciling = proc[p].reconciling
  PROVE  Changed(p, meta)' = Changed(p, meta) /\ TrashNames' = TrashNames
<1>1. TrashNames' = TrashNames
  BY DEF TrashNames, Occupied
<1>2. QED
  BY <1>1 DEF Changed

\* The names in the Trash are those of the items there.
LEMMA NamesOfTrashed ==
  ASSUME InItsPlaces, TrashTypeOK
  PROVE  \A n : n \in TrashNames <=> \E i \in Items : NameOf[i] = n /\ place[i] = InTrash(n)
<1>1. ASSUME NEW i \in Items, NEW n, place[i] = InTrash(n) PROVE NameOf[i] = n
  BY <1>1, PathsTell DEF InItsPlaces
<1>2. \A i \in Items : NameOf[i] \in NamesInTrash
  BY DEF NamesInTrash
<1>3. QED
  BY <1>1, <1>2 DEF TrashNames, Occupied

\* A step that leaves the items and the file alone keeps the invariant, if the operation
\* it leads to is one that may stand there.
LEMMA QuietStep ==
  ASSUME OneOperator, TrashInv, TrashTypeOK', NEW p \in Procs,
         place' = place, meta' = meta, replayed' = replayed,
         Leads(proc'[p].kind, proc'[p].path, proc'[p].dest),
         \A r \in unfinished' : Leads(r[1], r[2], r[3]), OperationAt(p)'
  PROVE  TrashInv'
<1>1. \A q \in Procs : q = p
  BY DEF OneOperator
<1>2. RestoresMatch'
  BY <1>1 DEF RestoresMatch
<1>3. InItsPlaces' /\ EntriesMatch' /\ EntriesAreThere'
  BY DEF TrashInv, InItsPlaces, EntriesMatch, EntriesAreThere
<1>4. \A q \in Procs : OperationAt(q)'
  BY <1>1
<1>5. QED
  BY <1>2, <1>3, <1>4 DEF TrashInv

\* A process without an operation may stand anywhere.
LEMMA IdleIsQuiet ==
  ASSUME NEW p \in Procs, proc'[p] = Idle
  PROVE  Leads(proc'[p].kind, proc'[p].path, proc'[p].dest) /\ OperationAt(p)'
<1>1. proc'[p].kind = "none" /\ proc'[p].pc = "idle"
  BY DEF Idle
<1>2. QED
  BY <1>1 DEF Leads, OperationAt, TrashWriting

\* An operation begins with the entry of its item, with the item, or with the list.
LEMMA NewIsQuiet ==
  ASSUME NEW p \in Procs, NEW kind, NEW path, NEW dest, NEW recorded \in BOOLEAN,
         proc'[p] = Operation(kind, path, dest, recorded), Askable(kind, path, dest),
         Leads(kind, path, dest)
  PROVE  Leads(proc'[p].kind, proc'[p].path, proc'[p].dest) /\ OperationAt(p)'
<1> DEFINE o == proc'[p]
<1>1. /\ o.kind = kind /\ o.path = path /\ o.dest = dest /\ o.recorded = recorded
      /\ o.pc = FirstStep(kind, recorded)
  BY DEF Operation
<1>2. /\ o.pc \in {"read", "next", "change"}
      /\ o.pc = "read" <=> kind = "trash" /\ recorded
  BY <1>1 DEF FirstStep
<1>3. ~(kind = "trash" /\ recorded /\ o.pc = "change")
  BY <1>2
<1>4. OperationAt(p)'
  BY <1>1, <1>2, <1>3 DEF OperationAt, TrashWriting
<1>5. QED
  BY <1>1, <1>4

\* A restore is asked for only where an entry leads to the item.
LEMMA RequestsLead ==
  ASSUME TrashInv, NEW r \in Requests
  PROVE  Leads(r[1], r[2], r[3])
<1>1. \A n \in DOMAIN meta : meta[n] \in Items
  BY EntriesAre DEF TrashTypeOK, TrashInv
<1>2. ASSUME NEW n \in TrashNames \cap DOMAIN meta, r = <<"restore", InTrash(n), Home(meta[n])>>
      PROVE  Leads(r[1], r[2], r[3])
  BY <1>1, <1>2 DEF Leads, TrashInv, EntriesMatch
<1>3. QED
  BY <1>2 DEF Requests, Leads

\* An item that leaves its path, if it is in its places, leaves it for one of its own.
LEMMA ItemMoves ==
  ASSUME NamesDiffer, InItsPlaces, TrashTypeOK, NEW from, NEW to, MoveItem(from, to),
         NEW k \in Items, from = Home(k) \/ from = InTrash(NameOf[k]),
         to = Home(k) \/ to = InTrash(NameOf[k]) \/ to = Nowhere
  PROVE  /\ InItsPlaces'
         /\ \A i \in Items : place'[i] = IF place[i] = from THEN to ELSE place[i]
         /\ \A i \in Items : place[i] = from => i = k
<1>1. \A i \in Items : place'[i] = IF place[i] = from THEN to ELSE place[i]
  BY DEF MoveItem
<1>2. \A i \in Items : place[i] = from => i = k
  BY PathsTell DEF InItsPlaces, NamesDiffer
<1>3. QED
  BY <1>1, <1>2 DEF InItsPlaces

\* Trashing: the entry is there before the item, or a replay did it.
LEMMA TrashDeleteInv ==
  ASSUME OneOperator, NamesDiffer, TrashInv, TrashTypeOK', NEW p \in Procs, TrashDelete(p)
  PROVE  TrashInv'
<1> DEFINE act == proc[p]
<1>1. act # Idle /\ act \in Operations
  BY DEF TrashDelete, Idle, TrashInv, TrashTypeOK
<1>2. PICK k \in Items : act.path = Home(k)
  BY <1>1 DEF TrashDelete, TrashInv, TrashTypeOK, Askable, Asked, HomePaths
<1>3. BaseName(act.path) = NameOf[k]
  BY <1>2, PathsTell
<1>4. place[k] = Home(k)
  BY <1>2, PathsTell DEF TrashDelete, Occupied, TrashInv, InItsPlaces
<1>5. NameOf[k] \notin TrashNames
  <2>1. \A i \in Items : NameOf[i] = NameOf[k] => i = k
    BY DEF NamesDiffer
  <2>2. QED
    BY <2>1, <1>4, NamesOfTrashed, PathsTell DEF TrashInv
<1>6. MoveItem(Home(k), InTrash(NameOf[k]))
  BY <1>2, <1>3, <1>5 DEF TrashDelete
<1>7. /\ InItsPlaces'
      /\ \A i \in Items : i # k => place'[i] = place[i]
  BY <1>6, ItemMoves DEF TrashInv
<1>8. /\ proc'[p].kind = "trash" /\ proc'[p].path = act.path /\ proc'[p].dest = act.dest
      /\ proc'[p].pc = "completed"
  BY <1>1 DEF TrashDelete, StepTo, Operations, TrashInv, TrashTypeOK
<1>9. \A q \in Procs : q = p
  BY DEF OneOperator
<1>10. EntriesAreThere'
  <2>1. CASE act.recorded
    <3>1. NameOf[k] \in DOMAIN meta
      BY <2>1, <1>3 DEF TrashDelete, TrashInv, OperationAt
    <3>2. QED
      BY <2>1, <3>1, <1>7 DEF TrashDelete, TrashInv, EntriesAreThere
  <2>2. CASE ~act.recorded
    <3>1. k \in replayed' /\ replayed \subseteq replayed'
      BY <2>2, <1>2, <1>4 DEF TrashDelete
    <3>2. QED
      BY <3>1, <1>7 DEF TrashDelete, TrashInv, EntriesAreThere
  <2>3. QED
    BY <2>1, <2>2
<1>11. RestoresMatch'
  BY <1>8, <1>9 DEF TrashDelete, TrashInv, RestoresMatch, Leads
<1>12. OperationAt(p)'
  BY <1>8 DEF OperationAt, TrashWriting
<1>13. EntriesMatch'
  BY DEF TrashDelete, TrashInv, EntriesMatch
<1>14. QED
  BY <1>7, <1>9, <1>10, <1>11, <1>12, <1>13 DEF TrashInv

\* Deleting and restoring: the entry goes after the item, or stays.
LEMMA LeaveTrashInv ==
  ASSUME OneOperator, NamesDiffer, TrashInv, TrashTypeOK', NEW p \in Procs,
         NEW k \in Items, NEW from, NEW to, to = Home(k) \/ to = Nowhere,
         place[k] = from, from # Nowhere, from # to, MoveItem(from, to), meta' = meta,
         replayed' = replayed \/ replayed' = replayed \ {i \in Items : place[i] = from},
         unfinished' = unfinished,
         proc'[p].kind # "trash", proc'[p].path = from,
         Leads(proc'[p].kind, proc'[p].path, proc'[p].dest),
         proc'[p].pc = "read" \/ proc'[p].pc = "next" \/ (proc'[p].pc = "completed" /\ ~proc'[p].recorded)
  PROVE  TrashInv'
<1>1. from = Home(k) \/ from = InTrash(NameOf[k])
  BY DEF TrashInv, InItsPlaces
<1>2. BaseName(from) = NameOf[k]
  BY <1>1, PathsTell
<1>3. /\ InItsPlaces'
      /\ \A i \in Items : i # k => place'[i] = place[i]
      /\ \A i \in Items : place[i] = from => i = k
      /\ place'[k] = to
  BY <1>1, ItemMoves DEF TrashInv
<1>4. \A i \in Items : place'[i] = InTrash(NameOf[i]) => i # k /\ place[i] = InTrash(NameOf[i])
  BY <1>3, PathsTell
<1>5. EntriesAreThere'
  BY <1>3, <1>4 DEF TrashInv, EntriesAreThere
<1>6. \A i \in Items : NameOf[i] = BaseName(from) => place'[i] # InTrash(NameOf[i])
  BY <1>2, <1>4 DEF NamesDiffer
<1>7. \A q \in Procs : q = p
  BY DEF OneOperator
<1>8. RestoresMatch' /\ EntriesMatch'
  BY <1>7 DEF TrashInv, RestoresMatch, EntriesMatch
<1>9. OperationAt(p)'
  BY <1>6 DEF OperationAt, TrashWriting
<1>10. QED
  BY <1>3, <1>5, <1>7, <1>8, <1>9 DEF TrashInv

\* What an operation makes of the file: every entry it drops is without an item.
LEMMA ChangedKeeps ==
  ASSUME TrashInv, NEW p \in Procs, proc[p].pc \in TrashWriting
  PROVE  LET act == proc[p]
             e == Changed(p, meta)
         IN  /\ \A n \in DOMAIN e : NameOf[e[n]] = n
             /\ \A n \in DOMAIN meta \ DOMAIN e : n \notin TrashNames
             /\ act.kind = "trash" => BaseName(act.path) \in DOMAIN e
             /\ act.reconciling => DOMAIN e \subseteq TrashNames /\ act.kind = "empty"
<1> DEFINE act == proc[p]
           name == BaseName(act.path)
<1>1. act # Idle
  BY DEF Idle, TrashWriting
<1>2. act.reconciling => act.kind = "empty"
  BY DEF TrashInv, TrashTypeOK
<1>3. CASE act.kind = "trash"
  <2>1. PICK i \in Items : act.path = Home(i)
    BY <1>1, <1>3 DEF TrashInv, TrashTypeOK, Askable, Asked, HomePaths
  <2>2. name = NameOf[i] /\ act.path[2] = i
    BY <2>1, PathsTell
  <2>3. Changed(p, meta) = WithEntry(meta, name, i)
    BY <1>2, <1>3, <2>2 DEF Changed
  <2>4. QED
    BY <1>2, <1>3, <2>2, <2>3 DEF WithEntry, TrashInv, EntriesMatch
<1>4. CASE act.reconciling
  <2>1. Changed(p, meta) = Restrict(meta, DOMAIN meta \cap TrashNames)
    BY <1>2, <1>4 DEF Changed
  <2>2. QED
    BY <1>2, <1>4, <2>1 DEF Restrict, TrashInv, EntriesMatch
<1>5. CASE act.kind # "trash" /\ ~act.reconciling
  <2>1. Changed(p, meta) = Restrict(meta, DOMAIN meta \ {name})
    BY <1>5 DEF Changed
  <2>2. name \notin TrashNames
    BY <1>5, NamesOfTrashed DEF TrashInv, OperationAt
  <2>3. QED
    BY <1>5, <2>1, <2>2 DEF Restrict, TrashInv, EntriesMatch
<1>6. QED
  BY <1>3, <1>4, <1>5

\* The new file is put in place.
LEMMA RenameTemporaryInv ==
  ASSUME OneOperator, TrashInv, TrashTypeOK', NEW p \in Procs, RenameTemporary(p)
  PROVE  TrashInv'
<1> DEFINE act == proc[p]
           e == Changed(p, meta)
<1>1. act \in Operations /\ act.pc = "rename"
  BY DEF RenameTemporary, TrashInv, TrashTypeOK
<1>2. meta' = e
  BY DEF RenameTemporary, TrashInv, OperationAt
<1>3. /\ \A n \in DOMAIN e : NameOf[e[n]] = n
      /\ \A n \in DOMAIN meta \ DOMAIN e : n \notin TrashNames
      /\ act.kind = "trash" => BaseName(act.path) \in DOMAIN e
      /\ act.reconciling => DOMAIN e \subseteq TrashNames /\ act.kind = "empty"
  BY <1>1, ChangedKeeps DEF TrashWriting
<1>4. /\ proc'[p].kind = act.kind /\ proc'[p].path = act.path /\ proc'[p].dest = act.dest
      /\ proc'[p].reconciling = act.reconciling
      /\ proc'[p].pc = AfterWrite(act)
  BY <1>1 DEF RenameTemporary, StepTo, Operations, TrashInv, TrashTypeOK
<1>5. \A q \in Procs : q = p
  BY DEF OneOperator
<1>6. place' = place /\ unfinished' = unfinished /\ replayed' = replayed
  BY DEF RenameTemporary
<1>7. TrashNames' = TrashNames
  BY <1>6 DEF TrashNames, Occupied
<1> HIDE DEF e
<1>8. InItsPlaces' /\ EntriesMatch'
  BY <1>2, <1>3, <1>6 DEF TrashInv, InItsPlaces, EntriesMatch
<1>9. EntriesAreThere'
  BY <1>2, <1>3, <1>6, NamesOfTrashed DEF TrashInv, EntriesAreThere
<1>10. RestoresMatch'
  BY <1>4, <1>5, <1>6 DEF TrashInv, RestoresMatch
<1>11. OperationAt(p)'
  <2>1. /\ AfterWrite(act) \in {"change", "next", "completed"}
        /\ act.kind = "empty" /\ AfterWrite(act) = "completed" => act.reconciling
    BY DEF AfterWrite
  <2>2. QED
    BY <1>2, <1>3, <1>4, <1>7, <2>1 DEF OperationAt, TrashWriting
<1>12. QED
  BY <1>5, <1>8, <1>9, <1>10, <1>11 DEF TrashInv

\* Every step keeps the invariant.
LEMMA NextTrashInv ==
  ASSUME OneOperator, NamesDiffer, TrashInv, [TrashNext]_trashVars
  PROVE  TrashInv'
<1>1. TrashTypeOK'
  BY NextTrashTypes DEF TrashInv
<1>2. CASE UNCHANGED trashVars
  <2>1. ASSUME NEW p \in Procs PROVE OperationAt(p)'
    <3>1. proc'[p] = proc[p] /\ temp' = temp /\ meta' = meta /\ place' = place
      BY <1>2 DEF trashVars
    <3>2. Changed(p, meta)' = Changed(p, meta) /\ TrashNames' = TrashNames
      BY <3>1, SameChange
    <3>3. QED
      BY <3>1, <3>2 DEF TrashInv, OperationAt
  <2>2. InItsPlaces' /\ EntriesMatch' /\ RestoresMatch' /\ EntriesAreThere'
    BY <1>2 DEF trashVars, TrashInv, InItsPlaces, EntriesMatch, RestoresMatch, EntriesAreThere
  <2>3. QED
    BY <1>1, <2>1, <2>2 DEF TrashInv
<1>3. ASSUME NEW p \in Procs, NEW r \in Requests, Start(p, r)
      PROVE  TrashInv'
  <2>1. proc'[p] = Operation(r[1], r[2], r[3], TRUE)
    BY <1>3 DEF Start, BeginAs, TrashInv, TrashTypeOK
  <2>2. Askable(r[1], r[2], r[3]) /\ Leads(r[1], r[2], r[3])
    BY RequestsAskable, RequestsLead DEF TrashInv
  <2>3. Leads(proc'[p].kind, proc'[p].path, proc'[p].dest) /\ OperationAt(p)'
    BY <2>1, <2>2, NewIsQuiet
  <2>4. QED
    BY <1>1, <1>3, <2>3, QuietStep DEF Start, TrashInv, RestoresMatch
<1>4. ASSUME NEW p \in Procs, NEW r \in unfinished, Replay(p, r)
      PROVE  TrashInv'
  <2>1. proc'[p] = Operation(r[1], r[2], r[3], FALSE)
    BY <1>4 DEF Replay, BeginAs, TrashInv, TrashTypeOK
  <2>2. Askable(r[1], r[2], r[3]) /\ Leads(r[1], r[2], r[3])
    BY DEF TrashInv, TrashTypeOK, RestoresMatch
  <2>3. Leads(proc'[p].kind, proc'[p].path, proc'[p].dest) /\ OperationAt(p)'
    BY <2>1, <2>2, NewIsQuiet
  <2>4. QED
    BY <1>1, <1>4, <2>3, QuietStep DEF Replay, TrashInv, RestoresMatch
<1>5. ASSUME NEW p \in Procs, Step(p)
      PROVE  TrashInv'
  <2> DEFINE act == proc[p]
  <2>1. /\ act \in Operations
        /\ act # Idle => Askable(act.kind, Asked(act), act.dest)
        /\ act.pc # "idle" => act # Idle
    BY DEF TrashInv, TrashTypeOK, Idle
  <2>2. Leads(act.kind, act.path, act.dest) /\ OperationAt(p)
    BY DEF TrashInv, RestoresMatch
  <2>3. CASE TrashDelete(p)
    BY <1>1, <2>3, TrashDeleteInv
  <2>4. CASE DeletePath(p)
    <3>1. PICK k \in Items : place[k] = act.path
      BY <2>4 DEF DeletePath, Occupied
    <3>2. act.path # Nowhere
      BY <2>1, <2>4, PathsTell DEF DeletePath, Askable, Asked, UserPaths, HomePaths, TrashPaths
    <3>3. /\ proc'[p].kind = "delete" /\ proc'[p].path = act.path
          /\ proc'[p].recorded = act.recorded
          /\ proc'[p].pc = IF act.recorded THEN "read" ELSE "completed"
      BY <2>1, <2>4 DEF DeletePath, AfterChange, StepTo, Operations, TrashInv, TrashTypeOK
    <3>4. Leads(proc'[p].kind, proc'[p].path, proc'[p].dest)
      BY <3>3 DEF Leads
    <3>5. QED
      BY <1>1, <2>4, <3>1, <3>2, <3>3, <3>4, LeaveTrashInv DEF DeletePath
  <2>5. CASE RestorePath(p)
    <3>1. PICK i \in Items : act.path = InTrash(NameOf[i]) /\ act.dest = Home(i)
      BY <2>2, <2>5 DEF RestorePath, Leads
    <3>2. PICK k \in Items : place[k] = act.path
      BY <2>5 DEF RestorePath, Occupied
    <3>3. k = i
      BY <3>1, <3>2, PathsTell DEF TrashInv, InItsPlaces, NamesDiffer
    <3>4. /\ proc'[p].kind = "restore" /\ proc'[p].path = act.path /\ proc'[p].dest = act.dest
          /\ proc'[p].recorded = act.recorded
          /\ proc'[p].pc = IF act.recorded THEN "read" ELSE "completed"
      BY <2>1, <2>5 DEF RestorePath, AfterChange, StepTo, Operations, TrashInv, TrashTypeOK
    <3>5. MoveItem(act.path, Home(k)) /\ act.path # Nowhere /\ act.path # Home(k)
      BY <2>5, <3>1, <3>3, PathsTell DEF RestorePath
    <3>6. Leads(proc'[p].kind, proc'[p].path, proc'[p].dest)
      BY <2>2, <2>5, <3>4 DEF RestorePath
    <3>7. QED
      BY <1>1, <2>5, <3>2, <3>4, <3>5, <3>6, LeaveTrashInv DEF RestorePath
  <2>6. CASE DeleteTrashChild(p)
    <3>1. PICK n \in act.todo :
            /\ Occupied(InTrash(n))
            /\ MoveItem(InTrash(n), Nowhere)
            /\ proc' = [proc EXCEPT ![p].todo = @ \ {n}, ![p].path = InTrash(n),
                          ![p].pc = IF @ = "next" /\ proc[p].recorded THEN "read" ELSE "next"]
      BY <2>6 DEF DeleteTrashChild
    <3>2. PICK k \in Items : place[k] = InTrash(n)
      BY <3>1 DEF Occupied
    <3>3. act.kind = "empty" /\ act.pc = "next"
      BY <2>6 DEF DeleteTrashChild, TrashInv, TrashTypeOK
    <3>4. /\ proc'[p].kind = "empty" /\ proc'[p].path = InTrash(n)
          /\ proc'[p].pc = "read" \/ proc'[p].pc = "next"
      BY <2>1, <3>1, <3>3 DEF Operations, TrashInv, TrashTypeOK
    <3>5. Leads(proc'[p].kind, proc'[p].path, proc'[p].dest)
      BY <3>4 DEF Leads
    <3>6. QED
      BY <1>1, <2>6, <3>1, <3>2, <3>4, <3>5, LeaveTrashInv, PathsTell DEF DeleteTrashChild
  <2>7. CASE Reconcile(p)
    <3>1. /\ proc'[p].kind = "empty" /\ proc'[p].reconciling = TRUE
          /\ proc'[p].recorded = act.recorded
          /\ proc'[p].pc = IF act.recorded THEN "read" ELSE "completed"
      BY <2>1, <2>7 DEF Reconcile, Operations, TrashInv, TrashTypeOK
    <3>2. Leads(proc'[p].kind, proc'[p].path, proc'[p].dest) /\ OperationAt(p)'
      BY <3>1 DEF Leads, OperationAt, TrashWriting
    <3>3. QED
      BY <1>1, <2>7, <3>2, QuietStep DEF Reconcile, TrashInv, RestoresMatch
  <2>8. CASE ReadMetadata(p)
    <3> DEFINE e == Changed(p, meta)
    <3>1. /\ proc'[p].kind = act.kind /\ proc'[p].path = act.path /\ proc'[p].dest = act.dest
          /\ proc'[p].reconciling = act.reconciling /\ proc'[p].recorded = act.recorded
          /\ proc'[p].buf = e
          /\ proc'[p].pc = IF act.reconciling /\ e = meta THEN "completed" ELSE "create"
      BY <2>1, <2>8 DEF ReadMetadata, Operations, TrashInv, TrashTypeOK
    <3>2. place' = place /\ meta' = meta /\ replayed' = replayed /\ unfinished' = unfinished
          /\ act.pc = "read"
      BY <2>8 DEF ReadMetadata
    <3>3. Changed(p, meta)' = e /\ TrashNames' = TrashNames
      BY <3>1, <3>2, SameChange
    <3>4. act.reconciling => DOMAIN e \subseteq TrashNames
      BY <3>2, ChangedKeeps DEF TrashWriting
    <3> HIDE DEF e
    <3>5. OperationAt(p)'
      BY <2>2, <3>1, <3>2, <3>3, <3>4 DEF OperationAt, TrashWriting
    <3>6. QED
      BY <1>1, <2>2, <3>1, <3>2, <3>5, QuietStep DEF TrashInv, RestoresMatch
  <2>9. CASE CreateTemporary(p) \/ FlushTemporary(p)
    <3>1. /\ proc'[p].kind = act.kind /\ proc'[p].path = act.path /\ proc'[p].dest = act.dest
          /\ proc'[p].reconciling = act.reconciling /\ proc'[p].buf = act.buf
          /\ proc'[p].pc = IF act.pc = "create" THEN "flush" ELSE "rename"
      BY <2>1, <2>9 DEF CreateTemporary, FlushTemporary, StepTo, Operations, TrashInv, TrashTypeOK
    <3>2. place' = place /\ meta' = meta /\ replayed' = replayed /\ unfinished' = unfinished
          /\ act.pc \in {"create", "flush"}
      BY <2>9 DEF CreateTemporary, FlushTemporary
    <3>3. act.pc = "flush" => temp'[p] = {act.buf}
      BY <2>9 DEF CreateTemporary, FlushTemporary, TrashInv, TrashTypeOK
    <3>4. Changed(p, meta)' = Changed(p, meta)
      BY <3>1, <3>2, SameChange
    <3>5. OperationAt(p)'
      BY <2>2, <3>1, <3>2, <3>3, <3>4 DEF OperationAt, TrashWriting
    <3>6. QED
      BY <1>1, <2>2, <3>1, <3>2, <3>5, QuietStep DEF TrashInv, RestoresMatch
  <2>10. CASE RenameTemporary(p)
    BY <1>1, <2>10, RenameTemporaryInv
  <2>11. CASE Complete(p) \/ Abandon(p)
    <3>1. proc'[p] = Idle
      BY <2>11 DEF Complete, Abandon, Fail, TrashInv, TrashTypeOK
    <3>2. QED
      BY <1>1, <2>11, <3>1, IdleIsQuiet, QuietStep
         DEF Complete, Abandon, TrashInv, RestoresMatch
  <2>12. CASE StopProcess(p)
    <3>1. proc'[p] = Idle
      BY <2>12 DEF StopProcess, TrashInv, TrashTypeOK
    <3>2. Leads(act.kind, Asked(act), act.dest)
      BY <2>2 DEF Leads, Asked
    <3>3. \A r \in unfinished' : Leads(r[1], r[2], r[3])
      BY <2>12, <3>2 DEF StopProcess, TrashInv, RestoresMatch
    <3>4. QED
      BY <1>1, <2>12, <3>1, <3>3, IdleIsQuiet, QuietStep DEF StopProcess
  <2>13. QED
    BY <1>5, <2>3, <2>4, <2>5, <2>6, <2>7, <2>8, <2>9, <2>10, <2>11, <2>12 DEF Step
<1>6. QED
  BY <1>2, <1>3, <1>4, <1>5 DEF TrashNext

\* The invariant holds before the first operation.
LEMMA InitTrashInv == TrashInit => TrashInv
<1> SUFFICES ASSUME TrashInit PROVE TrashInv
  OBVIOUS
<1>1. InItsPlaces
  BY DEF TrashInit, InItsPlaces
<1>2. EntriesMatch
  BY DEF TrashInit, EntriesMatch, Nothing
<1>3. RestoresMatch
  BY DEF TrashInit, RestoresMatch, Leads, Idle
<1>4. EntriesAreThere
  BY PathsTell DEF TrashInit, EntriesAreThere
<1>5. \A p \in Procs : OperationAt(p)
  BY DEF TrashInit, OperationAt, Idle, TrashWriting
<1>6. QED
  BY <1>1, <1>2, <1>3, <1>4, <1>5, InitTrashTypes DEF TrashInv

\* The invariant holds in every state.
LEMMA TrashInvHolds ==
  ASSUME OneOperator, NamesDiffer
  PROVE  TrashSpec => []TrashInv
<1>1. TrashInv /\ [TrashNext]_trashVars => TrashInv'
  BY NextTrashInv
<1>2. QED
  BY <1>1, InitTrashInv, PTL DEF TrashSpec

-----------------------------------------------------------------------------
\* Wherever an operation is stopped, fails or is replayed, an item that went to the Trash
\* with its metadata has the entry that leads to its home, and a completed Empty Trash
\* leaves no entry without an item: the entry is written before the item goes, goes after
\* it, and never replaces the file in part (write_trash_metadata, trash_path,
\* remove_deleted_trash_metadata, reconcile_empty_trash_metadata).
THEOREM TrashedCanBeRestored ==
  OneOperator /\ NamesDiffer => (TrashSpec => []TrashedIsRestorable)
<1> SUFFICES ASSUME OneOperator, NamesDiffer PROVE TrashSpec => []TrashedIsRestorable
  OBVIOUS
<1>1. TrashInv => TrashedIsRestorable
  <2> SUFFICES ASSUME TrashInv PROVE TrashedIsRestorable
    OBVIOUS
  <2>1. ASSUME NEW i \in Items \ replayed, NEW n \in NamesInTrash, place[i] = InTrash(n)
        PROVE  n \in DOMAIN meta /\ meta[n] = i
    <3>1. n = NameOf[i]
      BY <2>1, PathsTell DEF TrashInv, InItsPlaces
    <3>2. n \in DOMAIN meta
      BY <2>1, <3>1 DEF TrashInv, EntriesAreThere
    <3>3. meta[n] \in Items /\ NameOf[meta[n]] = n
      BY <3>2, EntriesAre DEF TrashInv, TrashTypeOK, EntriesMatch
    <3>4. QED
      BY <3>1, <3>2, <3>3 DEF NamesDiffer
  <2>2. ASSUME NEW p \in Procs, proc[p].kind = "empty", proc[p].pc = "completed", proc[p].recorded
        PROVE  DOMAIN meta \subseteq TrashNames
    BY <2>2 DEF TrashInv, OperationAt
  <2>3. QED
    BY <2>1, <2>2 DEF TrashedIsRestorable
<1>2. QED
  BY <1>1, TrashInvHolds, PTL

\* No step removes the entry of a name that is still in the Trash, whatever else is
\* deleted or restored: invariant 12 of docs/operation-recovery.md
\* (remove_trash_metadata, reconcile_empty_trash_metadata).
THEOREM EntriesGoAfterItems ==
  OneOperator /\ NamesDiffer => (TrashSpec => RemovalAfterDelete)
<1> SUFFICES ASSUME OneOperator, NamesDiffer PROVE TrashSpec => RemovalAfterDelete
  OBVIOUS
<1> DEFINE Keeps == \A n \in DOMAIN meta \ DOMAIN meta' : n \notin TrashNames
<1>1. TrashInv /\ [TrashNext]_trashVars => [Keeps]_trashVars
  <2> SUFFICES ASSUME TrashInv, TrashNext PROVE Keeps
    OBVIOUS
  <2>1. PICK p \in Procs : \/ \E r \in Requests : Start(p, r)
                           \/ \E r \in unfinished : Replay(p, r)
                           \/ Step(p)
    BY DEF TrashNext
  <2>2. CASE RenameTemporary(p)
    <3>1. meta' = Changed(p, meta) /\ proc[p].pc = "rename"
      BY <2>2 DEF RenameTemporary, TrashInv, OperationAt
    <3>2. QED
      BY <3>1, ChangedKeeps DEF TrashWriting
  <2>3. CASE ~RenameTemporary(p)
    <3>1. meta' = meta
      BY <2>1, <2>3 DEF Start, Replay, Step, TrashDelete, DeletePath, RestorePath, DeleteTrashChild,
         Reconcile, ReadMetadata, CreateTemporary, FlushTemporary, Complete, Abandon, StopProcess
    <3>2. QED
      BY <3>1
  <2>4. QED
    BY <2>2, <2>3
<1>2. QED
  BY <1>1, TrashInvHolds, PTL DEF TrashSpec, RemovalAfterDelete
==============================================================================
