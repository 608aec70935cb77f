--------------------------- MODULE MCFileOperations ---------------------------
(***************************************************************************)
(* What the operation layer does to the user's files: a journaled copy or  *)
(* move with its recovery, and the Trash with its metadata.                *)
(*                                                                         *)
(* The two share no state, so their steps commute and a property of one of *)
(* them holds in every interleaving iff it holds while the other one rests: *)
(* a behaviour here follows one part.                                      *)
(***************************************************************************)
EXTENDS OperationEngine, TrashMetadata

VARIABLE part    \* the part the behaviour follows

-----------------------------------------------------------------------------
(* The engine: a file, a link and a directory of two files onto every sort *)
(* of destination under every conflict policy.                             *)

Kids(names, d) == [k \in names |-> File(d)]

Sources == {File("new"), Link("new"), Dir(Kids({"a", "b"}, "new"))}
Targets == {None, File("old"), Link("old"), Dir(Kids({}, "old")), Dir(Kids({"a"}, "old")),
            Dir(Kids({"c"}, "old"))}

Plain ==
  [kind : Kinds, conflict : Policies, verify : {"Size"}, from : Sources, to : Targets,
   alias : {FALSE}, granted : {TRUE}]

\* Two names of one file; a gate that refuses; a foreground that compares bytes.
SameFile ==
  [kind : Kinds, conflict : Policies, verify : {"Size"}, from : {File("new")},
   to : {File("new")}, alias : {TRUE}, granted : {TRUE}]
Refused ==
  [kind : Kinds, conflict : {"Fail"}, verify : {"Size"}, from : {File("new")},
   to : {None, File("old")}, alias : {FALSE}, granted : {FALSE}]
ByteVerified ==
  [kind : Kinds, conflict : {"Replace", "Merge"}, verify : {"Bytes"},
   from : Sources, to : Targets, alias : {FALSE}, granted : {TRUE}]

AllConfigs == Plain \cup SameFile \cup Refused \cup ByteVerified

\* Lengths that tell the contents apart.
Sizes == [d \in {"new", "old", "dir"} |-> CASE d = "new" -> 1 [] d = "old" -> 2 [] OTHER -> 3]

ASSUME LengthsTell == ComparisonTells

\* Enough for a failed installation whose backup cannot be put back either, on top of
\* a crash and a request to stop.
TwoFaults == [crash |-> 1, fault |-> 2, stop |-> 1]

-----------------------------------------------------------------------------
(* The Trash: one process, two items with different names.                 *)

HomeNames == [i \in {"x", "y"} |-> i]

ASSUME OneAtATime == OneOperator /\ NamesDiffer

operationVars == <<vars, trashVars, part>>

\* While the Trash is followed the engine rests before one of its operations.
OperationInit ==
  /\ Init /\ TrashInit
  /\ part \in {"engine", "trash"}
  /\ part = "trash" => op = CHOOSE o \in Configs : TRUE

OperationNext ==
  \/ part = "engine" /\ Next /\ UNCHANGED <<trashVars, part>>
  \/ part = "trash" /\ TrashNext /\ UNCHANGED <<vars, part>>

OperationSpec == OperationInit /\ [][OperationNext]_operationVars
===============================================================================
