----------------------------- MODULE MCFcManager -----------------------------
(***************************************************************************)
(* Small instances of FcManager, on a host whose vms_dir is /srv/vms.  The *)
(* ids v1 and v2 agree in their first eight characters and so name the TAP *)
(* device t12.  The others name directories that are not theirs alone.     *)
(***************************************************************************)
EXTENDS FcManagerInv, VmPaths, TLC
LOCAL INSTANCE SequencesExt

CONSTANTS v1, v2, firecracker, dot, slash, dotdot, nested, t12, t3

MCVmsDir == <<"srv", "vms">>

IdPath(v) ==
  CASE v = v1 -> <<"test-vm-001">>
    [] v = v2 -> <<"test-vm-002">>
    [] v = firecracker -> <<"firecracker">>
    [] v = dot -> <<".">>
    [] v = slash -> <<"test-vm-001", "">>
    [] v = dotdot -> <<"longname1", "..", "test-vm-001">>
    [] v = nested -> <<"test-vm-001", "x">>

MCTapName == [v \in VmIds |-> IF v \in {v1, v2, slash, nested} THEN t12 ELSE t3]

(* The paths are written out, which makes them quick to compare.           *)
Directories ==
  UNION {{VmDirOf(IdPath(v)), JailDirOf(IdPath(v)), CleanedJailOf(IdPath(v))} : v \in VmIds}

Text(path) ==
  LET t[n \in 0 .. Len(path)] == IF n = 0 THEN "" ELSE t[n - 1] \o "/" \o path[n]
  IN  t[Len(path)]
Texts(paths) == {Text(p) : p \in paths}

MCPaths == Texts(Directories)
MCVmPath == [v \in VmIds |-> Text(VmDirOf(IdPath(v)))]
MCJailPath == [v \in VmIds |-> Text(JailDirOf(IdPath(v)))]
MCJailCleanupPath == [v \in VmIds |-> Text(CleanedJailOf(IdPath(v)))]

MCUnder ==
  [t \in MCPaths |->
     UNION {Texts(Removes(p, Directories)) : p \in {q \in Directories : Text(q) = t}}]

(* The premise of the properties about directories holds of plain names.   *)
ASSUME PlainNamesSuffice == (\A v \in VmIds : Plain(IdPath(v))) => OwnDirs

(* Not of the others: their cleanup removes directories of v1, or that of  *)
(* v1 removes theirs.                                                      *)
Overlap(id, other) ==
  \E r \in {VmDirOf(id), CleanedJailOf(id)} :
    Removes(r, {VmDirOf(other), JailDirOf(other)}) # {}

ASSUME OthersOverlap ==
  /\ \A v \in {firecracker, dot, slash, dotdot} : Overlap(IdPath(v), IdPath(v1))
  /\ Overlap(IdPath(v1), IdPath(nested))

(* Incarnations and calls are only compared, and no fair run uses these.   *)
IncSymmetry == Permutations(Incs)
Symmetry == IncSymmetry \cup Permutations(Calls)
=============================================================================
