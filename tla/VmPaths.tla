------------------------------- MODULE VmPaths -------------------------------
(***************************************************************************)
(* Which directories a VM id names.  A path is the sequence of its         *)
(* elements from the root, an id the sequence of what is between its       *)
(* slashes: "v1/" is <<"v1", "">>.                                         *)
(***************************************************************************)
EXTENDS Naturals, Sequences
LOCAL INSTANCE SequencesExt

CONSTANT VmsDir       \* config storage.vms_dir, a clean path

(* filepath.Dir *)
Dir(path) == IF path = <<>> THEN path ELSE Front(path)

(* filepath.Clean of a rooted path: empty elements and "." go, ".." takes  *)
(* the element before it away.                                             *)
Clean(path) ==
  LET done[n \in 0 .. Len(path)] ==
        IF n = 0 THEN <<>>
        ELSE CASE path[n] \in {"", "."} -> done[n - 1]
               [] path[n] = ".." -> Dir(done[n - 1])
               [] OTHER -> Append(done[n - 1], path[n])
  IN  done[Len(path)]

VmDirOf(id) == Clean(VmsDir \o id)

(* The jailer's chroot base is the parent of the VM directory ...          *)
JailDirOf(id) == Clean(Dir(VmDirOf(id)) \o <<"firecracker">> \o id)

(* ... but CleanupJail looks for the jail under vms_dir.                   *)
CleanedJailOf(id) == Clean(VmsDir \o <<"firecracker">> \o id)

(* os.RemoveAll(path) removes path and what is below it.                   *)
Removes(path, paths) == {p \in paths : IsPrefix(path, p)}

(* A plain file name, and not the one that all jails share.                *)
Plain(id) == Len(id) = 1 /\ id[1] \notin {"", ".", "..", "firecracker"}
=============================================================================
