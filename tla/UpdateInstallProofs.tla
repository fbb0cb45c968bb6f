------------------------- MODULE UpdateInstallProofs -------------------------
(***************************************************************************)
(* The safety of the self-update for every number of operations, versions  *)
(* and faults.                                                             *)
(***************************************************************************)
EXTENDS UpdateInstall, TLAPS

\* Where an operation is that has left the plugin without a directory.
Holding == {"place", "put_back", "failing", "restore_back", "give_up", "ended"}
\* Where an operation certainly keeps the directory it has moved away.
Backed == {"place", "put_back", "schedule", "wake", "reload", "loaded", "unloaded",
           "restore", "restore_back"}

\* A directory that is missing is kept by an operation that will not remove it.
Kept ==
  /\ root = None => \E j \in Ops : backup[j] # None /\ task[j] \in Holding
  /\ \A k \in Ops : task[k] \in Backed => backup[k] # None
  /\ \A k \in Ops : task[k] \in {"prepare", "move_away", "place"} => mem[k].version # None

\* Operations that do not overlap run one at a time.
Alone == overlap = "no" =>
  \A j, k \in Ops : task[j] \notin AtRest /\ task[k] \notin AtRest => j = k

\* Where the versions are while operation k runs alone.
DirOf(k) ==
  /\ task[k] \in {"download", "prepare", "move_away", "reload_old", "finish_back"} =>
       root = mem[k].previous
  /\ task[k] \in {"place", "put_back", "restore_back"} => root = None
  /\ task[k] = "failing" => root \in {mem[k].previous, None}
  /\ task[k] \in {"schedule", "wake", "reload", "loaded", "unloaded", "restore", "cleanup"} =>
       root = mem[k].version
  /\ task[k] = "give_up" => root \in {mem[k].version, None}
  /\ task[k] \in Backed => backup[k] = mem[k].previous

\* What the state file says meanwhile.
FileOf(k) ==
  /\ file.op = k /\ file.previous = mem[k].previous /\ file.version = mem[k].version
  /\ task[k] \in Installing => file.status = "preparing"
  /\ task[k] \in {"wake", "reload", "loaded", "unloaded"} =>
       file.status \in {"reload_scheduled", "succeeded"}
  /\ task[k] = "cleanup" => file.status = "succeeded"
  /\ task[k] \in {"restore", "restore_back", "give_up"} =>
       \/ file.status = "rolling_back"
       \/ file.status = "rolled_back" /\ file.version = file.previous
  /\ task[k] \in {"reload_old", "finish_back"} =>
       file.status \in {"rolling_back", "rolled_back"}
SoloAt(k) == DirOf(k) /\ FileOf(k)
Solo == overlap = "no" => \A k \in Ops : task[k] \notin AtRest => SoloAt(k)

\* Only the clean-up ends without a write, after the write of the success.
Owner ==
  /\ ActiveHasOwner
  /\ \A k \in Ops : file.op = k /\ task[k] = "cleanup" => file.status = "succeeded"

IInv == TypeOK /\ Kept /\ Alone /\ Solo /\ StatusIsTrue /\ Owner

\* Operations are positive numbers and no version is None.
LEMMA OpsNat == Ops \subseteq Nat /\ 0 \notin Ops /\ None \notin Versions
  BY UpdateAssumption DEF Ops, None, Versions

\* A step of k leaves what belongs to the other operations alone.
Only(k) ==
  \A j \in Ops : j # k =>
    task'[j] = task[j] /\ backup'[j] = backup[j] /\ mem'[j] = mem[j]

\* The invariant after a step of k, from what it says of k.
LEMMA KeptOnly ==
  ASSUME Kept, NEW k \in Ops, Only(k),
         task'[k] \in Backed => backup'[k] # None,
         task'[k] \in {"prepare", "move_away", "place"} => mem'[k].version # None,
         root' = None => \/ backup'[k] # None /\ task'[k] \in Holding
                         \/ root = None /\ ~(backup[k] # None /\ task[k] \in Holding)
  PROVE  Kept'
<1>1. ASSUME root' = None PROVE \E j \in Ops : backup'[j] # None /\ task'[j] \in Holding
  BY <1>1 DEF Kept, Only
<1>2. \A j \in Ops : task'[j] \in Backed => backup'[j] # None
  BY DEF Kept, Only
<1>3. \A j \in Ops : task'[j] \in {"prepare", "move_away", "place"} => mem'[j].version # None
  BY DEF Kept, Only
<1> QED
  BY <1>1, <1>2, <1>3 DEF Kept, Holding, Backed, None

\* A step of one operation that was alone keeps it alone.
LEMMA SoloOnly ==
  ASSUME Alone, NEW k \in Ops, Only(k), task[k] \notin AtRest, overlap' = overlap,
         overlap = "no" /\ task'[k] \notin AtRest => SoloAt(k)'
  PROVE  Solo' /\ Alone'
<1>1. Alone'
  BY DEF Alone, Only, AtRest
<1>2. ASSUME overlap' = "no", NEW j \in Ops, task'[j] \notin AtRest PROVE SoloAt(j)'
  <2>1. j = k
    BY <1>2 DEF Alone, Only, AtRest
  <2> QED
    BY <1>2, <2>1 DEF Only
<1> QED
  BY <1>1, <1>2 DEF Solo, AtRest

\* A step of one operation keeps the file with its owner.
LEMMA OwnerOnly ==
  ASSUME Owner, TypeOK, NEW k \in Ops, Only(k), faults' = 0 => faults = 0,
         \/ file' = file
         \/ file'.op = k
         \/ /\ file'.op = file.op /\ file.status \in ActiveStatuses
            /\ file'.status \notin ActiveStatuses,
         file'.op = k => /\ faults' = 0 /\ file'.status \in ActiveStatuses =>
                              task'[k] \notin AtRest
                         /\ task'[k] = "cleanup" => file'.status = "succeeded",
         file' \in File \cup {NoFile}
  PROVE  Owner'
<1>1. ASSUME faults' = 0, file'.status \in ActiveStatuses PROVE task'[file'.op] \notin AtRest
  <2>1. CASE file'.op = k
    BY <1>1, <2>1
  <2>2. CASE file'.op # k
    <3>1. file' = file
      BY <1>1, <2>2
    <3>2. file.op \in Ops
      BY <1>1, <3>1 DEF TypeOK, File, NoFile, ActiveStatuses
    <3> QED
      BY <1>1, <2>2, <3>1, <3>2 DEF Owner, ActiveHasOwner, Only
  <2> QED
    BY <2>1, <2>2
<1>2. ASSUME NEW j \in Ops, file'.op = j, task'[j] = "cleanup" PROVE file'.status = "succeeded"
  <2>1. CASE j = k
    BY <1>2, <2>1
  <2>2. CASE j # k
    <3>1. task[j] = "cleanup" /\ file.op = j
      BY <1>2, <2>2 DEF Only
    <3>2. file.status = "succeeded"
      BY <3>1 DEF Owner
    <3> QED
      BY <1>2, <2>2, <3>2 DEF ActiveStatuses
  <2> QED
    BY <2>1, <2>2
<1> QED
  BY <1>1, <1>2 DEF Owner, ActiveHasOwner, ActiveStatuses, AtRest

\* The state file after a write.
LEMMA WrittenType ==
  ASSUME NEW k \in Ops, NEW m \in Mem,
         NEW s \in {"preparing", "reload_scheduled", "rolling_back", "succeeded",
                    "rolled_back", "cancelled", "failed"},
         NEW r \in {"yes", "no"}
  PROVE  /\ Written(k, s, m, r) \in File
         /\ Written(k, s, m, r).op = k /\ Written(k, s, m, r).status = s
         /\ Written(k, s, m, r).version = m.version
         /\ Written(k, s, m, r).previous = m.previous
         /\ Written(k, s, m, r).rollback = r
  BY DEF Written, File, Mem

\* The state file after a new instance was loaded.
LEMMA ReconciledType ==
  ASSUME TypeOK
  PROVE  /\ Reconciled \in File \cup {NoFile}
         /\ Reconciled.op = file.op /\ Reconciled.version = file.version
         /\ Reconciled.previous = file.previous
         /\ \/ Reconciled = file
            \/ /\ file.status = "reload_scheduled" /\ root = file.version
               /\ Reconciled.status = "succeeded"
            \/ /\ file.status = "rolling_back" /\ root = file.previous
               /\ Reconciled.status = "rolled_back"
<1>1. CASE file.status = "reload_scheduled" /\ root = file.version
  BY <1>1 DEF Reconciled, TypeOK, File, NoFile
<1>2. CASE file.status = "rolling_back" /\ root = file.previous
  <2>1. Reconciled = [file EXCEPT !.status = "rolled_back", !.rollback = "yes"]
    BY <1>2 DEF Reconciled
  <2>2. file \in File
    BY <1>2 DEF TypeOK, NoFile
  <2> QED
    BY <1>2, <2>1, <2>2 DEF File
<1>3. CASE ~(file.status = "reload_scheduled" /\ root = file.version)
           /\ ~(file.status = "rolling_back" /\ root = file.previous)
  BY <1>3 DEF Reconciled, TypeOK
<1> QED
  BY <1>1, <1>2, <1>3

-----------------------------------------------------------------------------
(***************************************************************************)
(* Each action keeps the invariant.                                        *)
(***************************************************************************)

\* A request begins an operation.
LEMMA BeginStep ==
  ASSUME IInv, NEW k \in Ops, Begin(k)
  PROVE  IInv'
<1>1. /\ task[k] = "idle" /\ task' = [task EXCEPT ![k] = "download"]
      /\ mem' = [mem EXCEPT ![k] = [base |-> running, version |-> None, previous |-> root]]
      /\ file' = Written(k, "preparing", mem'[k], "no") /\ lock' = k
      /\ UNCHANGED <<root, backup, failed, running>> /\ root # None
      /\ faults' = faults \/ (faults' = faults + 1 /\ faults < MaxFaults)
  BY DEF Begin, MayBegin, Step, Fault, NoFault, trees
<1>2. /\ mem' \in [Ops -> Mem] /\ mem'[k].previous = root /\ mem'[k] \in Mem
      /\ task' \in [Ops -> Steps] /\ task'[k] = "download" /\ Only(k)
  BY <1>1 DEF IInv, TypeOK, Mem, Tree, Only, Steps, Installing
<1>3. /\ file' \in File /\ file'.op = k /\ file'.status = "preparing"
      /\ file'.version = mem'[k].version /\ file'.previous = mem'[k].previous
  BY <1>1, <1>2, WrittenType
<1>4. overlap' \in {"yes", "no"} /\ (overlap' = "no" => \A j \in Ops : task[j] \in AtRest)
  BY DEF Begin, IInv, TypeOK
<1>5. TypeOK'
  BY <1>1, <1>2, <1>3, <1>4, UpdateAssumption DEF IInv, TypeOK, Installing
<1>6. Kept'
  BY <1>1, <1>2, KeptOnly DEF IInv, Backed, Holding
<1>7. ASSUME overlap' = "no", NEW j \in Ops, task'[j] \notin AtRest PROVE j = k
  BY <1>2, <1>4, <1>7 DEF Only
<1>8. SoloAt(k)'
  BY <1>1, <1>2, <1>3 DEF SoloAt, DirOf, FileOf, Backed, Installing
<1>9. Alone' /\ Solo'
  BY <1>7, <1>8 DEF Alone, Solo, AtRest
<1>10. StatusIsTrue'
  BY <1>3 DEF StatusIsTrue, Truth
<1>11. Owner'
  BY <1>1, <1>2, <1>3, OwnerOnly, OpsNat DEF IInv, TypeOK, AtRest
<1> QED
  BY <1>5, <1>6, <1>9, <1>10, <1>11 DEF IInv

\* The archive is downloaded and its version recorded.
LEMMA DownloadStep ==
  ASSUME IInv, NEW k \in Ops, NEW v \in Versions, Download(k, v)
  PROVE  IInv'
<1>0. /\ task[k] \notin AtRest /\ overlap' = overlap
      /\ overlap = "no" => DirOf(k) /\ FileOf(k)
  BY DEF IInv, Solo, SoloAt, AtRest, Download
<1>1. Only(k) /\ TypeOK'
  <2>1. /\ mem' \in [Ops -> Mem] /\ mem'[k] \in Mem /\ mem'[k].version = v
        /\ \A j \in Ops : j # k => mem'[j] = mem[j]
    BY DEF IInv, TypeOK, Download, Mem, Tree
  <2>2. file' = Written(k, "preparing", mem'[k], "no") /\ file' \in File
    BY <2>1, WrittenType DEF Download, Write
  <2>3. task' = [task EXCEPT ![k] = "prepare"]
    BY DEF Download, Step
  <2>4. Only(k)
    BY <2>1, <2>3 DEF IInv, TypeOK, Only, Download, trees
  <2> QED
    BY <2>1, <2>2, <2>3, <2>4, OpsNat DEF IInv, TypeOK, Download, Write, NoFault, trees,
       Steps, Installing
<1>2. Kept'
  BY <1>1, KeptOnly, OpsNat DEF IInv, TypeOK, Kept, Holding, Backed, Download, Step, Write,
     NoFault, Mem, Tree, trees
<1>3. Solo' /\ Alone'
  <2>1. ASSUME overlap = "no", task'[k] \notin AtRest PROVE DirOf(k)'
    BY <1>0, <1>1, <2>1, OpsNat DEF IInv, TypeOK, DirOf, Backed, AtRest, Download, Step,
       Write, NoFault, Mem, Tree, trees
  <2>2. ASSUME overlap = "no", task'[k] \notin AtRest PROVE FileOf(k)'
    BY <1>0, <1>1, <2>2, OpsNat, WrittenType DEF IInv, TypeOK, DirOf, FileOf, AtRest,
       Installing, Download, Step, Write, NoFault, Mem, Tree, trees
  <2> QED
    BY <1>0, <1>1, <2>1, <2>2, SoloOnly DEF IInv, SoloAt
<1>4. StatusIsTrue'
  BY <1>0, <1>1, OpsNat, WrittenType DEF IInv, TypeOK, Only, StatusIsTrue, Truth, DirOf,
     FileOf, Backed, Installing, Download, Step, Write, NoFault, Mem, Tree, trees
<1>5. Owner'
  <2>1. mem'[k] \in Mem
    BY <1>1 DEF TypeOK
  <2>2. file' = Written(k, "preparing", mem'[k], "no")
    BY DEF Download, Write
  <2>3. file' \in File /\ file'.op = k /\ file'.status = "preparing"
    BY <2>1, <2>2, WrittenType
  <2>4. task'[k] = "prepare" /\ faults' = faults
    BY DEF IInv, TypeOK, Download, Step, Write, NoFault
  <2> QED
    BY <1>1, <2>3, <2>4, OwnerOnly DEF IInv, AtRest
<1> QED
  BY <1>1, <1>2, <1>3, <1>4, <1>5 DEF IInv

\* The candidate is extracted.
LEMMA PrepareStep ==
  ASSUME IInv, NEW k \in Ops, Prepare(k)
  PROVE  IInv'
<1>0. /\ task[k] \notin AtRest /\ overlap' = overlap
      /\ overlap = "no" => DirOf(k) /\ FileOf(k)
  BY DEF IInv, Solo, SoloAt, AtRest, Prepare
<1>1. Only(k) /\ TypeOK'
  <2>1. Only(k) /\ task' \in [Ops -> Steps]
    BY DEF IInv, TypeOK, Only, Prepare, Step, Steps, Installing, trees
  <2>2. lock' \in {0} \cup Ops /\ (lock' # 0 => task'[lock'] \in Installing)
    BY OpsNat DEF IInv, TypeOK, Prepare, Step, Installing
  <2>3. /\ root' \in Tree /\ running' \in Tree
        /\ backup' \in [Ops -> Tree] /\ failed' \in [Ops -> Tree]
    BY OpsNat DEF IInv, TypeOK, Prepare, Step, trees, Mem, Tree
  <2> QED
    BY <2>1, <2>2, <2>3, UpdateAssumption DEF IInv, TypeOK, Prepare, Step
<1>2. Kept'
  BY <1>1, KeptOnly, OpsNat DEF IInv, TypeOK, Kept, Holding, Backed, Prepare, Step, Mem,
     Tree, trees
<1>3. Solo' /\ Alone'
  <2>1. ASSUME overlap = "no", task'[k] \notin AtRest PROVE DirOf(k)'
    BY <1>0, <1>1, <2>1, OpsNat DEF IInv, TypeOK, DirOf, Backed, AtRest, Prepare, Step, Mem,
       Tree, trees
  <2>2. ASSUME overlap = "no", task'[k] \notin AtRest PROVE FileOf(k)'
    BY <1>0, <1>1, <2>2, OpsNat DEF IInv, TypeOK, DirOf, FileOf, AtRest, Installing,
       Prepare, Step, Mem, Tree, trees
  <2> QED
    BY <1>0, <1>1, <2>1, <2>2, SoloOnly DEF IInv, SoloAt
<1>4. StatusIsTrue'
  BY <1>0, <1>1, OpsNat DEF IInv, TypeOK, Only, StatusIsTrue, Truth, DirOf, FileOf, Backed,
     Installing, Prepare, Step, Mem, Tree, trees
<1>5. Owner'
  BY <1>1, OwnerOnly, OpsNat DEF IInv, TypeOK, Owner, ActiveHasOwner, ActiveStatuses,
     AtRest, Prepare, Step, Mem, Tree, trees
<1> QED
  BY <1>1, <1>2, <1>3, <1>4, <1>5 DEF IInv

\* The operation ends before the switch.
LEMMA PrepareFailsStep ==
  ASSUME IInv, NEW k \in Ops, NEW s \in {"failed", "cancelled"}, PrepareFails(k, s)
  PROVE  IInv'
<1>0. /\ task[k] \notin AtRest /\ overlap' = overlap
      /\ overlap = "no" => DirOf(k) /\ FileOf(k)
  BY DEF IInv, Solo, SoloAt, AtRest, PrepareFails
<1>1. Only(k) /\ TypeOK'
  <2>1. Only(k) /\ task' \in [Ops -> Steps]
    BY DEF IInv, TypeOK, Only, PrepareFails, Step, Steps, Installing, trees
  <2>2. lock' \in {0} \cup Ops /\ (lock' # 0 => task'[lock'] \in Installing)
    BY OpsNat DEF IInv, TypeOK, PrepareFails, Step, Finish, Release, Write, WriteFails,
       Fault, NoFault, Installing
  <2>3. /\ root' \in Tree /\ running' \in Tree
        /\ backup' \in [Ops -> Tree] /\ failed' \in [Ops -> Tree]
    BY OpsNat DEF IInv, TypeOK, PrepareFails, Step, Finish, Release, Write, WriteFails,
       Fault, NoFault, trees, Mem, Tree
  <2> QED
    BY <2>1, <2>2, <2>3, UpdateAssumption, WrittenType DEF IInv, TypeOK, PrepareFails, Step,
       Finish, Release, Write, WriteFails, Fault, NoFault
<1>2. Kept'
  BY <1>1, KeptOnly, OpsNat DEF IInv, TypeOK, Kept, Holding, Backed, PrepareFails, Step,
     Finish, Release, Write, WriteFails, Fault, NoFault, Mem, Tree, trees
<1>3. Solo' /\ Alone'
  <2>1. ASSUME overlap = "no", task'[k] \notin AtRest PROVE DirOf(k)'
    BY <1>0, <1>1, <2>1, OpsNat DEF IInv, TypeOK, DirOf, Backed, AtRest, PrepareFails, Step,
       Finish, Release, Write, WriteFails, Fault, NoFault, Mem, Tree, trees
  <2>2. ASSUME overlap = "no", task'[k] \notin AtRest PROVE FileOf(k)'
    BY <1>0, <1>1, <2>2, OpsNat, WrittenType DEF IInv, TypeOK, DirOf, FileOf, AtRest,
       Installing, PrepareFails, Step, Finish, Release, Write, WriteFails, Fault, NoFault,
       Mem, Tree, trees
  <2> QED
    BY <1>0, <1>1, <2>1, <2>2, SoloOnly DEF IInv, SoloAt
<1>4. StatusIsTrue'
  BY <1>0, <1>1, OpsNat, WrittenType DEF IInv, TypeOK, Only, StatusIsTrue, Truth, DirOf,
     FileOf, Backed, Installing, PrepareFails, Step, Finish, Release, Write, WriteFails,
     Fault, NoFault, Mem, Tree, trees
<1>5. Owner'
  BY <1>1, OwnerOnly, OpsNat, WrittenType DEF IInv, TypeOK, Owner, ActiveHasOwner,
     ActiveStatuses, AtRest, PrepareFails, Step, Finish, Release, Write, WriteFails, Fault,
     NoFault, Mem, Tree, trees
<1> QED
  BY <1>1, <1>2, <1>3, <1>4, <1>5 DEF IInv

\* The plugin directory is renamed away.
LEMMA MoveAwayStep ==
  ASSUME IInv, NEW k \in Ops, MoveAway(k)
  PROVE  IInv'
<1>0. /\ task[k] \notin AtRest /\ overlap' = overlap
      /\ overlap = "no" => DirOf(k) /\ FileOf(k)
  BY DEF IInv, Solo, SoloAt, AtRest, MoveAway
<1>1. Only(k) /\ TypeOK'
  <2>1. Only(k) /\ task' \in [Ops -> Steps]
    BY DEF IInv, TypeOK, Only, MoveAway, Step, Steps, Installing, trees
  <2>2. lock' \in {0} \cup Ops /\ (lock' # 0 => task'[lock'] \in Installing)
    BY OpsNat DEF IInv, TypeOK, MoveAway, Step, Fault, NoFault, Installing
  <2>3. /\ root' \in Tree /\ running' \in Tree
        /\ backup' \in [Ops -> Tree] /\ failed' \in [Ops -> Tree]
    BY OpsNat DEF IInv, TypeOK, MoveAway, Step, Fault, NoFault, trees, Mem, Tree
  <2> QED
    BY <2>1, <2>2, <2>3, UpdateAssumption DEF IInv, TypeOK, MoveAway, Step, Fault, NoFault
<1>2. Kept'
  BY <1>1, KeptOnly, OpsNat DEF IInv, TypeOK, Kept, Holding, Backed, MoveAway, Step, Fault,
     NoFault, Mem, Tree, trees
<1>3. Solo' /\ Alone'
  <2>1. ASSUME overlap = "no", task'[k] \notin AtRest PROVE DirOf(k)'
    BY <1>0, <1>1, <2>1, OpsNat DEF IInv, TypeOK, DirOf, Backed, AtRest, MoveAway, Step,
       Fault, NoFault, Mem, Tree, trees
  <2>2. ASSUME overlap = "no", task'[k] \notin AtRest PROVE FileOf(k)'
    BY <1>0, <1>1, <2>2, OpsNat DEF IInv, TypeOK, DirOf, FileOf, AtRest, Installing,
       MoveAway, Step, Fault, NoFault, Mem, Tree, trees
  <2> QED
    BY <1>0, <1>1, <2>1, <2>2, SoloOnly DEF IInv, SoloAt
<1>4. StatusIsTrue'
  BY <1>0, <1>1, OpsNat DEF IInv, TypeOK, Only, StatusIsTrue, Truth, DirOf, FileOf, Backed,
     Installing, MoveAway, Step, Fault, NoFault, Mem, Tree, trees
<1>5. Owner'
  BY <1>1, OwnerOnly, OpsNat DEF IInv, TypeOK, Owner, ActiveHasOwner, ActiveStatuses,
     AtRest, MoveAway, Step, Fault, NoFault, Mem, Tree, trees
<1> QED
  BY <1>1, <1>2, <1>3, <1>4, <1>5 DEF IInv

\* The candidate is renamed into place.
LEMMA PlaceStep ==
  ASSUME IInv, NEW k \in Ops, Place(k)
  PROVE  IInv'
<1>0. /\ task[k] \notin AtRest /\ overlap' = overlap
      /\ overlap = "no" => DirOf(k) /\ FileOf(k)
  BY DEF IInv, Solo, SoloAt, AtRest, Place
<1>1. Only(k) /\ TypeOK'
  <2>1. Only(k) /\ task' \in [Ops -> Steps]
    BY DEF IInv, TypeOK, Only, Place, Step, Steps, Installing, trees
  <2>2. lock' \in {0} \cup Ops /\ (lock' # 0 => task'[lock'] \in Installing)
    BY OpsNat DEF IInv, TypeOK, Place, Step, Fault, NoFault, Installing
  <2>3. /\ root' \in Tree /\ running' \in Tree
        /\ backup' \in [Ops -> Tree] /\ failed' \in [Ops -> Tree]
    BY OpsNat DEF IInv, TypeOK, Place, Step, Fault, NoFault, trees, Mem, Tree
  <2> QED
    BY <2>1, <2>2, <2>3, UpdateAssumption DEF IInv, TypeOK, Place, Step, Fault, NoFault
<1>2. Kept'
  BY <1>1, KeptOnly, OpsNat DEF IInv, TypeOK, Kept, Holding, Backed, Place, Step, Fault,
     NoFault, Mem, Tree, trees
<1>3. Solo' /\ Alone'
  <2>1. ASSUME overlap = "no", task'[k] \notin AtRest PROVE DirOf(k)'
    BY <1>0, <1>1, <2>1, OpsNat DEF IInv, TypeOK, DirOf, Backed, AtRest, Place, Step, Fault,
       NoFault, Mem, Tree, trees
  <2>2. ASSUME overlap = "no", task'[k] \notin AtRest PROVE FileOf(k)'
    BY <1>0, <1>1, <2>2, OpsNat DEF IInv, TypeOK, DirOf, FileOf, AtRest, Installing, Place,
       Step, Fault, NoFault, Mem, Tree, trees
  <2> QED
    BY <1>0, <1>1, <2>1, <2>2, SoloOnly DEF IInv, SoloAt
<1>4. StatusIsTrue'
  BY <1>0, <1>1, OpsNat DEF IInv, TypeOK, Only, StatusIsTrue, Truth, DirOf, FileOf, Backed,
     Installing, Place, Step, Fault, NoFault, Mem, Tree, trees
<1>5. Owner'
  BY <1>1, OwnerOnly, OpsNat DEF IInv, TypeOK, Owner, ActiveHasOwner, ActiveStatuses,
     AtRest, Place, Step, Fault, NoFault, Mem, Tree, trees
<1> QED
  BY <1>1, <1>2, <1>3, <1>4, <1>5 DEF IInv

\* The plugin directory is put back.
LEMMA PutBackStep ==
  ASSUME IInv, NEW k \in Ops, PutBack(k)
  PROVE  IInv'
<1>0. /\ task[k] \notin AtRest /\ overlap' = overlap
      /\ overlap = "no" => DirOf(k) /\ FileOf(k)
  BY DEF IInv, Solo, SoloAt, AtRest, PutBack
<1>1. Only(k) /\ TypeOK'
  <2>1. Only(k) /\ task' \in [Ops -> Steps]
    BY DEF IInv, TypeOK, Only, PutBack, Step, Steps, Installing, trees
  <2>2. lock' \in {0} \cup Ops /\ (lock' # 0 => task'[lock'] \in Installing)
    BY OpsNat DEF IInv, TypeOK, PutBack, Step, Fault, NoFault, Installing
  <2>3. /\ root' \in Tree /\ running' \in Tree
        /\ backup' \in [Ops -> Tree] /\ failed' \in [Ops -> Tree]
    BY OpsNat DEF IInv, TypeOK, PutBack, Step, Fault, NoFault, trees, Mem, Tree
  <2> QED
    BY <2>1, <2>2, <2>3, UpdateAssumption DEF IInv, TypeOK, PutBack, Step, Fault, NoFault
<1>2. Kept'
  BY <1>1, KeptOnly, OpsNat DEF IInv, TypeOK, Kept, Holding, Backed, PutBack, Step, Fault,
     NoFault, Mem, Tree, trees
<1>3. Solo' /\ Alone'
  <2>1. ASSUME overlap = "no", task'[k] \notin AtRest PROVE DirOf(k)'
    BY <1>0, <1>1, <2>1, OpsNat DEF IInv, TypeOK, DirOf, Backed, AtRest, PutBack, Step,
       Fault, NoFault, Mem, Tree, trees
  <2>2. ASSUME overlap = "no", task'[k] \notin AtRest PROVE FileOf(k)'
    BY <1>0, <1>1, <2>2, OpsNat DEF IInv, TypeOK, DirOf, FileOf, AtRest, Installing,
       PutBack, Step, Fault, NoFault, Mem, Tree, trees
  <2> QED
    BY <1>0, <1>1, <2>1, <2>2, SoloOnly DEF IInv, SoloAt
<1>4. StatusIsTrue'
  BY <1>0, <1>1, OpsNat DEF IInv, TypeOK, Only, StatusIsTrue, Truth, DirOf, FileOf, Backed,
     Installing, PutBack, Step, Fault, NoFault, Mem, Tree, trees
<1>5. Owner'
  BY <1>1, OwnerOnly, OpsNat DEF IInv, TypeOK, Owner, ActiveHasOwner, ActiveStatuses,
     AtRest, PutBack, Step, Fault, NoFault, Mem, Tree, trees
<1> QED
  BY <1>1, <1>2, <1>3, <1>4, <1>5 DEF IInv

\* The operation ends after a failed switch.
LEMMA SwitchFailedStep ==
  ASSUME IInv, NEW k \in Ops, SwitchFailed(k)
  PROVE  IInv'
<1>0. /\ task[k] \notin AtRest /\ overlap' = overlap
      /\ overlap = "no" => DirOf(k) /\ FileOf(k)
  BY DEF IInv, Solo, SoloAt, AtRest, SwitchFailed
<1>1. Only(k) /\ TypeOK'
  <2>1. Only(k) /\ task' \in [Ops -> Steps]
    BY DEF IInv, TypeOK, Only, SwitchFailed, Step, Steps, Installing, trees
  <2>2. lock' \in {0} \cup Ops /\ (lock' # 0 => task'[lock'] \in Installing)
    BY OpsNat DEF IInv, TypeOK, SwitchFailed, Step, Finish, Release, Write, WriteFails,
       Fault, NoFault, Installing
  <2>3. /\ root' \in Tree /\ running' \in Tree
        /\ backup' \in [Ops -> Tree] /\ failed' \in [Ops -> Tree]
    BY OpsNat DEF IInv, TypeOK, SwitchFailed, Step, Finish, Release, Write, WriteFails,
       Fault, NoFault, trees, Mem, Tree
  <2> QED
    BY <2>1, <2>2, <2>3, UpdateAssumption, WrittenType DEF IInv, TypeOK, SwitchFailed, Step,
       Finish, Release, Write, WriteFails, Fault, NoFault
<1>2. Kept'
  BY <1>1, KeptOnly, OpsNat DEF IInv, TypeOK, Kept, Holding, Backed, SwitchFailed, Step,
     Finish, Release, Write, WriteFails, Fault, NoFault, Mem, Tree, trees
<1>3. Solo' /\ Alone'
  <2>1. ASSUME overlap = "no", task'[k] \notin AtRest PROVE DirOf(k)'
    BY <1>0, <1>1, <2>1, OpsNat DEF IInv, TypeOK, DirOf, Backed, AtRest, SwitchFailed, Step,
       Finish, Release, Write, WriteFails, Fault, NoFault, Mem, Tree, trees
  <2>2. ASSUME overlap = "no", task'[k] \notin AtRest PROVE FileOf(k)'
    BY <1>0, <1>1, <2>2, OpsNat, WrittenType DEF IInv, TypeOK, DirOf, FileOf, AtRest,
       Installing, SwitchFailed, Step, Finish, Release, Write, WriteFails, Fault, NoFault,
       Mem, Tree, trees
  <2> QED
    BY <1>0, <1>1, <2>1, <2>2, SoloOnly DEF IInv, SoloAt
<1>4. StatusIsTrue'
  BY <1>0, <1>1, OpsNat, WrittenType DEF IInv, TypeOK, Only, StatusIsTrue, Truth, DirOf,
     FileOf, Backed, Installing, SwitchFailed, Step, Finish, Release, Write, WriteFails,
     Fault, NoFault, Mem, Tree, trees
<1>5. Owner'
  BY <1>1, OwnerOnly, OpsNat, WrittenType DEF IInv, TypeOK, Owner, ActiveHasOwner,
     ActiveStatuses, AtRest, SwitchFailed, Step, Finish, Release, Write, WriteFails, Fault,
     NoFault, Mem, Tree, trees
<1> QED
  BY <1>1, <1>2, <1>3, <1>4, <1>5 DEF IInv

\* The reload is scheduled.
LEMMA ScheduleStep ==
  ASSUME IInv, NEW k \in Ops, Schedule(k)
  PROVE  IInv'
<1>0. /\ task[k] \notin AtRest /\ overlap' = overlap
      /\ overlap = "no" => DirOf(k) /\ FileOf(k)
  BY DEF IInv, Solo, SoloAt, AtRest, Schedule
<1>1. Only(k) /\ TypeOK'
  <2>1. Only(k) /\ task' \in [Ops -> Steps]
    BY DEF IInv, TypeOK, Only, Schedule, Step, Steps, Installing, trees
  <2>2. lock' \in {0} \cup Ops /\ (lock' # 0 => task'[lock'] \in Installing)
    BY OpsNat DEF IInv, TypeOK, Schedule, Step, Release, Write, WriteFails, Fault, NoFault,
       Installing
  <2>3. /\ root' \in Tree /\ running' \in Tree
        /\ backup' \in [Ops -> Tree] /\ failed' \in [Ops -> Tree]
    BY OpsNat DEF IInv, TypeOK, Schedule, Step, Release, Write, WriteFails, Fault, NoFault,
       trees, Mem, Tree
  <2> QED
    BY <2>1, <2>2, <2>3, UpdateAssumption, WrittenType DEF IInv, TypeOK, Schedule, Step,
       Release, Write, WriteFails, Fault, NoFault
<1>2. Kept'
  BY <1>1, KeptOnly, OpsNat DEF IInv, TypeOK, Kept, Holding, Backed, Schedule, Step,
     Release, Write, WriteFails, Fault, NoFault, Mem, Tree, trees
<1>3. Solo' /\ Alone'
  <2>1. ASSUME overlap = "no", task'[k] \notin AtRest PROVE DirOf(k)'
    BY <1>0, <1>1, <2>1, OpsNat DEF IInv, TypeOK, DirOf, Backed, AtRest, Schedule, Step,
       Release, Write, WriteFails, Fault, NoFault, Mem, Tree, trees
  <2>2. ASSUME overlap = "no", task'[k] \notin AtRest PROVE FileOf(k)'
    <3>1. /\ task'[k] = "wake" /\ mem' = mem
          /\ file' = Written(k, "reload_scheduled", mem[k], "no")
      BY <2>2 DEF IInv, TypeOK, Schedule, Step, Write, AtRest
    <3> QED
      BY <3>1, WrittenType DEF IInv, TypeOK, FileOf, Installing
  <2> QED
    BY <1>0, <1>1, <2>1, <2>2, SoloOnly DEF IInv, SoloAt
<1>4. StatusIsTrue'
  BY <1>0, <1>1, OpsNat, WrittenType DEF IInv, TypeOK, Only, StatusIsTrue, Truth, DirOf,
     FileOf, Backed, Installing, Schedule, Step, Release, Write, WriteFails, Fault, NoFault,
     Mem, Tree, trees
<1>5. Owner'
  BY <1>1, OwnerOnly, OpsNat, WrittenType DEF IInv, TypeOK, Owner, ActiveHasOwner,
     ActiveStatuses, AtRest, Schedule, Step, Release, Write, WriteFails, Fault, NoFault,
     Mem, Tree, trees
<1> QED
  BY <1>1, <1>2, <1>3, <1>4, <1>5 DEF IInv

\* The host ends the running instance.
LEMMA WakeStep ==
  ASSUME IInv, NEW k \in Ops, Wake(k)
  PROVE  IInv'
<1>0. /\ task[k] \notin AtRest /\ overlap' = overlap
      /\ overlap = "no" => DirOf(k) /\ FileOf(k)
  BY DEF IInv, Solo, SoloAt, AtRest, Wake
<1>1. Only(k) /\ TypeOK'
  <2>1. Only(k) /\ task' \in [Ops -> Steps]
    BY DEF IInv, TypeOK, Only, Wake, Step, Steps, Installing, trees
  <2>2. lock' \in {0} \cup Ops /\ (lock' # 0 => task'[lock'] \in Installing)
    BY OpsNat DEF IInv, TypeOK, Wake, Step, Installing
  <2>3. /\ root' \in Tree /\ running' \in Tree
        /\ backup' \in [Ops -> Tree] /\ failed' \in [Ops -> Tree]
    BY OpsNat DEF IInv, TypeOK, Wake, Step, trees, Mem, Tree
  <2> QED
    BY <2>1, <2>2, <2>3, UpdateAssumption DEF IInv, TypeOK, Wake, Step
<1>2. Kept'
  BY <1>1, KeptOnly, OpsNat DEF IInv, TypeOK, Kept, Holding, Backed, Wake, Step, Mem, Tree,
     trees
<1>3. Solo' /\ Alone'
  <2>1. ASSUME overlap = "no", task'[k] \notin AtRest PROVE DirOf(k)'
    BY <1>0, <1>1, <2>1, OpsNat DEF IInv, TypeOK, DirOf, Backed, AtRest, Wake, Step, Mem,
       Tree, trees
  <2>2. ASSUME overlap = "no", task'[k] \notin AtRest PROVE FileOf(k)'
    BY <1>0, <1>1, <2>2, OpsNat DEF IInv, TypeOK, DirOf, FileOf, AtRest, Installing, Wake,
       Step, Mem, Tree, trees
  <2> QED
    BY <1>0, <1>1, <2>1, <2>2, SoloOnly DEF IInv, SoloAt
<1>4. StatusIsTrue'
  BY <1>0, <1>1, OpsNat DEF IInv, TypeOK, Only, StatusIsTrue, Truth, DirOf, FileOf, Backed,
     Installing, Wake, Step, Mem, Tree, trees
<1>5. Owner'
  BY <1>1, OwnerOnly, OpsNat DEF IInv, TypeOK, Owner, ActiveHasOwner, ActiveStatuses,
     AtRest, Wake, Step, Mem, Tree, trees
<1> QED
  BY <1>1, <1>2, <1>3, <1>4, <1>5 DEF IInv

\* The host loads the new version.
LEMMA LoadNewStep ==
  ASSUME IInv, NEW k \in Ops, LoadNew(k)
  PROVE  IInv'
<1>0. /\ task[k] \notin AtRest /\ overlap' = overlap
      /\ overlap = "no" => DirOf(k) /\ FileOf(k)
  BY DEF IInv, Solo, SoloAt, AtRest, LoadNew
<1>1. Only(k) /\ TypeOK'
  <2>1. Only(k) /\ task' \in [Ops -> Steps]
    BY DEF IInv, TypeOK, Only, LoadNew, Step, trees, Steps
  <2>2. CASE Constructed
    BY <2>1, <2>2, ReconciledType, UpdateAssumption DEF IInv, TypeOK, LoadNew, Constructed,
       Fault, NoFault, trees
  <2>3. CASE NotLoaded \/ WriteFailsInLoad
    <3>1. lock' # 0 => task'[lock'] \in Installing
      BY <2>3, OpsNat DEF IInv, TypeOK, LoadNew, Step, NotLoaded, WriteFailsInLoad,
         Installing
    <3> QED
      BY <2>1, <2>3, <3>1, UpdateAssumption DEF IInv, TypeOK, LoadNew, NotLoaded,
         WriteFailsInLoad, Fault,
         Tree, trees
  <2> QED
    BY <2>2, <2>3 DEF LoadNew
<1>2. Kept'
  BY <1>1, KeptOnly, OpsNat DEF IInv, TypeOK, Kept, Holding, Backed, LoadNew, Step,
     Constructed, NotLoaded, WriteFailsInLoad, Fault, NoFault, Mem, Tree, trees
<1>3. Solo' /\ Alone'
  <2>1. ASSUME overlap = "no", task'[k] \notin AtRest PROVE DirOf(k)'
    BY <1>0, <1>1, <2>1, OpsNat DEF IInv, TypeOK, DirOf, Backed, AtRest, LoadNew, Step,
       Constructed, NotLoaded, WriteFailsInLoad, Fault, NoFault, Mem, Tree, trees
  <2>2. ASSUME overlap = "no", task'[k] \notin AtRest PROVE FileOf(k)'
    BY <1>0, <1>1, <2>2, OpsNat, ReconciledType DEF IInv, TypeOK, DirOf, FileOf, AtRest,
       Installing, LoadNew, Step, Constructed, NotLoaded, WriteFailsInLoad, Fault, NoFault,
       Mem, Tree, trees
  <2> QED
    BY <1>0, <1>1, <2>1, <2>2, SoloOnly DEF IInv, SoloAt
<1>4. StatusIsTrue'
  BY <1>0, <1>1, OpsNat, ReconciledType DEF IInv, TypeOK, Only, StatusIsTrue, Truth, DirOf,
     FileOf, Backed, Installing, LoadNew, Step, Constructed, NotLoaded, WriteFailsInLoad,
     Fault, NoFault, Mem, Tree, trees
<1>5. Owner'
  BY <1>1, OwnerOnly, OpsNat, ReconciledType DEF IInv, TypeOK, Owner, ActiveHasOwner,
     ActiveStatuses, AtRest, LoadNew, Step, Constructed, NotLoaded, WriteFailsInLoad, Fault,
     NoFault, Mem, Tree, trees
<1> QED
  BY <1>1, <1>2, <1>3, <1>4, <1>5 DEF IInv

\* The reload task is cancelled.
LEMMA ReloadCancelledStep ==
  ASSUME IInv, NEW k \in Ops, ReloadCancelled(k)
  PROVE  IInv'
<1>0. /\ task[k] \notin AtRest /\ overlap' = overlap
      /\ overlap = "no" => DirOf(k) /\ FileOf(k)
  BY DEF IInv, Solo, SoloAt, AtRest, ReloadCancelled
<1>1. Only(k) /\ TypeOK'
  <2>1. Only(k) /\ task' \in [Ops -> Steps]
    BY DEF IInv, TypeOK, Only, ReloadCancelled, Step, Steps, Installing, trees
  <2>2. lock' \in {0} \cup Ops /\ (lock' # 0 => task'[lock'] \in Installing)
    BY OpsNat DEF IInv, TypeOK, ReloadCancelled, Step, Fault, Installing
  <2>3. /\ root' \in Tree /\ running' \in Tree
        /\ backup' \in [Ops -> Tree] /\ failed' \in [Ops -> Tree]
    BY OpsNat DEF IInv, TypeOK, ReloadCancelled, Step, Fault, trees, Mem, Tree
  <2> QED
    BY <2>1, <2>2, <2>3, UpdateAssumption DEF IInv, TypeOK, ReloadCancelled, Step, Fault
<1>2. Kept'
  BY <1>1, KeptOnly, OpsNat DEF IInv, TypeOK, Kept, Holding, Backed, ReloadCancelled, Step,
     Fault, Mem, Tree, trees
<1>3. Solo' /\ Alone'
  <2>1. ASSUME overlap = "no", task'[k] \notin AtRest PROVE DirOf(k)'
    BY <1>0, <1>1, <2>1, OpsNat DEF IInv, TypeOK, DirOf, Backed, AtRest, ReloadCancelled,
       Step, Fault, Mem, Tree, trees
  <2>2. ASSUME overlap = "no", task'[k] \notin AtRest PROVE FileOf(k)'
    BY <1>0, <1>1, <2>2, OpsNat DEF IInv, TypeOK, DirOf, FileOf, AtRest, Installing,
       ReloadCancelled, Step, Fault, Mem, Tree, trees
  <2> QED
    BY <1>0, <1>1, <2>1, <2>2, SoloOnly DEF IInv, SoloAt
<1>4. StatusIsTrue'
  BY <1>0, <1>1, OpsNat DEF IInv, TypeOK, Only, StatusIsTrue, Truth, DirOf, FileOf, Backed,
     Installing, ReloadCancelled, Step, Fault, Mem, Tree, trees
<1>5. Owner'
  BY <1>1, OwnerOnly, OpsNat DEF IInv, TypeOK, Owner, ActiveHasOwner, ActiveStatuses,
     AtRest, ReloadCancelled, Step, Fault, Mem, Tree, trees
<1> QED
  BY <1>1, <1>2, <1>3, <1>4, <1>5 DEF IInv

\* The host confirms the reload.
LEMMA ConfirmStep ==
  ASSUME IInv, NEW k \in Ops, Confirm(k)
  PROVE  IInv'
<1>0. /\ task[k] \notin AtRest /\ overlap' = overlap
      /\ overlap = "no" => DirOf(k) /\ FileOf(k)
  BY DEF IInv, Solo, SoloAt, AtRest, Confirm
<1>1. Only(k) /\ TypeOK'
  <2>1. Only(k) /\ task' \in [Ops -> Steps]
    BY DEF IInv, TypeOK, Only, Confirm, Step, Steps, Installing, trees
  <2>2. lock' \in {0} \cup Ops /\ (lock' # 0 => task'[lock'] \in Installing)
    BY OpsNat DEF IInv, TypeOK, Confirm, Step, Write, WriteFails, Fault, NoFault, Installing
  <2>3. /\ root' \in Tree /\ running' \in Tree
        /\ backup' \in [Ops -> Tree] /\ failed' \in [Ops -> Tree]
    BY OpsNat DEF IInv, TypeOK, Confirm, Step, Write, WriteFails, Fault, NoFault, trees,
       Mem, Tree
  <2> QED
    BY <2>1, <2>2, <2>3, UpdateAssumption, WrittenType DEF IInv, TypeOK, Confirm, Step,
       Write, WriteFails, Fault, NoFault
<1>2. Kept'
  BY <1>1, KeptOnly, OpsNat DEF IInv, TypeOK, Kept, Holding, Backed, Confirm, Step, Write,
     WriteFails, Fault, NoFault, Mem, Tree, trees
<1>3. Solo' /\ Alone'
  <2>1. ASSUME overlap = "no", task'[k] \notin AtRest PROVE DirOf(k)'
    BY <1>0, <1>1, <2>1, OpsNat DEF IInv, TypeOK, DirOf, Backed, AtRest, Confirm, Step,
       Write, WriteFails, Fault, NoFault, Mem, Tree, trees
  <2>2. ASSUME overlap = "no", task'[k] \notin AtRest PROVE FileOf(k)'
    BY <1>0, <1>1, <2>2, OpsNat, WrittenType DEF IInv, TypeOK, DirOf, FileOf, AtRest,
       Installing, Confirm, Step, Write, WriteFails, Fault, NoFault, Mem, Tree, trees
  <2> QED
    BY <1>0, <1>1, <2>1, <2>2, SoloOnly DEF IInv, SoloAt
<1>4. StatusIsTrue'
  BY <1>0, <1>1, OpsNat, WrittenType DEF IInv, TypeOK, Only, StatusIsTrue, Truth, DirOf,
     FileOf, Backed, Installing, Confirm, Step, Write, WriteFails, Fault, NoFault, Mem,
     Tree, trees
<1>5. Owner'
  BY <1>1, OwnerOnly, OpsNat, WrittenType DEF IInv, TypeOK, Owner, ActiveHasOwner,
     ActiveStatuses, AtRest, Confirm, Step, Write, WriteFails, Fault, NoFault, Mem, Tree,
     trees
<1> QED
  BY <1>1, <1>2, <1>3, <1>4, <1>5 DEF IInv

\* The directory moved away is removed.
LEMMA CleanupStep ==
  ASSUME IInv, NEW k \in Ops, Cleanup(k)
  PROVE  IInv'
<1>0. /\ task[k] \notin AtRest /\ overlap' = overlap
      /\ overlap = "no" => DirOf(k) /\ FileOf(k)
  BY DEF IInv, Solo, SoloAt, AtRest, Cleanup
<1>1. Only(k) /\ TypeOK'
  <2>1. Only(k) /\ task' \in [Ops -> Steps]
    BY DEF IInv, TypeOK, Only, Cleanup, Step, Steps, Installing, trees
  <2>2. lock' \in {0} \cup Ops /\ (lock' # 0 => task'[lock'] \in Installing)
    BY OpsNat DEF IInv, TypeOK, Cleanup, Step, Fault, NoFault, Installing
  <2>3. /\ root' \in Tree /\ running' \in Tree
        /\ backup' \in [Ops -> Tree] /\ failed' \in [Ops -> Tree]
    BY OpsNat DEF IInv, TypeOK, Cleanup, Step, Fault, NoFault, trees, Mem, Tree
  <2> QED
    BY <2>1, <2>2, <2>3, UpdateAssumption DEF IInv, TypeOK, Cleanup, Step, Fault, NoFault
<1>2. Kept'
  BY <1>1, KeptOnly, OpsNat DEF IInv, TypeOK, Kept, Holding, Backed, Cleanup, Step, Fault,
     NoFault, Mem, Tree, trees
<1>3. Solo' /\ Alone'
  <2>1. ASSUME overlap = "no", task'[k] \notin AtRest PROVE DirOf(k)'
    BY <1>0, <1>1, <2>1, OpsNat DEF IInv, TypeOK, DirOf, Backed, AtRest, Cleanup, Step,
       Fault, NoFault, Mem, Tree, trees
  <2>2. ASSUME overlap = "no", task'[k] \notin AtRest PROVE FileOf(k)'
    BY <1>0, <1>1, <2>2, OpsNat DEF IInv, TypeOK, DirOf, FileOf, AtRest, Installing,
       Cleanup, Step, Fault, NoFault, Mem, Tree, trees
  <2> QED
    BY <1>0, <1>1, <2>1, <2>2, SoloOnly DEF IInv, SoloAt
<1>4. StatusIsTrue'
  BY <1>0, <1>1, OpsNat DEF IInv, TypeOK, Only, StatusIsTrue, Truth, DirOf, FileOf, Backed,
     Installing, Cleanup, Step, Fault, NoFault, Mem, Tree, trees
<1>5. Owner'
  BY <1>1, OwnerOnly, OpsNat DEF IInv, TypeOK, Owner, ActiveHasOwner, ActiveStatuses,
     AtRest, Cleanup, Step, Fault, NoFault, Mem, Tree, trees
<1> QED
  BY <1>1, <1>2, <1>3, <1>4, <1>5 DEF IInv

\* The host reports a failed reload.
LEMMA RollbackStep ==
  ASSUME IInv, NEW k \in Ops, Rollback(k)
  PROVE  IInv'
<1>0. /\ task[k] \notin AtRest /\ overlap' = overlap
      /\ overlap = "no" => DirOf(k) /\ FileOf(k)
  BY DEF IInv, Solo, SoloAt, AtRest, Rollback
<1>1. Only(k) /\ TypeOK'
  <2>1. Only(k) /\ task' \in [Ops -> Steps]
    BY DEF IInv, TypeOK, Only, Rollback, Step, Steps, Installing, trees
  <2>2. lock' \in {0} \cup Ops /\ (lock' # 0 => task'[lock'] \in Installing)
    BY OpsNat DEF IInv, TypeOK, Rollback, Step, Write, WriteFails, Fault, NoFault,
       Installing
  <2>3. /\ root' \in Tree /\ running' \in Tree
        /\ backup' \in [Ops -> Tree] /\ failed' \in [Ops -> Tree]
    BY OpsNat DEF IInv, TypeOK, Rollback, Step, Write, WriteFails, Fault, NoFault, trees,
       Mem, Tree
  <2> QED
    BY <2>1, <2>2, <2>3, UpdateAssumption, WrittenType DEF IInv, TypeOK, Rollback, Step,
       Write, WriteFails, Fault, NoFault
<1>2. Kept'
  BY <1>1, KeptOnly, OpsNat DEF IInv, TypeOK, Kept, Holding, Backed, Rollback, Step, Write,
     WriteFails, Fault, NoFault, Mem, Tree, trees
<1>3. Solo' /\ Alone'
  <2>1. ASSUME overlap = "no", task'[k] \notin AtRest PROVE DirOf(k)'
    BY <1>0, <1>1, <2>1, OpsNat DEF IInv, TypeOK, DirOf, Backed, AtRest, Rollback, Step,
       Write, WriteFails, Fault, NoFault, Mem, Tree, trees
  <2>2. ASSUME overlap = "no", task'[k] \notin AtRest PROVE FileOf(k)'
    BY <1>0, <1>1, <2>2, OpsNat, WrittenType DEF IInv, TypeOK, DirOf, FileOf, AtRest,
       Installing, Rollback, Step, Write, WriteFails, Fault, NoFault, Mem, Tree, trees
  <2> QED
    BY <1>0, <1>1, <2>1, <2>2, SoloOnly DEF IInv, SoloAt
<1>4. StatusIsTrue'
  BY <1>0, <1>1, OpsNat, WrittenType DEF IInv, TypeOK, Only, StatusIsTrue, Truth, DirOf,
     FileOf, Backed, Installing, Rollback, Step, Write, WriteFails, Fault, NoFault, Mem,
     Tree, trees
<1>5. Owner'
  BY <1>1, OwnerOnly, OpsNat, WrittenType DEF IInv, TypeOK, Owner, ActiveHasOwner,
     ActiveStatuses, AtRest, Rollback, Step, Write, WriteFails, Fault, NoFault, Mem, Tree,
     trees
<1> QED
  BY <1>1, <1>2, <1>3, <1>4, <1>5 DEF IInv

\* The failed directory is renamed away.
LEMMA RestoreAwayStep ==
  ASSUME IInv, NEW k \in Ops, RestoreAway(k)
  PROVE  IInv'
<1>0. /\ task[k] \notin AtRest /\ overlap' = overlap
      /\ overlap = "no" => DirOf(k) /\ FileOf(k)
  BY DEF IInv, Solo, SoloAt, AtRest, RestoreAway
<1>1. Only(k) /\ TypeOK'
  <2>1. Only(k) /\ task' \in [Ops -> Steps]
    BY DEF IInv, TypeOK, Only, RestoreAway, Step, Steps, Installing, trees
  <2>2. lock' \in {0} \cup Ops /\ (lock' # 0 => task'[lock'] \in Installing)
    BY OpsNat DEF IInv, TypeOK, RestoreAway, Step, Installing
  <2>3. /\ root' \in Tree /\ running' \in Tree
        /\ backup' \in [Ops -> Tree] /\ failed' \in [Ops -> Tree]
    BY OpsNat DEF IInv, TypeOK, RestoreAway, Step, trees, Mem, Tree
  <2> QED
    BY <2>1, <2>2, <2>3, UpdateAssumption DEF IInv, TypeOK, RestoreAway, Step
<1>2. Kept'
  BY <1>1, KeptOnly, OpsNat DEF IInv, TypeOK, Kept, Holding, Backed, RestoreAway, Step, Mem,
     Tree, trees
<1>3. Solo' /\ Alone'
  <2>1. ASSUME overlap = "no", task'[k] \notin AtRest PROVE DirOf(k)'
    BY <1>0, <1>1, <2>1, OpsNat DEF IInv, TypeOK, DirOf, Backed, AtRest, RestoreAway, Step,
       Mem, Tree, trees
  <2>2. ASSUME overlap = "no", task'[k] \notin AtRest PROVE FileOf(k)'
    BY <1>0, <1>1, <2>2, OpsNat DEF IInv, TypeOK, DirOf, FileOf, AtRest, Installing,
       RestoreAway, Step, Mem, Tree, trees
  <2> QED
    BY <1>0, <1>1, <2>1, <2>2, SoloOnly DEF IInv, SoloAt
<1>4. StatusIsTrue'
  BY <1>0, <1>1, OpsNat DEF IInv, TypeOK, Only, StatusIsTrue, Truth, DirOf, FileOf, Backed,
     Installing, RestoreAway, Step, Mem, Tree, trees
<1>5. Owner'
  BY <1>1, OwnerOnly, OpsNat DEF IInv, TypeOK, Owner, ActiveHasOwner, ActiveStatuses,
     AtRest, RestoreAway, Step, Mem, Tree, trees
<1> QED
  BY <1>1, <1>2, <1>3, <1>4, <1>5 DEF IInv

\* The previous directory is renamed into place.
LEMMA RestoreBackStep ==
  ASSUME IInv, NEW k \in Ops, RestoreBack(k)
  PROVE  IInv'
<1>0. /\ task[k] \notin AtRest /\ overlap' = overlap
      /\ overlap = "no" => DirOf(k) /\ FileOf(k)
  BY DEF IInv, Solo, SoloAt, AtRest, RestoreBack
<1>1. Only(k) /\ TypeOK'
  <2>1. Only(k) /\ task' \in [Ops -> Steps]
    BY DEF IInv, TypeOK, Only, RestoreBack, Step, Steps, Installing, trees
  <2>2. lock' \in {0} \cup Ops /\ (lock' # 0 => task'[lock'] \in Installing)
    BY OpsNat DEF IInv, TypeOK, RestoreBack, Step, Installing
  <2>3. /\ root' \in Tree /\ running' \in Tree
        /\ backup' \in [Ops -> Tree] /\ failed' \in [Ops -> Tree]
    BY OpsNat DEF IInv, TypeOK, RestoreBack, Step, trees, Mem, Tree
  <2> QED
    BY <2>1, <2>2, <2>3, UpdateAssumption DEF IInv, TypeOK, RestoreBack, Step
<1>2. Kept'
  BY <1>1, KeptOnly, OpsNat DEF IInv, TypeOK, Kept, Holding, Backed, RestoreBack, Step, Mem,
     Tree, trees
<1>3. Solo' /\ Alone'
  <2>1. ASSUME overlap = "no", task'[k] \notin AtRest PROVE DirOf(k)'
    BY <1>0, <1>1, <2>1, OpsNat DEF IInv, TypeOK, DirOf, Backed, AtRest, RestoreBack, Step,
       Mem, Tree, trees
  <2>2. ASSUME overlap = "no", task'[k] \notin AtRest PROVE FileOf(k)'
    BY <1>0, <1>1, <2>2, OpsNat DEF IInv, TypeOK, DirOf, FileOf, AtRest, Installing,
       RestoreBack, Step, Mem, Tree, trees
  <2> QED
    BY <1>0, <1>1, <2>1, <2>2, SoloOnly DEF IInv, SoloAt
<1>4. StatusIsTrue'
  BY <1>0, <1>1, OpsNat DEF IInv, TypeOK, Only, StatusIsTrue, Truth, DirOf, FileOf, Backed,
     Installing, RestoreBack, Step, Mem, Tree, trees
<1>5. Owner'
  BY <1>1, OwnerOnly, OpsNat DEF IInv, TypeOK, Owner, ActiveHasOwner, ActiveStatuses,
     AtRest, RestoreBack, Step, Mem, Tree, trees
<1> QED
  BY <1>1, <1>2, <1>3, <1>4, <1>5 DEF IInv

\* A rename of the rollback fails.
LEMMA RestoreFailsStep ==
  ASSUME IInv, NEW k \in Ops, RestoreFails(k)
  PROVE  IInv'
<1>0. /\ task[k] \notin AtRest /\ overlap' = overlap
      /\ overlap = "no" => DirOf(k) /\ FileOf(k)
  BY DEF IInv, Solo, SoloAt, AtRest, RestoreFails
<1>1. Only(k) /\ TypeOK'
  <2>1. Only(k) /\ task' \in [Ops -> Steps]
    BY DEF IInv, TypeOK, Only, RestoreFails, Step, Steps, Installing, trees
  <2>2. lock' \in {0} \cup Ops /\ (lock' # 0 => task'[lock'] \in Installing)
    BY OpsNat DEF IInv, TypeOK, RestoreFails, Step, Fault, NoFault, Installing
  <2>3. /\ root' \in Tree /\ running' \in Tree
        /\ backup' \in [Ops -> Tree] /\ failed' \in [Ops -> Tree]
    BY OpsNat DEF IInv, TypeOK, RestoreFails, Step, Fault, NoFault, trees, Mem, Tree
  <2> QED
    BY <2>1, <2>2, <2>3, UpdateAssumption DEF IInv, TypeOK, RestoreFails, Step, Fault,
       NoFault
<1>2. Kept'
  BY <1>1, KeptOnly, OpsNat DEF IInv, TypeOK, Kept, Holding, Backed, RestoreFails, Step,
     Fault, NoFault, Mem, Tree, trees
<1>3. Solo' /\ Alone'
  <2>1. ASSUME overlap = "no", task'[k] \notin AtRest PROVE DirOf(k)'
    BY <1>0, <1>1, <2>1, OpsNat DEF IInv, TypeOK, DirOf, Backed, AtRest, RestoreFails, Step,
       Fault, NoFault, Mem, Tree, trees
  <2>2. ASSUME overlap = "no", task'[k] \notin AtRest PROVE FileOf(k)'
    BY <1>0, <1>1, <2>2, OpsNat DEF IInv, TypeOK, DirOf, FileOf, AtRest, Installing,
       RestoreFails, Step, Fault, NoFault, Mem, Tree, trees
  <2> QED
    BY <1>0, <1>1, <2>1, <2>2, SoloOnly DEF IInv, SoloAt
<1>4. StatusIsTrue'
  BY <1>0, <1>1, OpsNat DEF IInv, TypeOK, Only, StatusIsTrue, Truth, DirOf, FileOf, Backed,
     Installing, RestoreFails, Step, Fault, NoFault, Mem, Tree, trees
<1>5. Owner'
  BY <1>1, OwnerOnly, OpsNat DEF IInv, TypeOK, Owner, ActiveHasOwner, ActiveStatuses,
     AtRest, RestoreFails, Step, Fault, NoFault, Mem, Tree, trees
<1> QED
  BY <1>1, <1>2, <1>3, <1>4, <1>5 DEF IInv

\* The operation ends after a failed rollback.
LEMMA GiveUpStep ==
  ASSUME IInv, NEW k \in Ops, GiveUp(k)
  PROVE  IInv'
<1>0. /\ task[k] \notin AtRest /\ overlap' = overlap
      /\ overlap = "no" => DirOf(k) /\ FileOf(k)
  BY DEF IInv, Solo, SoloAt, AtRest, GiveUp
<1>1. Only(k) /\ TypeOK'
  <2>1. Only(k) /\ task' \in [Ops -> Steps]
    BY DEF IInv, TypeOK, Only, GiveUp, Step, Steps, Installing, trees
  <2>2. lock' \in {0} \cup Ops /\ (lock' # 0 => task'[lock'] \in Installing)
    BY OpsNat DEF IInv, TypeOK, GiveUp, Step, Finish, Write, WriteFails, Fault, NoFault,
       Installing
  <2>3. /\ root' \in Tree /\ running' \in Tree
        /\ backup' \in [Ops -> Tree] /\ failed' \in [Ops -> Tree]
    BY OpsNat DEF IInv, TypeOK, GiveUp, Step, Finish, Write, WriteFails, Fault, NoFault,
       trees, Mem, Tree
  <2> QED
    BY <2>1, <2>2, <2>3, UpdateAssumption, WrittenType DEF IInv, TypeOK, GiveUp, Step,
       Finish, Write, WriteFails, Fault, NoFault
<1>2. Kept'
  BY <1>1, KeptOnly, OpsNat DEF IInv, TypeOK, Kept, Holding, Backed, GiveUp, Step, Finish,
     Write, WriteFails, Fault, NoFault, Mem, Tree, trees
<1>3. Solo' /\ Alone'
  <2>1. ASSUME overlap = "no", task'[k] \notin AtRest PROVE DirOf(k)'
    BY <1>0, <1>1, <2>1, OpsNat DEF IInv, TypeOK, DirOf, Backed, AtRest, GiveUp, Step,
       Finish, Write, WriteFails, Fault, NoFault, Mem, Tree, trees
  <2>2. ASSUME overlap = "no", task'[k] \notin AtRest PROVE FileOf(k)'
    BY <1>0, <1>1, <2>2, OpsNat, WrittenType DEF IInv, TypeOK, DirOf, FileOf, AtRest,
       Installing, GiveUp, Step, Finish, Write, WriteFails, Fault, NoFault, Mem, Tree, trees
  <2> QED
    BY <1>0, <1>1, <2>1, <2>2, SoloOnly DEF IInv, SoloAt
<1>4. StatusIsTrue'
  BY <1>0, <1>1, OpsNat, WrittenType DEF IInv, TypeOK, Only, StatusIsTrue, Truth, DirOf,
     FileOf, Backed, Installing, GiveUp, Step, Finish, Write, WriteFails, Fault, NoFault,
     Mem, Tree, trees
<1>5. Owner'
  BY <1>1, OwnerOnly, OpsNat, WrittenType DEF IInv, TypeOK, Owner, ActiveHasOwner,
     ActiveStatuses, AtRest, GiveUp, Step, Finish, Write, WriteFails, Fault, NoFault, Mem,
     Tree, trees
<1> QED
  BY <1>1, <1>2, <1>3, <1>4, <1>5 DEF IInv

\* The host loads the previous version.
LEMMA LoadOldStep ==
  ASSUME IInv, NEW k \in Ops, LoadOld(k)
  PROVE  IInv'
<1>0. /\ task[k] \notin AtRest /\ overlap' = overlap
      /\ overlap = "no" => DirOf(k) /\ FileOf(k)
  BY DEF IInv, Solo, SoloAt, AtRest, LoadOld
<1>1. Only(k) /\ TypeOK'
  <2>1. Only(k) /\ task' \in [Ops -> Steps]
    BY DEF IInv, TypeOK, Only, LoadOld, Step, Steps, Installing, trees
  <2>2. lock' \in {0} \cup Ops /\ (lock' # 0 => task'[lock'] \in Installing)
    BY OpsNat DEF IInv, TypeOK, LoadOld, Step, Constructed, NotLoaded, WriteFailsInLoad,
       Fault, NoFault, Installing
  <2>3. /\ root' \in Tree /\ running' \in Tree
        /\ backup' \in [Ops -> Tree] /\ failed' \in [Ops -> Tree]
    BY OpsNat DEF IInv, TypeOK, LoadOld, Step, Constructed, NotLoaded, WriteFailsInLoad,
       Fault, NoFault, trees, Mem, Tree
  <2> QED
    BY <2>1, <2>2, <2>3, UpdateAssumption, ReconciledType DEF IInv, TypeOK, LoadOld, Step,
       Constructed, NotLoaded, WriteFailsInLoad, Fault, NoFault
<1>2. Kept'
  BY <1>1, KeptOnly, OpsNat DEF IInv, TypeOK, Kept, Holding, Backed, LoadOld, Step,
     Constructed, NotLoaded, WriteFailsInLoad, Fault, NoFault, Mem, Tree, trees
<1>3. Solo' /\ Alone'
  <2>1. ASSUME overlap = "no", task'[k] \notin AtRest PROVE DirOf(k)'
    BY <1>0, <1>1, <2>1, OpsNat DEF IInv, TypeOK, DirOf, Backed, AtRest, LoadOld, Step,
       Constructed, NotLoaded, WriteFailsInLoad, Fault, NoFault, Mem, Tree, trees
  <2>2. ASSUME overlap = "no", task'[k] \notin AtRest PROVE FileOf(k)'
    BY <1>0, <1>1, <2>2, OpsNat, ReconciledType DEF IInv, TypeOK, DirOf, FileOf, AtRest,
       Installing, LoadOld, Step, Constructed, NotLoaded, WriteFailsInLoad, Fault, NoFault,
       Mem, Tree, trees
  <2> QED
    BY <1>0, <1>1, <2>1, <2>2, SoloOnly DEF IInv, SoloAt
<1>4. StatusIsTrue'
  BY <1>0, <1>1, OpsNat, ReconciledType DEF IInv, TypeOK, Only, StatusIsTrue, Truth, DirOf,
     FileOf, Backed, Installing, LoadOld, Step, Constructed, NotLoaded, WriteFailsInLoad,
     Fault, NoFault, Mem, Tree, trees
<1>5. Owner'
  BY <1>1, OwnerOnly, OpsNat, ReconciledType DEF IInv, TypeOK, Owner, ActiveHasOwner,
     ActiveStatuses, AtRest, LoadOld, Step, Constructed, NotLoaded, WriteFailsInLoad, Fault,
     NoFault, Mem, Tree, trees
<1> QED
  BY <1>1, <1>2, <1>3, <1>4, <1>5 DEF IInv

\* The operation ends after its rollback.
LEMMA FinishRollbackStep ==
  ASSUME IInv, NEW k \in Ops, FinishRollback(k)
  PROVE  IInv'
<1>0. /\ task[k] \notin AtRest /\ overlap' = overlap
      /\ overlap = "no" => DirOf(k) /\ FileOf(k)
  BY DEF IInv, Solo, SoloAt, AtRest, FinishRollback
<1>1. Only(k) /\ TypeOK'
  <2>1. Only(k) /\ task' \in [Ops -> Steps]
    BY DEF IInv, TypeOK, Only, FinishRollback, Step, Steps, Installing, trees
  <2>2. lock' \in {0} \cup Ops /\ (lock' # 0 => task'[lock'] \in Installing)
    BY OpsNat DEF IInv, TypeOK, FinishRollback, Step, Write, WriteFails, Fault, NoFault,
       Installing
  <2>3. /\ root' \in Tree /\ running' \in Tree
        /\ backup' \in [Ops -> Tree] /\ failed' \in [Ops -> Tree]
    BY OpsNat DEF IInv, TypeOK, FinishRollback, Step, Write, WriteFails, Fault, NoFault,
       trees, Mem, Tree
  <2> QED
    BY <2>1, <2>2, <2>3, UpdateAssumption, WrittenType DEF IInv, TypeOK, FinishRollback,
       Step, Write, WriteFails, Fault, NoFault
<1>2. Kept'
  BY <1>1, KeptOnly, OpsNat DEF IInv, TypeOK, Kept, Holding, Backed, FinishRollback, Step,
     Write, WriteFails, Fault, NoFault, Mem, Tree, trees
<1>3. Solo' /\ Alone'
  <2>1. ASSUME overlap = "no", task'[k] \notin AtRest PROVE DirOf(k)'
    BY <1>0, <1>1, <2>1, OpsNat DEF IInv, TypeOK, DirOf, Backed, AtRest, FinishRollback,
       Step, Write, WriteFails, Fault, NoFault, Mem, Tree, trees
  <2>2. ASSUME overlap = "no", task'[k] \notin AtRest PROVE FileOf(k)'
    BY <1>0, <1>1, <2>2, OpsNat, WrittenType DEF IInv, TypeOK, DirOf, FileOf, AtRest,
       Installing, FinishRollback, Step, Write, WriteFails, Fault, NoFault, Mem, Tree, trees
  <2> QED
    BY <1>0, <1>1, <2>1, <2>2, SoloOnly DEF IInv, SoloAt
<1>4. StatusIsTrue'
  BY <1>0, <1>1, OpsNat, WrittenType DEF IInv, TypeOK, Only, StatusIsTrue, Truth, DirOf,
     FileOf, Backed, Installing, FinishRollback, Step, Write, WriteFails, Fault, NoFault,
     Mem, Tree, trees
<1>5. Owner'
  BY <1>1, OwnerOnly, OpsNat, WrittenType DEF IInv, TypeOK, Owner, ActiveHasOwner,
     ActiveStatuses, AtRest, FinishRollback, Step, Write, WriteFails, Fault, NoFault, Mem,
     Tree, trees
<1> QED
  BY <1>1, <1>2, <1>3, <1>4, <1>5 DEF IInv

\* The host loads the plugin.
LEMMA HostLoadStep ==
  ASSUME IInv, HostLoad
  PROVE  IInv'
<1>1. /\ UNCHANGED <<root, backup, failed, mem, task, overlap>>
      /\ file' \in {file, Reconciled} /\ lock' \in {0, lock} /\ running' \in {root, None}
      /\ file' # file => root # None
      /\ faults' = faults \/ (faults' = faults + 1 /\ faults < MaxFaults)
  BY DEF HostLoad, Constructed, NotLoaded, WriteFailsInLoad, Fault, NoFault, trees
<1>2. /\ file' \in File \cup {NoFile} /\ file'.op = file.op
      /\ file'.version = file.version /\ file'.previous = file.previous
      /\ \/ file' = file
         \/ /\ file.status = "reload_scheduled" /\ root = file.version
            /\ file'.status = "succeeded"
         \/ /\ file.status = "rolling_back" /\ root = file.previous
            /\ file'.status = "rolled_back"
  BY <1>1, ReconciledType DEF IInv, TypeOK
<1>3. TypeOK'
  BY <1>1, <1>2, UpdateAssumption DEF IInv, TypeOK, Tree
<1>4. Kept' /\ Alone'
  BY <1>1 DEF IInv, Kept, Alone
<1>5. ASSUME overlap = "no", NEW k \in Ops, task[k] \notin AtRest PROVE SoloAt(k)'
  <2>1. DirOf(k) /\ FileOf(k)
    BY <1>5 DEF IInv, Solo, SoloAt
  <2>2. DirOf(k)'
    BY <1>1, <2>1 DEF DirOf
  <2>3. FileOf(k)'
    BY <1>1, <1>2, <2>1 DEF DirOf, FileOf, Installing, None
  <2> QED
    BY <2>2, <2>3 DEF SoloAt
<1>6. Solo'
  BY <1>1, <1>5 DEF Solo
<1>7. StatusIsTrue'
  BY <1>1, <1>2 DEF IInv, StatusIsTrue, Truth
<1>8. Owner'
  BY <1>1, <1>2 DEF IInv, Owner, ActiveHasOwner, ActiveStatuses, TypeOK
<1> QED
  BY <1>3, <1>4, <1>6, <1>7, <1>8 DEF IInv

\* The process stops.
LEMMA CrashStep ==
  ASSUME IInv, Crash
  PROVE  IInv'
<1>1. /\ UNCHANGED <<root, backup, failed, mem, file, overlap>>
      /\ task' = [k \in Ops |-> IF task[k] = "idle" THEN "idle" ELSE "ended"]
      /\ running' = None /\ lock' = 0 /\ faults' = faults + 1 /\ faults < MaxFaults
  BY DEF Crash, Fault, trees
<1>2. \A k \in Ops : task'[k] \in AtRest /\ (task[k] # "idle" => task'[k] = "ended")
  BY <1>1 DEF AtRest
<1>3. TypeOK'
  BY <1>1, UpdateAssumption DEF IInv, TypeOK, Tree, Steps
<1>4. Kept'
  BY <1>1, <1>2 DEF IInv, Kept, Holding, Backed, AtRest
<1>5. Alone' /\ Solo'
  BY <1>2 DEF Alone, Solo
<1>6. StatusIsTrue'
  BY <1>1 DEF IInv, StatusIsTrue, Truth
<1>7. Owner'
  BY <1>1, <1>2 DEF IInv, TypeOK, Owner, ActiveHasOwner, AtRest
<1> QED
  BY <1>3, <1>4, <1>5, <1>6, <1>7 DEF IInv

\* The invariant holds at first.
LEMMA InitIInv == Init => IInv
<1> SUFFICES ASSUME Init PROVE IInv
  OBVIOUS
<1>1. TypeOK
  BY UpdateAssumption DEF Init, TypeOK, Tree, Versions, Mem, Steps, NoFile
<1>2. Kept /\ Alone /\ Solo
  BY DEF Init, Kept, Alone, Solo, AtRest, Backed, None
<1>3. StatusIsTrue /\ Owner
  BY OpsNat DEF Init, StatusIsTrue, Truth, Owner, ActiveHasOwner, ActiveStatuses, NoFile
<1> QED
  BY <1>1, <1>2, <1>3 DEF IInv

\* A stutter preserves it.
LEMMA StutterIInv ==
  ASSUME IInv, UNCHANGED vars
  PROVE  IInv'
<1>1. UNCHANGED <<root, backup, failed, mem, file, task, lock, running, faults, overlap>>
  BY DEF vars
<1>2. TypeOK' /\ Kept' /\ Alone' /\ Owner' /\ StatusIsTrue'
  BY <1>1 DEF IInv, TypeOK, Kept, Alone, Owner, ActiveHasOwner, StatusIsTrue, Truth
<1>3. Solo'
  BY <1>1 DEF IInv, Solo, SoloAt, DirOf, FileOf
<1> QED
  BY <1>2, <1>3 DEF IInv

\* Every step preserves it.
LEMMA NextIInv == IInv /\ [Next]_vars => IInv'
<1> SUFFICES ASSUME IInv, [Next]_vars PROVE IInv'
  OBVIOUS
<1>1. ASSUME NEW k \in Ops, Install(k) PROVE IInv'
  BY <1>1, BeginStep, DownloadStep, PrepareStep, PrepareFailsStep, MoveAwayStep, PlaceStep,
     PutBackStep, SwitchFailedStep, ScheduleStep DEF Install
<1>2. ASSUME NEW k \in Ops, Finalize(k) PROVE IInv'
  BY <1>2, WakeStep, LoadNewStep, ReloadCancelledStep, ConfirmStep, CleanupStep,
     RollbackStep,
     RestoreAwayStep, RestoreBackStep, RestoreFailsStep, GiveUpStep, LoadOldStep,
     FinishRollbackStep DEF Finalize
<1> QED
  BY <1>1, <1>2, HostLoadStep, CrashStep, StutterIInv DEF Next

-----------------------------------------------------------------------------
(***************************************************************************)
(* What the invariant is for.                                              *)
(***************************************************************************)

\* So it holds in every behaviour.
LEMMA Invariant == Spec => []IInv
  BY InitIInv, NextIInv, PTL DEF Spec

\* Types, and the lock of the loaded instance (_apply_lock) is held only by a call of
\* apply_latest that is under way.
THEOREM TypeCorrect == Spec => []TypeOK
<1>1. IInv => TypeOK
  BY DEF IInv
<1> QED
  BY <1>1, Invariant, PTL

\* If a failed rename or a crash leaves no plugin directory, one that was moved away by
\* _switch_runtime or awaits _restore_previous_runtime still exists.
THEOREM NeverLost == Spec => []RuntimeNeverLost
<1>1. IInv => RuntimeNeverLost
  BY DEF IInv, Kept, RuntimeNeverLost
<1> QED
  BY <1>1, Invariant, PTL

\* The directory moved away is there until the host has judged the reload and the rollback
\* has used it; without overlap it is the version that ran before.
THEOREM BackupAwaits == Spec => []BackupAwaitsVerdict
<1>1. IInv => BackupAwaitsVerdict
  <2> SUFFICES ASSUME IInv, NEW k \in Ops,
                      task[k] \in {"schedule", "wake", "reload", "loaded", "unloaded",
                                   "restore", "restore_back"}
               PROVE  backup[k] # None /\ (overlap = "no" => backup[k] = mem[k].previous)
    BY DEF BackupAwaitsVerdict
  <2>1. backup[k] # None
    BY DEF IInv, Kept, Backed
  <2>2. overlap = "no" => backup[k] = mem[k].previous
    BY DEF IInv, Solo, SoloAt, DirOf, Backed, AtRest
  <2> QED
    BY <2>1, <2>2
<1> QED
  BY <1>1, Invariant, PTL

\* Without overlap the state file tells the truth about the plugin directory, whoever wrote
\* it and whichever of its writes was lost.
THEOREM StatusTrue == Spec => []StatusIsTrue
<1>1. IInv => StatusIsTrue
  BY DEF IInv
<1> QED
  BY <1>1, Invariant, PTL

\* Without faults an active status belongs to an operation that runs.
THEOREM ActiveOwned == Spec => []ActiveHasOwner
<1>1. IInv => ActiveHasOwner
  BY DEF IInv, Owner
<1> QED
  BY <1>1, Invariant, PTL
=============================================================================
