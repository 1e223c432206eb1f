------------------------------ MODULE IpamPurge ------------------------------
(***************************************************************************)
(* Ipam with administrators who run `basphere-admin user purge`. The purge *)
(* rewrites both ledgers itself, by grep -v into a file next to the ledger *)
(* and mv, and never asks for the lock the internal scripts take: its      *)
(* steps interleave with the inside of theirs. The two temporary files     *)
(* have one fixed name each, so concurrent purges share them.              *)
(*                                                                         *)
(* The VMs and the vSphere folder that a purge destroys first, and the     *)
(* directories and the account it removes last, are not ledgers: Purge     *)
(* begins when the folder is gone and ends when the ledgers are rewritten. *)
(* The redirection of a grep, its reading of the ledger, its writing and   *)
(* the mv are one step each. Of two lines that a write at the beginning of *)
(* a file cuts in two, the rest is nobody's. A set of lines cannot hold    *)
(* one line twice, as a line brought back could be; no property counts     *)
(* lines. The disk is not full.                                            *)
(***************************************************************************)
EXTENDS Ipam

CONSTANTS
  Admins,  \* root shells in which basphere-admin runs
  NoFile   \* a temporary file that does not exist

VARIABLES
  admin,           \* what each purge does next, whose it is, what its grep has
  allocationsTmp,  \* allocations.tsv.tmp
  leasesTmp,       \* leases.tsv.tmp
  overwritten      \* history: whether a grep has written into allocations.tsv itself

files == << allocationsTmp, leasesTmp >>
adminVars == << admin, allocationsTmp, leasesTmp, overwritten >>
allVars == << vars, adminVars >>

OnAllocations == {"read-allocations", "write-allocations"}
OnLeases == {"read-leases", "write-leases"}
PurgeSteps == OnAllocations \cup OnLeases \cup
  {"open-allocations", "move-allocations", "open-leases", "move-leases"}

\* The file a grep has open for its output is the temporary file of its ledger,
\* or, when another purge has moved that, the ledger, or no named file any more.
Outputs == {"none", "tmp", "ledger", "gone"}

Idle == [pc |-> "idle"]
Purges == [pc : PurgeSteps, user : Users, output : Outputs,
           copy : (SUBSET Allocation) \cup (SUBSET Lease)]

InitWithAdmins ==
  /\ Init
  /\ admin = [a \in Admins |-> Idle]
  /\ allocationsTmp = NoFile
  /\ leasesTmp = NoFile
  /\ overwritten = FALSE

\* A purge is about to run the command pc names, on behalf of no other user.
At(a, step) == admin[a].pc = step
Doing(a, step, out, lines) ==
  [pc |-> step, user |-> admin[a].user, output |-> out, copy |-> lines]
GoTo(a, step, out, lines) ==
  admin' = [admin EXCEPT ![a] = Doing(a, step, out, lines)]
Stop(a) == admin' = [admin EXCEPT ![a] = Idle]

\* What purge b has open after a mv onto the ledger that its grep works on.
Moved(b) ==
  [admin[b] EXCEPT !.output = IF @ = "tmp" THEN "ledger" ELSE "gone"]
Unlinked(b) ==
  [admin[b] EXCEPT !.output = IF @ = "ledger" THEN "gone" ELSE @]

\* Writing at the beginning of a file leaves the lines further on.
Overwrite(file, lines) == {lines \cup kept : kept \in SUBSET file}

-----------------------------------------------------------------------------
\* The confirmed purge has destroyed the VMs it could and the folder.
Purge(a) ==
  /\ At(a, "idle")
  /\ \E u \in Users :
       admin' = [admin EXCEPT ![a] = [pc |-> "open-allocations", user |-> u,
                                      output |-> "none", copy |-> {}]]
  /\ UNCHANGED << vars, files, overwritten >>

\* grep -v "^user<TAB>" allocations.tsv > allocations.tsv.tmp: the shell empties
\* the file for the output, whoever else writes it.
OpenAllocations(a) ==
  /\ At(a, "open-allocations")
  /\ allocationsTmp' = {}
  /\ GoTo(a, "read-allocations", "tmp", {})
  /\ UNCHANGED << vars, leasesTmp, overwritten >>

\* grep refuses to read its own output.
OthersAllocations(u) == {l \in allocations : l.user # u}
ReadAllocations(a) ==
  /\ At(a, "read-allocations")
  /\ IF admin[a].output = "ledger" THEN GoTo(a, "move-allocations", "none", {})
     ELSE GoTo(a, "write-allocations", admin[a].output, OthersAllocations(admin[a].user))
  /\ UNCHANGED << vars, files, overwritten >>

WriteAllocationsByName(a) ==
  /\ At(a, "write-allocations")
  /\ allocationsTmp' = admin[a].copy
  /\ GoTo(a, "move-allocations", "none", {})
  /\ UNCHANGED << vars, leasesTmp, overwritten >>
WriteAllocations(a) ==
  /\ At(a, "write-allocations")
  /\ \/ /\ admin[a].output = "tmp"
        /\ allocationsTmp' \in Overwrite(allocationsTmp, admin[a].copy)
        /\ UNCHANGED << allocations, overwritten >>
     \/ /\ admin[a].output = "ledger"
        /\ allocations' \in Overwrite(allocations, admin[a].copy)
        /\ overwritten' = TRUE
        /\ UNCHANGED allocationsTmp
     \/ /\ admin[a].output = "gone"
        /\ UNCHANGED << allocations, allocationsTmp, overwritten >>
  /\ GoTo(a, "move-allocations", "none", {})
  /\ UNCHANGED << leases, lock, pc, job, output, tmpFile, leasesTmp >>

\* mv allocations.tsv.tmp allocations.tsv; set -e ends the purge when another
\* one has moved the file away.
MoveAllocations(a) ==
  /\ At(a, "move-allocations")
  /\ \/ allocationsTmp = NoFile /\ Stop(a) /\ UNCHANGED << vars, allocationsTmp >>
     \/ /\ allocationsTmp # NoFile
        /\ allocations' = allocationsTmp
        /\ allocationsTmp' = NoFile
        /\ admin' = [b \in Admins |->
             IF b = a THEN Doing(a, "open-leases", "none", {})
             ELSE IF admin[b].pc \in OnAllocations THEN Moved(b) ELSE admin[b]]
        /\ UNCHANGED << leases, lock, pc, job, output, tmpFile >>
  /\ UNCHANGED << leasesTmp, overwritten >>

\* grep -v "<TAB>user<TAB>" leases.tsv > leases.tsv.tmp
OpenLeases(a) ==
  /\ At(a, "open-leases")
  /\ leasesTmp' = {}
  /\ GoTo(a, "read-leases", "tmp", {})
  /\ UNCHANGED << vars, allocationsTmp, overwritten >>

\* The name between two tabs is found in the user, the resource and the type
\* column alike.
OthersLeases(u) == {l \in leases : u \notin {l.user, l.resource, l.type}}
ReadLeases(a) ==
  /\ At(a, "read-leases")
  /\ IF admin[a].output = "ledger" THEN GoTo(a, "move-leases", "none", {})
     ELSE GoTo(a, "write-leases", admin[a].output, OthersLeases(admin[a].user))
  /\ UNCHANGED << vars, files, overwritten >>

WriteLeases(a) ==
  /\ At(a, "write-leases")
  /\ \/ /\ admin[a].output = "tmp"
        /\ leasesTmp' \in Overwrite(leasesTmp, admin[a].copy)
        /\ UNCHANGED leases
     \/ /\ admin[a].output = "ledger"
        /\ leases' \in Overwrite(leases, admin[a].copy)
        /\ UNCHANGED leasesTmp
     \/ admin[a].output = "gone" /\ UNCHANGED << leases, leasesTmp >>
  /\ GoTo(a, "move-leases", "none", {})
  /\ UNCHANGED << allocations, lock, pc, job, output, tmpFile, allocationsTmp,
                  overwritten >>

\* mv leases.tsv.tmp leases.tsv; with or without it the purge goes on to what is
\* no ledger, or ends.
MoveLeases(a) ==
  /\ At(a, "move-leases")
  /\ \/ leasesTmp = NoFile /\ Stop(a) /\ UNCHANGED << vars, leasesTmp >>
     \/ /\ leasesTmp # NoFile
        /\ leases' = leasesTmp
        /\ leasesTmp' = NoFile
        /\ admin' = [b \in Admins |->
             IF b = a THEN Idle
             ELSE IF admin[b].pc \in OnLeases THEN Moved(b) ELSE admin[b]]
        /\ UNCHANGED << allocations, lock, pc, job, output, tmpFile >>
  /\ UNCHANGED << allocationsTmp, overwritten >>

\* The administrator's shell dies; a temporary file it wrote stays behind.
AdminCrash(a) ==
  /\ ~At(a, "idle")
  /\ Stop(a)
  /\ UNCHANGED << vars, files, overwritten >>

PurgeStep(a) ==
  \/ Purge(a) \/ AdminCrash(a)
  \/ OpenAllocations(a) \/ ReadAllocations(a) \/ WriteAllocations(a) \/ MoveAllocations(a)
  \/ OpenLeases(a) \/ ReadLeases(a) \/ WriteLeases(a) \/ MoveLeases(a)

\* A step of the scripts; release-ip's mv puts another file in the place of one
\* that a purge's grep has open.
Replaces(p) == pc[p] = "replace-leases" /\ pc'[p] = "exit"
ScriptStep(p) ==
  /\ Call(p) \/ Step(p) \/ Crash(p)
  /\ admin' = IF ~Replaces(p) THEN admin
              ELSE [b \in Admins |-> IF admin[b].pc \in OnLeases THEN Unlinked(b) ELSE admin[b]]
  /\ UNCHANGED << files, overwritten >>

NextWithAdmins ==
  \/ \E p \in Procs : ScriptStep(p)
  \/ \E a \in Admins : PurgeStep(a)

SpecWithAdmins == InitWithAdmins /\ [][NextWithAdmins]_allVars

-----------------------------------------------------------------------------
\* What each purge has read and has open fits the command it is at.
PurgeTypeOK ==
  /\ TypeOK
  /\ admin \in [Admins -> Purges \cup {Idle}]
  /\ \A a \in Admins : LET s == admin[a] IN
       /\ s.pc = "write-allocations" => s.copy \subseteq Allocation
       /\ s.pc = "write-leases" => s.copy \subseteq Lease
       /\ s # Idle => (s.output = "none" <=> s.pc \notin OnAllocations \cup OnLeases)
  /\ allocationsTmp = NoFile \/ allocationsTmp \subseteq Allocation
  /\ leasesTmp = NoFile \/ leasesTmp \subseteq Lease
  /\ overwritten \in BOOLEAN

\* Purges without the lock lose lines, but as long as no purge's grep writes into
\* the ledger itself, through the temporary file that another purge has moved
\* there, they never bring a freed block back to its former user or give it to two:
\* allocations.tsv gains a line only by the grant of a block nobody has to a user
\* without one. So a script that decided on a block before a purge's mv may still
\* record it after.
BlocksGrantedWhole ==
  [][ \/ allocations' \subseteq allocations
      \/ \E u \in Users : GrantBlock(u)
      \/ overwritten' ]_allVars

\* "Remove the lines of this user (keep the comment lines)", says user_purge of
\* its rewrite of allocations.tsv: the mv of a purge drops nobody else's block.
OnlyOwnBlockFreed ==
  [][ \A l \in allocations \ allocations' :
        \E a \in Admins : At(a, "move-allocations") /\ admin[a].user = l.user
    ]_allVars

\* "Remove the lines whose username column (the 2nd) is this user", says
\* user_purge of its rewrite of leases.tsv: what grep leaves out of the copy
\* are leases of that user.
OnlyOwnLeasesDropped ==
  [][ \A a \in Admins :
        At(a, "read-leases") /\ At(a, "write-leases")' =>
          \A l \in leases \ admin'[a].copy : l.user = admin[a].user ]_allVars
=============================================================================
