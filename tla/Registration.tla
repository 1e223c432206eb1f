---------------------------- MODULE Registration ----------------------------
(***************************************************************************)
(* A registration request from the form to the account. Goroutines of the  *)
(* API server (handler.go) create, approve and reject requests in a        *)
(* directory of JSON files (file_store.go); administrators do the same     *)
(* with `basphere-admin user approve` and `user reject`, which edit the    *)
(* files themselves. The store's mutex orders the goroutines' single reads *)
(* and writes, and nothing orders the administrators or what lies between  *)
(* a read and the write that is based on it.                               *)
(*                                                                         *)
(* Actors run one operation at a time. A file is written by truncating it  *)
(* and filling it (os.WriteFile), which other processes can see; a CLI     *)
(* edit is jq into a .tmp file and mv. Accounts are never removed here.    *)
(***************************************************************************)
EXTENDS Naturals

CONSTANTS
  Usernames,
  Emails,
  Handlers,     \* goroutines of the API server
  Shells,       \* root shells in which basphere-admin runs
  MaxRequests,  \* bound: how many requests are ever created
  NoFile,       \* a file that does not exist
  Empty,        \* a file without JSON, which every reader skips
  Nobody        \* the mutex of the store is free

Actors == Handlers \cup Shells

\* A request's number stands for its ID and for CreatedAt: IDs do not collide,
\* and no two requests carry the same nanosecond.
Ids == 1 .. MaxRequests

Request == [id : Ids, username : Usernames, email : Emails,
            status : {"pending", "approved", "rejected"},
            by : {"", "api", "cli"}]
Draft == [id : {0}, username : Usernames, email : Emails,
          status : {"pending"}, by : {""}]
NoRequest == [id |-> 0]

Steps == {"idle", "check-username", "check-email", "check-account", "create",
          "write", "check-exists", "write-key", "update", "user-add", "useradd",
          "install-key", "enroll", "edit", "move"}

\* CreateUser and user_approve hand user_add the key in a temporary file that is
\* named after the user, each in a directory of its own.
KeyFiles == {"api", "cli"} \X Usernames

ASSUME RegistrationAssumption ==
  /\ MaxRequests \in Nat
  /\ Handlers \cap Shells = {}
  /\ Nobody \notin Handlers
  /\ NoFile # Empty
  /\ {NoFile, Empty} \cap Request = {}

VARIABLES
  store,       \* the request files, by ID
  tmpFile,     \* the .tmp files of the CLI, by ID
  writer,      \* the goroutine that holds the store's write lock
  issued,      \* how many IDs are taken
  accounts,    \* users `id` knows
  enrolled,    \* users with a directory under users/
  keyFiles,    \* the temporary key files there are
  pc,          \* what each actor does next
  req,         \* the request it works on, with the status it is to get
  outcomes     \* history: the decisions each request's file has ever held

files == << store, tmpFile >>
system == << accounts, enrolled, keyFiles >>
vars == << files, system, writer, issued, pc, req, outcomes >>

Init ==
  /\ store = [i \in Ids |-> NoFile]
  /\ tmpFile = [i \in Ids |-> NoFile]
  /\ writer = Nobody
  /\ issued = 0
  /\ accounts = {}
  /\ enrolled = {}
  /\ keyFiles = {}
  /\ pc = [x \in Actors |-> "idle"]
  /\ req = [x \in Actors |-> NoRequest]
  /\ outcomes = [i \in Ids |-> {}]

-----------------------------------------------------------------------------
(* What a reader of the directory sees, and how an actor goes on. *)

Readable == {i \in Ids : store[i] \notin {NoFile, Empty}}
PendingOf(u) == {i \in Readable : store[i].username = u /\ store[i].status = "pending"}
PendingWith(e) == {i \in Readable : store[i].email = e /\ store[i].status = "pending"}

\* GetByUsername: the newest request of the user, whatever its status.
IsNewest(i, u) ==
  /\ i \in Readable /\ store[i].username = u
  /\ \A j \in Readable : store[j].username = u => j <= i

Goto(x, step) == pc' = [pc EXCEPT ![x] = step]
Work(x, step, r) == Goto(x, step) /\ req' = [req EXCEPT ![x] = r]
Fail(x) == Work(x, "idle", NoRequest)

\* A file is replaced by content c: a decision in it goes into the history.
Put(i, c) ==
  /\ store' = [store EXCEPT ![i] = c]
  /\ outcomes' = IF c = Empty \/ c.status = "pending" THEN outcomes
                 ELSE [outcomes EXCEPT ![i] = @ \cup {c.status}]

\* The read lock is granted when nobody writes.
ReadLock == writer = Nobody

-----------------------------------------------------------------------------
(* createRegistrationRequest *)

Register(h) ==
  /\ pc[h] = "idle"
  /\ issued < MaxRequests
  /\ \E u \in Usernames, e \in Emails :
       Work(h, "check-username",
            [id |-> 0, username |-> u, email |-> e, status |-> "pending", by |-> ""])
  /\ UNCHANGED << files, system, writer, issued, outcomes >>

CheckUsername(h) ==
  /\ pc[h] = "check-username" /\ ReadLock
  /\ \/ PendingOf(req[h].username) # {} /\ Fail(h)
     \/ PendingOf(req[h].username) = {} /\ Goto(h, "check-email") /\ UNCHANGED req
  /\ UNCHANGED << files, system, writer, issued, outcomes >>

CheckEmail(h) ==
  /\ pc[h] = "check-email" /\ ReadLock
  /\ \/ PendingWith(req[h].email) # {} /\ Fail(h)
     \/ PendingWith(req[h].email) = {} /\ Goto(h, "check-account") /\ UNCHANGED req
  /\ UNCHANGED << files, system, writer, issued, outcomes >>

\* The account check, then time.Now() and generateID().
CheckAccount(h) ==
  /\ pc[h] = "check-account"
  /\ \/ req[h].username \in accounts /\ Fail(h) /\ UNCHANGED issued
     \/ /\ req[h].username \notin accounts
        /\ issued < MaxRequests
        /\ issued' = issued + 1
        /\ Work(h, "create", [req[h] EXCEPT !.id = issued'])
  /\ UNCHANGED << files, system, writer, outcomes >>

\* writeRequest opens the file with O_TRUNC, the write lock held.
Truncate(h) ==
  /\ Put(req[h].id, Empty)
  /\ writer' = h
  /\ Goto(h, "write")
  /\ UNCHANGED << tmpFile, system, issued, req >>

\* Create of the store checks the username again, under its lock.
CreateUnchecked(h) == pc[h] = "create" /\ writer = Nobody /\ Truncate(h)
Create(h) ==
  /\ pc[h] = "create" /\ writer = Nobody
  /\ \/ /\ PendingOf(req[h].username) # {}
        /\ Fail(h)
        /\ UNCHANGED << files, system, writer, issued, outcomes >>
     \/ PendingOf(req[h].username) = {} /\ Truncate(h)

\* writeRequest fills the file; the deferred Unlock follows.
Write(h) ==
  /\ pc[h] = "write"
  /\ Put(req[h].id, req[h])
  /\ writer' = Nobody
  /\ Fail(h)
  /\ UNCHANGED << tmpFile, system, issued >>

-----------------------------------------------------------------------------
(* apiApprove and apiReject *)

\* GetByUsername and the status check; the handler keeps the copy it read.
GetPending(h, step, status) ==
  /\ pc[h] = "idle" /\ ReadLock
  /\ \E u \in Usernames : \E i \in Ids :
       /\ IsNewest(i, u)
       /\ store[i].status = "pending"
       /\ Work(h, step, [store[i] EXCEPT !.status = status, !.by = "api"])
  /\ UNCHANGED << files, system, writer, issued, outcomes >>

Approve(h) == GetPending(h, "check-exists", "approved")
Reject(h) == GetPending(h, "update", "rejected")

\* UserExists, in apiApprove after the status check and in user_approve after
\* the scan.
CheckExists(x) ==
  /\ pc[x] = "check-exists"
  /\ \/ req[x].username \in accounts /\ Fail(x)
     \/ req[x].username \notin accounts /\ Goto(x, "write-key") /\ UNCHANGED req
  /\ UNCHANGED << files, system, writer, issued, outcomes >>

KeyFile(x) == << IF x \in Handlers THEN "api" ELSE "cli", req[x].username >>

WriteKey(x) ==
  /\ pc[x] = "write-key"
  /\ keyFiles' = keyFiles \cup {KeyFile(x)}
  /\ Goto(x, "user-add")
  /\ UNCHANGED << files, accounts, enrolled, writer, issued, req, outcomes >>

\* Update of the store: whatever the file says now, the handler's copy replaces
\* it. A file that cannot be read or opened is an error.
UpdateUnlocked(h) ==
  /\ pc[h] = "update"
  /\ req[h].id \in Readable
  /\ Truncate(h)
Update(h) == writer = Nobody /\ UpdateUnlocked(h)
UpdateFails(h) ==
  /\ pc[h] = "update" /\ writer = Nobody
  /\ Fail(h)
  /\ UNCHANGED << files, system, writer, issued, outcomes >>

-----------------------------------------------------------------------------
(* user_add, run as a child of the API server (basphere-admin user add) or as  *)
(* a function of user_approve.                                                 *)

\* CreateUser removes its key file when user_add ends, however it ends; a shell
\* that user_add exits leaves its own.
RemoveKey(x) == keyFiles' = keyFiles \ {KeyFile(x)}
UserAddExits(x) ==
  /\ Fail(x)
  /\ IF x \in Handlers THEN RemoveKey(x) ELSE UNCHANGED keyFiles

\* The key file must exist, and the user must not.
MayAdd(x) == KeyFile(x) \in keyFiles /\ req[x].username \notin accounts \cup enrolled

UserAdd(x) ==
  /\ pc[x] = "user-add"
  /\ \/ ~MayAdd(x) /\ UserAddExits(x)
     \/ MayAdd(x) /\ Goto(x, "useradd") /\ UNCHANGED << keyFiles, req >>
  /\ UNCHANGED << files, accounts, enrolled, writer, issued, outcomes >>

\* A command of user_add fails. Under set -e that is the end of it; in
\* user_approve, which calls it in an if condition, bash ignores set -e and
\* user_add goes on.
GoOn(x, step) == Goto(x, step) /\ UNCHANGED << keyFiles, req >>
CommandFails(x, step) == IF x \in Shells THEN GoOn(x, step) ELSE UserAddExits(x)

Useradd(x) ==
  /\ pc[x] = "useradd"
  /\ req[x].username \notin accounts
  /\ accounts' = accounts \cup {req[x].username}
  /\ GoOn(x, "install-key")
  /\ UNCHANGED << files, enrolled, writer, issued, outcomes >>

\* useradd fails, because another actor was faster or for a reason of its own.
UseraddFailsUnseen(x) ==
  /\ pc[x] = "useradd"
  /\ GoOn(x, "install-key")
  /\ UNCHANGED << files, accounts, enrolled, writer, issued, outcomes >>
UseraddFails(x) ==
  /\ pc[x] = "useradd"
  /\ CommandFails(x, "install-key")
  /\ UNCHANGED << files, accounts, enrolled, writer, issued, outcomes >>

\* cat fails when another approval of the user has removed the key file; any of
\* the commands can fail for a reason of its own.
InstallKey(x) ==
  /\ pc[x] = "install-key"
  /\ \/ KeyFile(x) \in keyFiles /\ GoOn(x, "enroll")
     \/ CommandFails(x, "enroll")
  /\ UNCHANGED << files, accounts, enrolled, writer, issued, outcomes >>

\* The user's directories, metadata, IP block and vSphere folder; the last two
\* may fail without consequence. user_add returns 0.
Enroll(x) ==
  /\ pc[x] = "enroll"
  /\ enrolled' = enrolled \cup {req[x].username}
  /\ IF x \in Handlers
     THEN Goto(x, "update") /\ RemoveKey(x) /\ UNCHANGED req
     ELSE GoOn(x, "edit")
  /\ UNCHANGED << files, accounts, writer, issued, outcomes >>

EnrollFails(x) ==
  /\ pc[x] = "enroll"
  /\ CommandFails(x, "edit")
  /\ UNCHANGED << files, accounts, enrolled, writer, issued, outcomes >>

-----------------------------------------------------------------------------
(* basphere-admin user approve and user reject *)

\* The scan stops at the first pending file of the user, in the order of names.
Scan(a, step, status) ==
  /\ pc[a] = "idle"
  /\ \E u \in Usernames : \E i \in PendingOf(u) :
       Work(a, step, [store[i] EXCEPT !.status = status, !.by = "cli"])
  /\ UNCHANGED << files, system, writer, issued, outcomes >>

UserApprove(a) == Scan(a, "check-exists", "approved")

\* The prompt is answered before the edit.
UserReject(a) == Scan(a, "edit", "rejected")

\* jq '.status = ...' req_file > req_file.tmp: of a file without JSON it makes
\* a file without JSON, and exits 0.
EditStampOnly(a) ==
  /\ pc[a] = "edit"
  /\ tmpFile' = [tmpFile EXCEPT ![req[a].id] = store[req[a].id]]
  /\ Goto(a, "move")
  /\ UNCHANGED << store, system, writer, issued, req, outcomes >>
Edit(a) ==
  /\ pc[a] = "edit"
  /\ tmpFile' = [tmpFile EXCEPT ![req[a].id] =
       IF req[a].id \in Readable
       THEN [store[req[a].id] EXCEPT !.status = req[a].status, !.by = "cli"]
       ELSE Empty]
  /\ Goto(a, "move")
  /\ UNCHANGED << store, system, writer, issued, req, outcomes >>

\* mv, unless another shell has moved the file away; user_approve then removes
\* its key file.
Move(a) ==
  /\ pc[a] = "move"
  /\ \/ tmpFile[req[a].id] = NoFile /\ UNCHANGED << files, outcomes >>
     \/ /\ tmpFile[req[a].id] # NoFile
        /\ Put(req[a].id, tmpFile[req[a].id])
        /\ tmpFile' = [tmpFile EXCEPT ![req[a].id] = NoFile]
  /\ Fail(a)
  /\ IF req[a].status = "approved" THEN RemoveKey(a) ELSE UNCHANGED keyFiles
  /\ UNCHANGED << accounts, enrolled, writer, issued >>

\* The administrator answers no, or the shell dies.
Quit(a) ==
  /\ pc[a] # "idle"
  /\ Fail(a)
  /\ UNCHANGED << files, system, writer, issued, outcomes >>

\* The API server stops, with its children; systemd starts it again.
Restart ==
  /\ pc' = [x \in Actors |-> IF x \in Handlers THEN "idle" ELSE pc[x]]
  /\ req' = [x \in Actors |-> IF x \in Handlers THEN NoRequest ELSE req[x]]
  /\ writer' = Nobody
  /\ UNCHANGED << files, system, issued, outcomes >>

-----------------------------------------------------------------------------
HandlerStep(h) ==
  \/ Register(h) \/ CheckUsername(h) \/ CheckEmail(h) \/ CheckAccount(h)
  \/ Create(h) \/ Write(h)
  \/ Approve(h) \/ Reject(h) \/ Update(h) \/ UpdateFails(h)

ShellStep(a) == UserApprove(a) \/ UserReject(a) \/ Edit(a) \/ Move(a) \/ Quit(a)

UserAddStep(x) ==
  \/ CheckExists(x) \/ WriteKey(x) \/ UserAdd(x) \/ Useradd(x) \/ UseraddFails(x)
  \/ InstallKey(x) \/ Enroll(x) \/ EnrollFails(x)

Next ==
  \/ \E h \in Handlers : HandlerStep(h)
  \/ \E a \in Shells : ShellStep(a)
  \/ \E x \in Actors : UserAddStep(x)
  \/ Restart

Spec == Init /\ [][Next]_vars

-----------------------------------------------------------------------------
\* The lock of the store is held exactly while a goroutine writes a file.
TypeOK ==
  /\ store \in [Ids -> Request \cup {NoFile, Empty}]
  /\ tmpFile \in [Ids -> Request \cup {NoFile, Empty}]
  /\ \A i \in Ids : i \in Readable => store[i].id = i
  /\ issued \in 0 .. MaxRequests
  /\ accounts \subseteq Usernames
  /\ enrolled \subseteq Usernames
  /\ keyFiles \subseteq KeyFiles
  /\ pc \in [Actors -> Steps]
  /\ req \in [Actors -> Request \cup Draft \cup {NoRequest}]
  /\ \A x \in Actors : pc[x] = "idle" <=> req[x] = NoRequest
  /\ outcomes \in [Ids -> SUBSET {"approved", "rejected"}]
  /\ writer \in Handlers \cup {Nobody}
  /\ \A h \in Handlers : pc[h] = "write" <=> writer = h

\* A user has at most one pending request, however many are sent at once:
\* createRegistrationRequest checks without the lock, Create again with it.
OnePendingPerUser ==
  \A u \in Usernames : \A i, j \in PendingOf(u) : i = j

\* A request that was approved or rejected is never pending again: not even a
\* stale copy that a handler or a shell writes back reopens it.
NeverReopened ==
  \A i \in Readable : store[i].status = "pending" => outcomes[i] = {}

\* A request the API server approved has an account and a directory: a failure
\* of any command of user_add leaves the request undecided.
ApiApprovalHasAccount ==
  \A i \in Readable :
    store[i].status = "approved" /\ store[i].by = "api" =>
      store[i].username \in accounts \cap enrolled

\* "On approval the account is created automatically", says the API's README,
\* and user_approve reports a failure otherwise: an approved request has one.
ApprovalHasAccount ==
  \A i \in Readable :
    store[i].status = "approved" => store[i].username \in accounts

\* A request that has been processed cannot be processed again: the API answers
\* "Request is not pending", and TestAPIApprove_AlreadyProcessed expects it. So
\* no request is approved by one administrator and rejected by another.
DecisionIsFinal ==
  \A i \in Ids : outcomes[i] # {"approved", "rejected"}
=============================================================================
