----------------------------- MODULE KeyChange -----------------------------
(***************************************************************************)
(* A user who lost an SSH key asks for another one. Goroutines of the API  *)
(* server (handler.go) create, approve and reject such requests in a       *)
(* directory of JSON files (key_change_store.go); administrators approve   *)
(* and reject them with `basphere-admin key`, which edits the files        *)
(* itself. An approval replaces authorized_keys of the user before it      *)
(* marks the request, and nothing orders the two, nor two approvals.       *)
(*                                                                         *)
(* A file, authorized_keys included, is written by truncating and filling  *)
(* it, which other processes can see; a CLI edit of a request is jq into a *)
(* .tmp file and mv.                                                       *)
(***************************************************************************)
EXTENDS Naturals

CONSTANTS
  Users,
  Handlers,     \* goroutines of the API server
  Shells,       \* root shells in which basphere-admin runs
  MaxRequests,  \* bound: how many requests are ever created
  NoFile,       \* a file that does not exist
  Empty,        \* a file without content; a key read from one
  Nobody        \* the mutex of the store is free

Actors == Handlers \cup Shells

\* A request's number stands for its ID, for IDs do not collide, and for the key
\* it asks for: no two ask for the same.
Ids == 1 .. MaxRequests
FirstKey == 0  \* the key a user registered with

Request == [id : Ids, username : Users, key : Ids,
            status : {"pending", "approved", "rejected"}, by : {"", "api", "cli"}]
NoRequest == [id |-> 0, status |-> "none"]

Steps == {"idle", "check-user", "create", "write", "find-home", "read-key",
          "open-key", "fill-key", "own-key", "update", "edit", "move"}

ASSUME KeyChangeAssumption ==
  /\ MaxRequests \in Nat
  /\ Handlers \cap Shells = {}
  /\ Nobody \notin Handlers
  /\ NoFile # Empty
  /\ {NoFile, Empty} \cap Request = {}
  /\ {NoFile, Empty} \cap Nat = {}

VARIABLES
  store,           \* the request files, by ID
  tmpFile,         \* the .tmp files of the CLI, by ID
  writer,          \* the goroutine that holds the store's write lock
  issued,          \* how many IDs are taken
  accounts,        \* users `id` and getent know
  authorizedKeys,  \* ~/.ssh/authorized_keys of each user
  pc,              \* what each actor does next
  req,             \* the copy of the request it works on
  decided,         \* history: requests whose file has held a decision
  installed,       \* history: requests whose key was written for them
  last,            \* history: the request last marked approved, by user
  trouble          \* history: a failure, a death, or two decisions at once

files == << store, tmpFile >>
home == << accounts, authorizedKeys, installed >>
locks == << writer, issued >>
decisions == << decided, last >>
work == << pc, req >>
vars == << files, home, locks, decisions, work, trouble >>

Init ==
  /\ store = [i \in Ids |-> NoFile]
  /\ tmpFile = [i \in Ids |-> NoFile]
  /\ writer = Nobody
  /\ issued = 0
  /\ accounts = Users
  /\ authorizedKeys = [u \in Users |-> FirstKey]
  /\ pc = [x \in Actors |-> "idle"]
  /\ req = [x \in Actors |-> NoRequest]
  /\ decided = {}
  /\ installed = {}
  /\ last = [u \in Users |-> 0]
  /\ trouble = FALSE

-----------------------------------------------------------------------------
(* What a reader of the directory sees, and how an actor goes on. *)

Readable == {i \in Ids : store[i] \notin {NoFile, Empty}}
PendingOf(u) == {i \in Readable : store[i].username = u /\ store[i].status = "pending"}

\* The actors that decide about a request of user u.
Deciders(u) == {x \in Actors : req[x].status \in {"approved", "rejected"}
                               /\ req[x].username = u}

Goto(x, step) == pc' = [pc EXCEPT ![x] = step] /\ UNCHANGED req
Work(x, step, r) == pc' = [pc EXCEPT ![x] = step] /\ req' = [req EXCEPT ![x] = r]
Return(x) == Work(x, "idle", NoRequest)
Trouble == trouble' = TRUE

\* A file is replaced by content c; a decision in it goes into the history.
Put(i, c) ==
  /\ store' = [store EXCEPT ![i] = c]
  /\ decided' = IF c # Empty /\ c.status # "pending" THEN decided \cup {i} ELSE decided
  /\ last' = IF c # Empty /\ c.status = "approved"
             THEN [last EXCEPT ![c.username] = i] ELSE last

\* writeRequest opens the file with O_TRUNC, the write lock held.
Truncate(h) ==
  /\ Put(req[h].id, Empty)
  /\ writer' = h
  /\ Goto(h, "write")
  /\ UNCHANGED << tmpFile, home, issued, trouble >>

-----------------------------------------------------------------------------
(* createKeyChangeRequest *)

Submit(h) ==
  /\ pc[h] = "idle"
  /\ issued < MaxRequests
  /\ issued' = issued + 1
  /\ \E u \in Users :
       Work(h, "check-user", [id |-> issued', username |-> u, key |-> issued',
                              status |-> "pending", by |-> ""])
  /\ UNCHANGED << files, home, writer, decisions, trouble >>

\* UserExists. The e-mail check that follows decides nothing: GetUserEmail
\* reads users/<name>.json, which nothing writes, and is then passed over.
CheckUser(h) ==
  /\ pc[h] = "check-user"
  /\ IF req[h].username \in accounts THEN Goto(h, "create") ELSE Return(h)
  /\ UNCHANGED << files, home, locks, decisions, trouble >>

CreateUnchecked(h) == pc[h] = "create" /\ writer = Nobody /\ Truncate(h)
Create(h) ==
  /\ pc[h] = "create" /\ writer = Nobody
  /\ \/ /\ PendingOf(req[h].username) # {}
        /\ Return(h)
        /\ UNCHANGED << files, home, locks, decisions, trouble >>
     \/ PendingOf(req[h].username) = {} /\ Truncate(h)

\* writeRequest fills the file, or fails to; the deferred Unlock follows.
Write(h) ==
  /\ pc[h] = "write"
  /\ \/ Put(req[h].id, req[h]) /\ UNCHANGED trouble
     \/ Trouble /\ UNCHANGED << store, decisions >>
  /\ writer' = Nobody
  /\ Return(h)
  /\ UNCHANGED << tmpFile, home, issued >>

-----------------------------------------------------------------------------
(* How a decision begins: apiApproveKeyChange and apiRejectKeyChange look the *)
(* user's pending request up under the read lock, key_approve and key_reject  *)
(* scan the files. Each keeps the copy it read, with the status it will set.  *)

Decide(x, step, status, by) ==
  /\ pc[x] = "idle"
  /\ \E u \in Users : \E i \in PendingOf(u) :
       /\ Work(x, step, [store[i] EXCEPT !.status = status, !.by = by])
       /\ IF Deciders(u) # {} THEN Trouble ELSE UNCHANGED trouble
  /\ UNCHANGED << files, home, locks, decisions >>

ApproveKeyChange(h) == writer = Nobody /\ Decide(h, "find-home", "approved", "api")
RejectKeyChange(h) == writer = Nobody /\ Decide(h, "update", "rejected", "api")
KeyApprove(a) == Decide(a, "find-home", "approved", "cli")
KeyRejectInstalls(a) == Decide(a, "find-home", "rejected", "cli")
KeyReject(a) == Decide(a, "edit", "rejected", "cli")

-----------------------------------------------------------------------------
(* UpdateUserKey of the API server, and the same lines of key_approve. *)

\* getent passwd; `id` in the CLI.
FindHome(x) ==
  /\ pc[x] = "find-home"
  /\ IF req[x].username \notin accounts THEN Return(x)
     ELSE Goto(x, IF x \in Shells THEN "read-key" ELSE "open-key")
  /\ UNCHANGED << files, home, locks, decisions, trouble >>

\* The CLI takes the key from the file once more: jq makes "" of an empty one.
ReadKey(a) ==
  /\ pc[a] = "read-key"
  /\ Work(a, "open-key", [req[a] EXCEPT !.key =
       IF req[a].id \in Readable THEN store[req[a].id].key ELSE Empty])
  /\ UNCHANGED << files, home, locks, decisions, trouble >>

SetKeys(u, content) == authorizedKeys' = [authorizedKeys EXCEPT ![u] = content]

\* MkdirAll and the truncation. The CLI makes no directory and stops under
\* set -e when there is none.
OpenKey(x) ==
  /\ pc[x] = "open-key"
  /\ IF x \in Shells /\ authorizedKeys[req[x].username] = NoFile
     THEN Return(x) /\ UNCHANGED authorizedKeys
     ELSE Goto(x, "fill-key") /\ SetKeys(req[x].username, Empty)
  /\ UNCHANGED << files, accounts, installed, locks, decisions, trouble >>

\* What was filled in meanwhile is overwritten from its first line on.
FillKey(x) ==
  /\ pc[x] = "fill-key"
  /\ LET r == req[x] IN
       IF authorizedKeys[r.username] = NoFile
       THEN UNCHANGED << authorizedKeys, installed >>
       ELSE /\ SetKeys(r.username, r.key)
            /\ installed' = IF r.key # Empty THEN installed \cup {r.id} ELSE installed
  /\ Goto(x, "own-key")
  /\ UNCHANGED << files, accounts, locks, decisions, trouble >>

\* The disk is full: an error, with nothing in the file.
FillKeyFailsUnseen(x) ==
  /\ pc[x] = "fill-key"
  /\ Goto(x, "own-key")
  /\ UNCHANGED << files, home, locks, decisions, trouble >>
FillKeyFails(x) ==
  /\ pc[x] = "fill-key"
  /\ Return(x)
  /\ Trouble
  /\ UNCHANGED << files, home, locks, decisions >>

Marking(x) == IF x \in Shells THEN "edit" ELSE "update"

\* chown needs the account and can fail; the key stays and the request too.
OwnKey(x) ==
  /\ pc[x] = "own-key"
  /\ \/ req[x].username \in accounts /\ Goto(x, Marking(x)) /\ UNCHANGED trouble
     \/ Return(x) /\ Trouble
  /\ UNCHANGED << files, home, locks, decisions >>

-----------------------------------------------------------------------------
(* How a decision ends. *)

\* Update of the store: whatever the file says now, the handler's copy replaces
\* it. A file that cannot be read is an error.
UpdateFails(h) ==
  /\ pc[h] = "update" /\ writer = Nobody
  /\ req[h].id \notin Readable
  /\ Return(h)
  /\ UNCHANGED << files, home, locks, decisions, trouble >>
UpdateUnlocked(h) ==
  pc[h] = "update" /\ req[h].id \in Readable /\ Truncate(h)
Update(h) == writer = Nobody /\ UpdateUnlocked(h)

\* jq '.status = ...' "$req_file" > "$req_file.tmp": of an empty file it makes
\* an empty file, and exits 0.
EditStampOnly(a) ==
  /\ pc[a] = "edit"
  /\ tmpFile' = [tmpFile EXCEPT ![req[a].id] = store[req[a].id]]
  /\ Goto(a, "move")
  /\ UNCHANGED << store, home, locks, decisions, trouble >>
Edit(a) ==
  /\ pc[a] = "edit"
  /\ tmpFile' = [tmpFile EXCEPT ![req[a].id] =
       IF req[a].id \in Readable
       THEN [store[req[a].id] EXCEPT !.status = req[a].status, !.by = "cli"]
       ELSE Empty]
  /\ Goto(a, "move")
  /\ UNCHANGED << store, home, locks, decisions, trouble >>

\* mv, unless another shell has moved the file away.
Move(a) ==
  /\ pc[a] = "move"
  /\ \/ tmpFile[req[a].id] = NoFile /\ UNCHANGED << files, decisions >>
     \/ /\ tmpFile[req[a].id] # NoFile
        /\ Put(req[a].id, tmpFile[req[a].id])
        /\ tmpFile' = [tmpFile EXCEPT ![req[a].id] = NoFile]
  /\ Return(a)
  /\ UNCHANGED << home, locks, trouble >>

-----------------------------------------------------------------------------
(* What happens to the actors and to the accounts. *)

\* The administrator answers no, or the shell dies.
Quit(a) ==
  /\ a \in Shells /\ pc[a] # "idle"
  /\ Return(a)
  /\ Trouble
  /\ UNCHANGED << files, home, locks, decisions >>

\* The API server stops; systemd starts it again.
Restart ==
  /\ pc' = [x \in Actors |-> IF x \in Handlers THEN "idle" ELSE pc[x]]
  /\ req' = [x \in Actors |-> IF x \in Handlers THEN NoRequest ELSE req[x]]
  /\ writer' = Nobody
  /\ IF \E h \in Handlers : pc[h] # "idle" THEN Trouble ELSE UNCHANGED trouble
  /\ UNCHANGED << files, home, issued, decisions >>

\* basphere-admin user delete: userdel -r.
UserDelete(u) ==
  /\ u \in accounts
  /\ accounts' = accounts \ {u}
  /\ SetKeys(u, NoFile)
  /\ UNCHANGED << files, installed, locks, decisions, work, trouble >>

-----------------------------------------------------------------------------
\* A decision, once begun, as far as it is alike for both kinds of actors.
KeyStep(x) == FindHome(x) \/ OpenKey(x) \/ FillKey(x) \/ FillKeyFails(x) \/ OwnKey(x)
HandlerStep(h) ==
  CheckUser(h) \/ Create(h) \/ Write(h) \/ Update(h) \/ UpdateFails(h) \/ KeyStep(h)
ShellStep(a) == ReadKey(a) \/ Edit(a) \/ Move(a) \/ Quit(a) \/ KeyStep(a)

Next ==
  \/ \E h \in Handlers : Submit(h) \/ ApproveKeyChange(h) \/ RejectKeyChange(h)
                         \/ HandlerStep(h)
  \/ \E a \in Shells : KeyApprove(a) \/ KeyReject(a) \/ ShellStep(a)
  \/ \E u \in Users : UserDelete(u)
  \/ Restart

Spec == Init /\ [][Next]_vars

-----------------------------------------------------------------------------
\* The lock of the store is held exactly while a goroutine writes a file.
TypeOK ==
  /\ store \in [Ids -> Request \cup {NoFile, Empty}]
  /\ tmpFile \in [Ids -> Request \cup {NoFile, Empty}]
  /\ \A i \in Readable : store[i].id = i
  /\ issued \in 0 .. MaxRequests
  /\ accounts \subseteq Users
  /\ authorizedKeys \in [Users -> Ids \cup {FirstKey, NoFile, Empty}]
  /\ pc \in [Actors -> Steps]
  /\ \A x \in Actors :
       /\ pc[x] = "idle" <=> req[x] = NoRequest
       /\ \/ req[x] \in Request \cup {NoRequest}
          \/ x \in Shells /\ req[x].key = Empty
  /\ decided \subseteq Ids /\ installed \subseteq Ids
  /\ last \in [Users -> 0 .. MaxRequests]
  /\ trouble \in BOOLEAN
  /\ writer \in Handlers \cup {Nobody}
  /\ \A h \in Handlers : pc[h] = "write" <=> writer = h

\* A user has at most one pending request: the handler checks nothing, and only
\* Create of the store stands between two submissions at once.
OnePendingPerUser == \A u \in Users : \A i, j \in PendingOf(u) : i = j

\* A request that was approved or rejected is never pending again, whatever
\* stale copy a handler or a shell writes back.
NeverReopened == \A i \in Readable : store[i].status = "pending" => i \notin decided

\* A request the API server marked approved had its own key written to
\* authorized_keys, through every race, failure and restart. (A CLI approval
\* can write an empty line instead, read while the server rewrites the file.)
ApiApprovalInstalledKey ==
  \A i \in Readable :
    store[i].status = "approved" /\ store[i].by = "api" => i \in installed

\* As long as no two decisions about one user overlap, no command fails and
\* nobody dies, a user whom no decision is about logs in with the key of the
\* request last approved, or with the first key before any was.
KeyMatchesDecisions ==
  ~trouble =>
    \A u \in accounts : Deciders(u) = {} =>
      authorizedKeys[u] = IF last[u] = 0 THEN FirstKey ELSE store[last[u]].key
=============================================================================
