------------------------- MODULE RegistrationProofs -------------------------
(***************************************************************************)
(* What Registration promises, for any number of users, requests,          *)
(* goroutines and shells. The inductive invariant has four parts: what     *)
(* each actor holds at the step it is at; that the ID of a request still   *)
(* to be written is nobody else's; that who creates a request has looked,  *)
(* under the lock, for another one pending; and how far user_add has come  *)
(* for the goroutine that approves.                                        *)
(***************************************************************************)
EXTENDS Registration, TLAPS

Approving == {"check-exists", "write-key", "user-add", "useradd", "install-key", "enroll"}
Asking == {"check-username", "check-email", "check-account"}

\* The steps at which a goroutine, or a shell, holds copy r of a request.
HandlerAt(step, r) ==
  \/ r = NoRequest /\ step = "idle"
  \/ r \in Draft /\ step \in Asking
  \/ /\ r \in Request
     /\ \/ r.status = "pending" /\ step \in {"create", "write"}
        \/ r.status = "approved" /\ step \in Approving \cup {"update", "write"}
        \/ r.status = "rejected" /\ step \in {"update", "write"}
ShellAt(step, r) ==
  \/ r = NoRequest /\ step = "idle"
  \/ /\ r \in Request
     /\ \/ r.status = "approved" /\ step \in Approving \cup {"edit", "move"}
        \/ r.status = "rejected" /\ step \in {"edit", "move"}
At(x) == IF x \in Handlers THEN HandlerAt(pc[x], req[x]) ELSE ShellAt(pc[x], req[x])

FileOK(i) ==
  /\ store[i] \in Request => store[i].id = i
  /\ tmpFile[i] \in Request =>
       tmpFile[i].id = i /\ tmpFile[i].status # "pending" /\ tmpFile[i].by = "cli"

ActorsInv ==
  /\ pc \in [Actors -> Steps]
  /\ req \in [Actors -> Request \cup Draft \cup {NoRequest}]
  /\ writer \in Handlers \cup {Nobody}
  /\ \A x \in Actors : At(x)
  /\ \A h \in Handlers : pc[h] = "write" <=> writer = h
FilesInv ==
  /\ store \in [Ids -> Request \cup {NoFile, Empty}]
  /\ tmpFile \in [Ids -> Request \cup {NoFile, Empty}]
  /\ \A i \in Ids : FileOK(i)
  /\ outcomes \in [Ids -> SUBSET {"approved", "rejected"}]
SystemInv ==
  /\ issued \in 0 .. MaxRequests
  /\ accounts \subseteq Usernames
  /\ enrolled \subseteq Usernames
  /\ keyFiles \subseteq KeyFiles
TypeInv == ActorsInv /\ FilesInv /\ SystemInv

\* A goroutine between generateID and the end of Create.
Creates(h) == pc[h] \in {"create", "write"} /\ req[h].status = "pending"

\* The request such a goroutine has is in no file, and in no hands but its own.
Fresh(h) ==
  LET i == req[h].id IN
    /\ i \notin Readable /\ outcomes[i] = {} /\ tmpFile[i] = NoFile
    /\ \A x \in Actors : req[x].id = i => x = h
FreshInv ==
  /\ \A x \in Actors : req[x].id <= issued
  /\ \A i \in Ids : i > issued => store[i] = NoFile /\ tmpFile[i] = NoFile /\ outcomes[i] = {}
  /\ \A h \in Handlers : Creates(h) => Fresh(h)

PendingInv ==
  /\ OnePendingPerUser
  /\ NeverReopened
  /\ \A h \in Handlers :
       pc[h] = "write" /\ req[h].status = "pending" => PendingOf(req[h].username) = {}

\* How far user_add has come for the one who approves; a decision keeps the API's mark.
Added(h) ==
  /\ pc[h] \in {"install-key", "enroll"} => req[h].username \in accounts
  /\ pc[h] \in {"update", "write"} /\ req[h].status = "approved" =>
       req[h].username \in accounts \cap enrolled
AccountInv ==
  /\ ApiApprovalHasAccount
  /\ \A h \in Handlers : Added(h)

IInv == TypeInv /\ FreshInv /\ PendingInv /\ AccountInv

-----------------------------------------------------------------------------
(* Types. *)

LEMMA InitialTypes == Init => TypeInv
<1> SUFFICES ASSUME Init PROVE TypeInv
  OBVIOUS
<1>1. ActorsInv
  <2>1. /\ pc = [x \in Actors |-> "idle"] /\ req = [x \in Actors |-> NoRequest]
        /\ writer = Nobody
    BY DEF Init
  <2>2. "idle" \in Steps
    BY DEF Steps
  <2>3. Handlers \subseteq Actors
    BY DEF Actors
  <2>4. QED
    BY <2>1, <2>2, <2>3, RegistrationAssumption DEF ActorsInv, At, HandlerAt, ShellAt
<1>2. FilesInv
  BY RegistrationAssumption DEF Init, FilesInv, FileOK
<1>3. SystemInv
  <2>1. issued = 0 /\ accounts = {} /\ enrolled = {} /\ keyFiles = {}
    BY DEF Init
  <2>2. 0 \in 0 .. MaxRequests
    BY RegistrationAssumption
  <2>3. QED
    BY <2>1, <2>2 DEF SystemInv
<1>4. QED
  BY <1>1, <1>2, <1>3 DEF TypeInv

\* What the copy is that a goroutine or a shell at work holds.
LEMMA Copies ==
  ASSUME TypeInv, NEW x \in Actors, pc[x] # "idle"
  PROVE  /\ req[x] # NoRequest
         /\ req[x] \in Request \cup Draft
         /\ req[x].username \in Usernames /\ req[x].email \in Emails
         /\ pc[x] \notin Asking => req[x] \in Request /\ req[x].id \in Ids
         /\ x \in Handlers => HandlerAt(pc[x], req[x])
         /\ x \in Shells => ShellAt(pc[x], req[x]) /\ pc[x] \notin Asking
<1>1. IF x \in Handlers THEN HandlerAt(pc[x], req[x]) ELSE ShellAt(pc[x], req[x])
  BY DEF TypeInv, ActorsInv, At
<1>2. req[x] \in Request \cup Draft /\ (pc[x] \notin Asking => req[x] \in Request)
  BY <1>1 DEF HandlerAt, ShellAt
<1>3. req[x].username \in Usernames /\ req[x].email \in Emails
  BY <1>2 DEF Request, Draft
<1>4. pc[x] \notin Asking => req[x].id \in Ids
  BY <1>2 DEF Request
<1>5. req[x] # NoRequest
  BY <1>2 DEF Request, Draft, NoRequest
<1>6. x \in Shells => x \notin Handlers
  BY RegistrationAssumption
<1>7. x \in Shells => pc[x] \notin Asking
  BY <1>1, <1>6 DEF ShellAt, Asking, Approving
<1>8. QED
  BY <1>1, <1>2, <1>3, <1>4, <1>5, <1>6, <1>7

\* A command of an approval, up to the end of user_add, touches no request file, and
\* ends with the next command or with the end of the operation.
LEMMA UserAddSteps ==
  ASSUME TypeInv, NEW x \in Actors, UserAddStep(x)
  PROVE  /\ pc[x] \in Approving /\ req[x] \in Request
         /\ UNCHANGED << files, writer, issued, outcomes >>
         /\ accounts \subseteq accounts' /\ enrolled \subseteq enrolled'
         /\ \/ Fail(x)
            \/ \E step \in Approving \cup {IF x \in Handlers THEN "update" ELSE "edit"} :
                 Goto(x, step) /\ UNCHANGED req
<1>1. pc[x] \in Approving
  BY DEF UserAddStep, CheckExists, WriteKey, UserAdd, Useradd, UseraddFails, InstallKey, Enroll,
         EnrollFails, Approving
<1>2. pc[x] \notin Asking /\ pc[x] # "idle"
  BY <1>1 DEF Approving, Asking
<1>3. UNCHANGED << files, writer, issued, outcomes >>
  BY DEF UserAddStep, CheckExists, WriteKey, UserAdd, Useradd, UseraddFails, InstallKey, Enroll,
         EnrollFails
<1>4. accounts \subseteq accounts' /\ enrolled \subseteq enrolled'
  BY DEF UserAddStep, CheckExists, WriteKey, UserAdd, Useradd, UseraddFails, InstallKey, Enroll,
         EnrollFails, system
<1>5. \/ Fail(x)
      \/ \E step \in Approving \cup {IF x \in Handlers THEN "update" ELSE "edit"} :
           Goto(x, step) /\ UNCHANGED req
  <2>1. x \in Shells => x \notin Handlers
    BY RegistrationAssumption
  <2>2. CASE CheckExists(x) \/ WriteKey(x)
    BY <2>2 DEF CheckExists, WriteKey, Approving
  <2>3. CASE UserAdd(x) \/ Useradd(x)
    BY <2>3 DEF UserAdd, Useradd, UserAddExits, GoOn, Approving
  <2>4. CASE UseraddFails(x) \/ InstallKey(x)
    BY <2>4 DEF UseraddFails, InstallKey, CommandFails, UserAddExits, GoOn, Approving
  <2>5. CASE Enroll(x) \/ EnrollFails(x)
    BY <2>1, <2>5 DEF Enroll, EnrollFails, CommandFails, UserAddExits, GoOn
  <2>6. QED
    BY <2>2, <2>3, <2>4, <2>5 DEF UserAddStep
<1>6. QED
  BY <1>1, <1>2, <1>3, <1>4, <1>5, Copies

\* An actor that takes a step leaves the others where they are.
LEMMA OneActs ==
  ASSUME ActorsInv, NEW x \in Actors, NEW step \in Steps,
         NEW r \in Request \cup Draft \cup {NoRequest},
         pc' = [pc EXCEPT ![x] = step], req' = [req EXCEPT ![x] = r],
         IF x \in Handlers THEN HandlerAt(step, r) ELSE ShellAt(step, r),
         \/ step # "write" /\ pc[x] # "write" /\ writer' = writer
         \/ step # "write" /\ pc[x] = "write" /\ writer' = Nobody
         \/ step = "write" /\ writer = Nobody /\ writer' = x /\ x \in Handlers
  PROVE  ActorsInv'
<1>1. pc' \in [Actors -> Steps] /\ req' \in [Actors -> Request \cup Draft \cup {NoRequest}]
  BY DEF ActorsInv
<1>2. \A y \in Actors : At(y)'
  BY DEF ActorsInv, At
<1>3. writer' \in Handlers \cup {Nobody}
  BY DEF ActorsInv
<1>4. \A h \in Handlers : pc'[h] = "write" <=> writer' = h
  BY RegistrationAssumption DEF ActorsInv, Actors, At, ShellAt, Approving
<1>5. QED
  BY <1>1, <1>2, <1>3, <1>4 DEF ActorsInv

\* Every step keeps each actor at a step that fits the request it holds.
LEMMA ActorsKeep == ASSUME TypeInv, [Next]_vars PROVE ActorsInv'
<1>0. /\ Handlers \subseteq Actors /\ Shells \subseteq Actors /\ Handlers \cap Shells = {}
      /\ ActorsInv /\ FilesInv /\ SystemInv
      /\ req \in [Actors -> Request \cup Draft \cup {NoRequest}] /\ pc \in [Actors -> Steps]
  BY RegistrationAssumption DEF Actors, TypeInv, ActorsInv
<1>1. ASSUME NEW x \in Actors, NEW step \in Steps \ {"write"}, Goto(x, step), UNCHANGED req,
             pc[x] # "write", writer' = writer,
             IF x \in Handlers THEN HandlerAt(step, req[x]) ELSE ShellAt(step, req[x])
      PROVE  ActorsInv'
  <2>1. req' = [req EXCEPT ![x] = req[x]] /\ req[x] \in Request \cup Draft \cup {NoRequest}
    BY <1>0, <1>1
  <2>2. QED
    BY <1>0, <1>1, <2>1, OneActs DEF Goto
<1>2. ASSUME NEW x \in Actors, Fail(x),
             writer' = IF pc[x] = "write" THEN Nobody ELSE writer
      PROVE  ActorsInv'
  BY <1>0, <1>2, OneActs DEF Fail, Work, Goto, HandlerAt, ShellAt, Steps
<1>3. ASSUME NEW h \in Handlers, Truncate(h), writer = Nobody, HandlerAt("write", req[h])
      PROVE  ActorsInv'
  <2>1. req' = [req EXCEPT ![h] = req[h]] /\ req[h] \in Request \cup Draft \cup {NoRequest}
    BY <1>0, <1>3 DEF Truncate
  <2>2. QED
    BY <1>0, <1>3, <2>1, OneActs DEF Truncate, Goto, Steps
<1>4. ASSUME NEW x \in Actors, NEW step \in Steps \ {"write"}, NEW r \in Request \cup Draft,
             Work(x, step, r), pc[x] # "write", writer' = writer,
             IF x \in Handlers THEN HandlerAt(step, r) ELSE ShellAt(step, r)
      PROVE  ActorsInv'
  BY <1>0, <1>4, OneActs DEF Work, Goto
<1>5. ASSUME NEW h \in Handlers, HandlerStep(h) PROVE ActorsInv'
  <2>0. h \in Actors /\ HandlerAt(pc[h], req[h])
    BY <1>0 DEF ActorsInv, At
  <2>1. CASE Register(h)
    <3>1. PICK u \in Usernames, e \in Emails :
            Work(h, "check-username", [id |-> 0, username |-> u, email |-> e,
                                       status |-> "pending", by |-> ""])
      BY <2>1 DEF Register
    <3> DEFINE r == [id |-> 0, username |-> u, email |-> e, status |-> "pending", by |-> ""]
    <3>2. r \in Draft
      BY DEF Draft
    <3>3. pc[h] = "idle" /\ writer' = writer
      BY <2>1 DEF Register
    <3> HIDE DEF r
    <3>4. QED
      BY <2>0, <3>1, <3>2, <3>3, <1>4 DEF r, Steps, HandlerAt, Asking
  <2>2. CASE CheckUsername(h)
    <3>1. HandlerAt("check-email", req[h])
      BY <2>0, <2>2 DEF CheckUsername, HandlerAt, Approving, Asking
    <3>2. QED
      BY <2>0, <2>2, <3>1, <1>1, <1>2 DEF CheckUsername, Steps
  <2>3. CASE CheckEmail(h)
    <3>1. HandlerAt("check-account", req[h])
      BY <2>0, <2>3 DEF CheckEmail, HandlerAt, Approving, Asking
    <3>2. QED
      BY <2>0, <2>3, <3>1, <1>1, <1>2 DEF CheckEmail, Steps
  <2>4. CASE CheckAccount(h)
    <3>1. CASE Fail(h)
      BY <2>0, <2>4, <3>1, <1>2 DEF CheckAccount
    <3>2. CASE issued < MaxRequests /\ issued' = issued + 1
               /\ Work(h, "create", [req[h] EXCEPT !.id = issued'])
      <4> DEFINE r == [req[h] EXCEPT !.id = issued + 1]
      <4>1. req[h] \in Draft /\ pc[h] = "check-account" /\ writer' = writer
        BY <2>0, <2>4 DEF CheckAccount, HandlerAt, Approving
      <4>2. issued + 1 \in Ids
        <5>1. issued \in 0 .. MaxRequests /\ MaxRequests \in Nat
          BY <1>0, RegistrationAssumption DEF SystemInv
        <5>2. QED
          BY <3>2, <5>1 DEF Ids
      <4>3. r \in Request /\ r.status = "pending"
        BY <4>1, <4>2 DEF Draft, Request
      <4>4. Work(h, "create", r)
        BY <3>2
      <4> HIDE DEF r
      <4>5. QED
        BY <2>0, <4>1, <4>3, <4>4, <1>4 DEF HandlerAt, Steps
    <3>3. QED
      BY <2>4, <3>1, <3>2 DEF CheckAccount
  <2>5. CASE Create(h)
    <3>1. HandlerAt("write", req[h])
      BY <2>0, <2>5 DEF Create, HandlerAt, Approving, Asking
    <3>2. QED
      BY <2>0, <2>5, <3>1, <1>2, <1>3 DEF Create
  <2>6. CASE Write(h)
    BY <2>0, <2>6, <1>2 DEF Write
  <2>7. CASE Update(h)
    <3>1. HandlerAt("write", req[h])
      BY <2>0, <2>7 DEF Update, UpdateUnlocked, HandlerAt, Approving, Asking
    <3>2. QED
      BY <2>0, <2>7, <3>1, <1>3 DEF Update, UpdateUnlocked
  <2>8. CASE UpdateFails(h)
    BY <2>0, <2>8, <1>2 DEF UpdateFails
  <2>9. CASE Approve(h) \/ Reject(h)
    <3>1. PICK i \in Readable :
            \/ Work(h, "check-exists", [store[i] EXCEPT !.status = "approved", !.by = "api"])
            \/ Work(h, "update", [store[i] EXCEPT !.status = "rejected", !.by = "api"])
      BY <2>9 DEF Approve, Reject, GetPending, IsNewest
    <3>2. pc[h] = "idle" /\ writer' = writer
      BY <2>9 DEF Approve, Reject, GetPending
    <3>3. store[i] \in Request
      BY <1>0, <3>1 DEF FilesInv, Readable
    <3>4. ASSUME NEW s \in {"approved", "rejected"}
          PROVE  /\ [store[i] EXCEPT !.status = s, !.by = "api"] \in Request
                 /\ [store[i] EXCEPT !.status = s, !.by = "api"].status = s
      BY <3>3 DEF Request
    <3>5. QED
      BY <2>0, <3>1, <3>2, <3>4, <1>4 DEF HandlerAt, Approving, Steps
  <2>10. QED
    BY <1>5, <2>1, <2>2, <2>3, <2>4, <2>5, <2>6, <2>7, <2>8, <2>9 DEF HandlerStep
<1>6. ASSUME NEW a \in Shells, ShellStep(a) PROVE ActorsInv'
  <2>0. a \in Actors /\ a \notin Handlers /\ ShellAt(pc[a], req[a]) /\ pc[a] # "write"
    BY <1>0 DEF ActorsInv, At, ShellAt, Approving
  <2>1. CASE UserApprove(a) \/ UserReject(a)
    <3>1. PICK i \in Readable :
            \/ Work(a, "check-exists", [store[i] EXCEPT !.status = "approved", !.by = "cli"])
            \/ Work(a, "edit", [store[i] EXCEPT !.status = "rejected", !.by = "cli"])
      BY <2>1 DEF UserApprove, UserReject, Scan, PendingOf
    <3>2. writer' = writer
      BY <2>1 DEF UserApprove, UserReject, Scan
    <3>3. store[i] \in Request
      BY <1>0, <3>1 DEF FilesInv, Readable
    <3>4. ASSUME NEW s \in {"approved", "rejected"}
          PROVE  /\ [store[i] EXCEPT !.status = s, !.by = "cli"] \in Request
                 /\ [store[i] EXCEPT !.status = s, !.by = "cli"].status = s
      BY <3>3 DEF Request
    <3>5. QED
      BY <2>0, <3>1, <3>2, <3>4, <1>4 DEF ShellAt, Approving, Steps
  <2>2. CASE Edit(a)
    <3>1. ShellAt("move", req[a])
      BY <2>0, <2>2 DEF Edit, ShellAt, Approving
    <3>2. QED
      BY <2>0, <2>2, <3>1, <1>1 DEF Edit, Steps
  <2>3. CASE Move(a) \/ Quit(a)
    BY <2>0, <2>3, <1>2 DEF Move, Quit
  <2>4. QED
    BY <1>6, <2>1, <2>2, <2>3 DEF ShellStep
<1>7. ASSUME NEW x \in Actors, UserAddStep(x) PROVE ActorsInv'
  <2>1. pc[x] \in Approving /\ req[x] \in Request /\ writer' = writer
    BY <1>7, UserAddSteps
  <2>2. pc[x] # "write" /\ IF x \in Handlers THEN HandlerAt(pc[x], req[x]) ELSE ShellAt(pc[x], req[x])
    BY <1>0, <2>1 DEF ActorsInv, At, Approving
  <2>3. req[x].status = "approved"
    BY <2>1, <2>2 DEF HandlerAt, ShellAt, Approving, Asking, Draft, NoRequest, Request
  <2>4. CASE Fail(x)
    BY <1>2, <2>1, <2>2, <2>4
  <2>5. ASSUME NEW step \in Approving \cup {IF x \in Handlers THEN "update" ELSE "edit"},
               Goto(x, step), UNCHANGED req
        PROVE  ActorsInv'
    <3>1. step \in Steps \ {"write"}
      BY DEF Approving, Steps
    <3>2. IF x \in Handlers THEN HandlerAt(step, req[x]) ELSE ShellAt(step, req[x])
      BY <2>1, <2>3 DEF HandlerAt, ShellAt
    <3>3. QED
      BY <1>1, <2>1, <2>2, <2>5, <3>1, <3>2
  <2>6. QED
    BY <1>7, <2>4, <2>5, UserAddSteps
<1>8. ASSUME Restart PROVE ActorsInv'
  <2>1. /\ pc' = [x \in Actors |-> IF x \in Handlers THEN "idle" ELSE pc[x]]
        /\ req' = [x \in Actors |-> IF x \in Handlers THEN NoRequest ELSE req[x]]
        /\ writer' = Nobody
    BY <1>8 DEF Restart
  <2>2. pc' \in [Actors -> Steps] /\ req' \in [Actors -> Request \cup Draft \cup {NoRequest}]
    BY <1>0, <2>1 DEF Steps
  <2>3. \A x \in Actors : At(x)'
    BY <1>0, <2>1 DEF ActorsInv, At, HandlerAt
  <2>4. \A h \in Handlers : pc'[h] # "write" /\ writer' # h
    BY <2>1, RegistrationAssumption DEF Actors
  <2>5. QED
    BY <2>1, <2>2, <2>3, <2>4 DEF ActorsInv
<1>9. CASE UNCHANGED vars
  BY <1>0, <1>9 DEF ActorsInv, At, vars
<1>10. QED
  BY <1>5, <1>6, <1>7, <1>8, <1>9 DEF Next

\* What a write puts into a file is a request of that ID, or nothing.
LEMMA FilesKeep == ASSUME TypeInv, [Next]_vars PROVE FilesInv' /\ SystemInv'
<1>0. /\ Handlers \subseteq Actors /\ Shells \subseteq Actors /\ Handlers \cap Shells = {}
      /\ store \in [Ids -> Request \cup {NoFile, Empty}]
      /\ tmpFile \in [Ids -> Request \cup {NoFile, Empty}]
      /\ NoFile \notin Request /\ Empty \notin Request /\ NoFile # Empty
      /\ ActorsInv /\ FilesInv /\ SystemInv
  BY RegistrationAssumption DEF Actors, TypeInv, FilesInv
<1>1. ASSUME NEW i \in Ids, NEW c \in Request \cup {Empty}, Put(i, c), c # Empty => c.id = i
      PROVE  /\ store' \in [Ids -> Request \cup {NoFile, Empty}]
             /\ \A j \in Ids : store'[j] \in Request => store'[j].id = j
             /\ outcomes' \in [Ids -> SUBSET {"approved", "rejected"}]
  <2>1. store' = [store EXCEPT ![i] = c]
    BY <1>1 DEF Put
  <2>2. \A j \in Ids : store'[j] \in Request => store'[j].id = j
    BY <1>0, <1>1, <2>1 DEF FilesInv, FileOK
  <2>3. outcomes' \in [Ids -> SUBSET {"approved", "rejected"}]
    <3>1. CASE c = Empty \/ c.status = "pending"
      BY <1>0, <1>1, <3>1 DEF Put, FilesInv
    <3>2. CASE c # Empty /\ c.status # "pending"
      <4>1. PICK s \in {"approved", "rejected"} : s = c.status
        BY <1>1, <3>2 DEF Request
      <4>2. outcomes' = [outcomes EXCEPT ![i] = outcomes[i] \cup {s}]
        BY <1>1, <3>2, <4>1 DEF Put
      <4>3. outcomes[i] \cup {s} \in SUBSET {"approved", "rejected"}
        BY <1>0 DEF FilesInv
      <4>4. QED
        BY <1>0, <4>2, <4>3 DEF FilesInv
    <3>3. QED
      BY <3>1, <3>2
  <2>4. QED
    BY <1>0, <2>1, <2>2, <2>3
<1>2. ASSUME NEW h \in Handlers, Truncate(h), req[h] \in Request PROVE FilesInv' /\ SystemInv'
  <2>1. req[h].id \in Ids
    BY <1>2 DEF Request
  <2>2. Put(req[h].id, Empty) /\ UNCHANGED << tmpFile, system, issued >>
    BY <1>2 DEF Truncate
  <2>3. QED
    BY <1>0, <2>1, <2>2, <1>1 DEF FilesInv, FileOK, SystemInv, system
<1>3. ASSUME NEW h \in Handlers, Write(h) PROVE FilesInv' /\ SystemInv'
  <2>1. req[h] \in Request
    BY <1>0, <1>3, Copies DEF Write, Asking
  <2>2. req[h].id \in Ids
    BY <2>1 DEF Request
  <2>3. Put(req[h].id, req[h]) /\ UNCHANGED << tmpFile, system, issued >>
    BY <1>3 DEF Write
  <2>4. QED
    BY <1>0, <2>1, <2>2, <2>3, <1>1 DEF FilesInv, FileOK, SystemInv, system
<1>4. ASSUME NEW a \in Shells, Edit(a) PROVE FilesInv' /\ SystemInv'
  <2> DEFINE i == req[a].id
             c == [store[i] EXCEPT !.status = req[a].status, !.by = "cli"]
  <2>1. ShellAt(pc[a], req[a]) /\ pc[a] = "edit" /\ i \in Ids /\ req[a] \in Request
    BY <1>0, <1>4, Copies DEF Edit, Asking
  <2>2. req[a].status \in {"approved", "rejected"}
    BY <2>1 DEF ShellAt
  <2>3. ASSUME i \in Readable
        PROVE  c \in Request /\ c.id = i /\ c.status # "pending" /\ c.by = "cli"
    <3>1. store[i] \in Request /\ store[i].id = i
      BY <1>0, <2>3 DEF Readable, FilesInv, FileOK
    <3>2. QED
      BY <2>2, <3>1 DEF Request
  <2>4. tmpFile' = [tmpFile EXCEPT ![i] = IF i \in Readable THEN c ELSE Empty]
    BY <1>4 DEF Edit
  <2> HIDE DEF c
  <2>5. tmpFile' \in [Ids -> Request \cup {NoFile, Empty}]
    BY <1>0, <2>1, <2>3, <2>4
  <2>6. \A j \in Ids : tmpFile'[j] \in Request =>
           tmpFile'[j].id = j /\ tmpFile'[j].status # "pending" /\ tmpFile'[j].by = "cli"
    BY <1>0, <2>1, <2>3, <2>4 DEF FilesInv, FileOK
  <2>7. UNCHANGED << store, system, issued, outcomes >>
    BY <1>4 DEF Edit
  <2>8. QED
    BY <1>0, <2>5, <2>6, <2>7 DEF FilesInv, FileOK, SystemInv, system
<1>5. ASSUME NEW a \in Shells, Move(a) PROVE FilesInv' /\ SystemInv'
  <2> DEFINE i == req[a].id
  <2>1. i \in Ids
    BY <1>0, <1>5, Copies DEF Move, Asking
  <2>2. SystemInv'
    BY <1>0, <1>5 DEF Move, RemoveKey, SystemInv, system
  <2>3. CASE tmpFile[i] = NoFile /\ UNCHANGED << files, outcomes >>
    BY <1>0, <2>2, <2>3 DEF FilesInv, FileOK, files
  <2>4. CASE tmpFile[i] # NoFile /\ Put(i, tmpFile[i])
             /\ tmpFile' = [tmpFile EXCEPT ![i] = NoFile]
    <3>1. tmpFile[i] \in Request \cup {Empty} /\ (tmpFile[i] # Empty => tmpFile[i].id = i)
      BY <1>0, <2>1, <2>4 DEF FilesInv, FileOK
    <3>2. QED
      BY <1>0, <2>1, <2>2, <2>4, <3>1, <1>1 DEF FilesInv, FileOK
  <2>5. QED
    BY <1>5, <2>3, <2>4 DEF Move
<1>6. ASSUME UNCHANGED << files, outcomes >>, SystemInv' PROVE FilesInv' /\ SystemInv'
  BY <1>0, <1>6 DEF FilesInv, FileOK, files
<1>7. ASSUME NEW x \in Actors, UserAddStep(x) PROVE FilesInv' /\ SystemInv'
  <2>1. UNCHANGED << files, outcomes, issued >> /\ pc[x] \in Approving /\ pc[x] # "idle"
    BY <1>7, UserAddSteps DEF Approving
  <2>2. PICK w \in Usernames : w = req[x].username
    BY <2>1, Copies
  <2>3. KeyFile(x) \in KeyFiles
    BY <2>2 DEF KeyFile, KeyFiles
  <2>4. keyFiles' \subseteq keyFiles \cup {KeyFile(x)}
    BY <1>7 DEF UserAddStep, CheckExists, WriteKey, UserAdd, Useradd, UseraddFails, InstallKey,
                Enroll, EnrollFails, UserAddExits, RemoveKey, CommandFails, GoOn, system
  <2>5. accounts' \subseteq accounts \cup {w} /\ enrolled' \subseteq enrolled \cup {w}
    BY <1>7, <2>2 DEF UserAddStep, CheckExists, WriteKey, UserAdd, Useradd, UseraddFails,
                      InstallKey, Enroll, EnrollFails, system
  <2>6. QED
    BY <1>0, <2>1, <2>3, <2>4, <2>5, <1>6 DEF SystemInv
<1>8. ASSUME NEW h \in Handlers, HandlerStep(h) PROVE FilesInv' /\ SystemInv'
  <2>1. CASE CheckAccount(h)
    <3>1. issued' \in 0 .. MaxRequests
      <4>1. issued \in 0 .. MaxRequests /\ MaxRequests \in Nat
        BY <1>0, RegistrationAssumption DEF SystemInv
      <4>2. issued' = issued \/ (issued < MaxRequests /\ issued' = issued + 1)
        BY <2>1 DEF CheckAccount
      <4>3. QED
        BY <4>1, <4>2
    <3>2. QED
      BY <1>0, <2>1, <3>1, <1>6 DEF CheckAccount, SystemInv, system
  <2>2. CASE Create(h) \/ Update(h)
    <3>1. req[h] \in Request
      BY <1>0, <2>2, Copies DEF Create, Update, UpdateUnlocked, Asking
    <3>2. CASE Truncate(h)
      BY <3>1, <3>2, <1>2
    <3>3. CASE UNCHANGED << files, system, issued, outcomes >>
      BY <1>0, <3>3, <1>6 DEF SystemInv, system
    <3>4. QED
      BY <2>2, <3>2, <3>3 DEF Create, Update, UpdateUnlocked
  <2>3. CASE \/ Register(h) \/ CheckUsername(h) \/ CheckEmail(h) \/ Approve(h) \/ Reject(h)
             \/ UpdateFails(h)
    BY <1>0, <2>3, <1>6 DEF Register, CheckUsername, CheckEmail, Approve, Reject, GetPending,
                            UpdateFails, SystemInv, system
  <2>4. QED
    BY <1>8, <2>1, <2>2, <2>3, <1>3 DEF HandlerStep
<1>9. ASSUME NEW a \in Shells, ShellStep(a) PROVE FilesInv' /\ SystemInv'
  <2>1. CASE UserApprove(a) \/ UserReject(a) \/ Quit(a)
    BY <1>0, <2>1, <1>6 DEF UserApprove, UserReject, Scan, Quit, SystemInv, system
  <2>2. QED
    BY <1>9, <2>1, <1>4, <1>5 DEF ShellStep
<1>10. CASE Restart \/ UNCHANGED vars
  BY <1>0, <1>10, <1>6 DEF Restart, vars, SystemInv, system
<1>11. QED
  BY <1>7, <1>8, <1>9, <1>10 DEF Next

-----------------------------------------------------------------------------
(* Requests that are still to be written. *)

\* No step gives a number away twice, or touches a file before its request is
\* written.
LEMMA FreshKeep == ASSUME TypeInv, FreshInv, [Next]_vars PROVE FreshInv'
<1>0. /\ Handlers \subseteq Actors /\ Shells \subseteq Actors /\ Handlers \cap Shells = {}
      /\ issued \in Nat /\ NoRequest.id = 0 /\ Ids \subseteq Nat \ {0}
      /\ pc \in [Actors -> Steps]
      /\ req \in [Actors -> Request \cup Draft \cup {NoRequest}]
      /\ store \in [Ids -> Request \cup {NoFile, Empty}]
      /\ tmpFile \in [Ids -> Request \cup {NoFile, Empty}]
      /\ NoFile \notin Request /\ Empty \notin Request /\ NoFile # Empty
  BY RegistrationAssumption
     DEF Actors, TypeInv, SystemInv, ActorsInv, FilesInv, NoRequest, Ids
<1>1. ASSUME NEW h \in Handlers, Creates(h)
      PROVE  req[h].id \in Ids /\ Fresh(h)
  BY <1>0, <1>1, Copies DEF Creates, Asking, FreshInv
<1>2. ASSUME UNCHANGED << files, outcomes, issued >>,
             \A y \in Actors : req'[y] = req[y] \/ req'[y].id = 0,
             \A h \in Handlers : Creates(h)' => Creates(h) /\ req'[h] = req[h]
      PROVE  FreshInv'
  <2>1. \A y \in Actors : req'[y].id <= issued'
    BY <1>0, <1>2 DEF FreshInv
  <2>2. ASSUME NEW h \in Handlers, Creates(h)' PROVE Fresh(h)'
    <3>1. Creates(h) /\ req'[h] = req[h] /\ h \in Actors
      BY <1>0, <1>2, <2>2
    <3>2. req[h].id \in Ids /\ req[h].id # 0 /\ Fresh(h)
      BY <1>0, <1>1, <3>1
    <3>3. \A y \in Actors : req'[y].id = req[h].id => y = h
      BY <1>2, <3>2 DEF Fresh
    <3>4. QED
      BY <1>2, <3>1, <3>2, <3>3 DEF Fresh, Readable, files
  <2>3. QED
    BY <1>2, <2>1, <2>2 DEF FreshInv, files
<1>3. ASSUME NEW x \in Actors, NEW step \in Steps \ {"create", "write"}, Goto(x, step), UNCHANGED req,
             UNCHANGED << files, outcomes, issued >>
      PROVE  FreshInv'
  BY <1>0, <1>2, <1>3 DEF Goto, Creates
<1>4. ASSUME NEW x \in Actors, Fail(x), UNCHANGED << files, outcomes, issued >>
      PROVE  FreshInv'
  <2>1. /\ pc'[x] = "idle" /\ req'[x] = NoRequest
        /\ \A y \in Actors : y # x => pc'[y] = pc[y] /\ req'[y] = req[y]
    BY <1>0, <1>4 DEF Fail, Work, Goto
  <2>2. QED
    BY <1>0, <1>2, <1>4, <2>1 DEF Creates
<1>5. ASSUME NEW x \in Actors, NEW step \in Steps \ {"create", "write"}, NEW i \in Readable,
             NEW r, r.id = i, Work(x, step, r), UNCHANGED << files, outcomes, issued >>
      PROVE  FreshInv'
  <2>1. /\ pc'[x] = step /\ req'[x] = r
        /\ \A y \in Actors : y # x => pc'[y] = pc[y] /\ req'[y] = req[y]
    BY <1>0, <1>5 DEF Work, Goto
  <2>2. i <= issued
    <3>1. i \in Ids /\ i \in Nat /\ store[i] # NoFile
      BY <1>0 DEF Readable
    <3>2. i > issued => store[i] = NoFile
      BY <3>1 DEF FreshInv
    <3>3. QED
      BY <1>0, <3>1, <3>2
  <2>3. ASSUME NEW h \in Handlers, Creates(h)' PROVE Fresh(h)'
    <3>1. h # x /\ Creates(h) /\ req'[h] = req[h]
      BY <1>0, <2>1, <2>3 DEF Creates
    <3>2. Fresh(h) /\ req[h].id # i
      BY <1>1, <3>1 DEF Fresh
    <3>3. QED
      BY <1>0, <1>5, <2>1, <3>1, <3>2 DEF Fresh, Readable, files
  <2>4. \A y \in Actors : req'[y].id <= issued'
    BY <1>0, <1>5, <2>1, <2>2 DEF FreshInv
  <2>5. QED
    BY <1>5, <2>3, <2>4 DEF FreshInv, files
<1>6. ASSUME NEW x \in Actors, NEW i \in Ids, i = req[x].id, issued' = issued,
             \A j \in Ids \ {i} : /\ store'[j] = store[j] /\ tmpFile'[j] = tmpFile[j]
                                  /\ outcomes'[j] = outcomes[j],
             \A y \in Actors \ {x} : req'[y] = req[y] /\ pc'[y] = pc[y],
             req'[x] = NoRequest \/ req'[x] = req[x],
             x \in Handlers /\ Creates(x)' =>
               /\ Creates(x) /\ req'[x] = req[x]
               /\ store'[i] = Empty /\ tmpFile'[i] = tmpFile[i] /\ outcomes'[i] = outcomes[i]
      PROVE  FreshInv'
  <2>1. \A y \in Actors : req'[y].id <= issued'
    BY <1>0, <1>6 DEF FreshInv
  <2>2. i <= issued
    BY <1>6 DEF FreshInv
  <2>3. \A j \in Ids : j > issued' => store'[j] = NoFile /\ tmpFile'[j] = NoFile /\ outcomes'[j] = {}
    BY <1>0, <1>6, <2>2 DEF FreshInv
  <2>4. ASSUME NEW h \in Handlers, Creates(h)' PROVE Fresh(h)'
    <3>1. Creates(h) /\ req'[h] = req[h]
      BY <1>0, <1>6, <2>4 DEF Creates
    <3>2. Fresh(h) /\ req[h].id \in Ids
      BY <1>1, <3>1
    <3>3. \A y \in Actors : req'[y].id = req[h].id => y = h
      BY <1>0, <1>6, <3>1, <3>2 DEF Fresh
    <3>4. CASE h = x
      BY <1>0, <1>6, <2>4, <3>1, <3>2, <3>3, <3>4 DEF Fresh, Readable
    <3>5. CASE h # x
      <4>1. req[h].id # i
        BY <1>6, <3>2, <3>5 DEF Fresh
      <4>2. QED
        BY <1>6, <3>1, <3>2, <3>3, <4>1 DEF Fresh, Readable
    <3>6. QED
      BY <3>4, <3>5
  <2>5. QED
    BY <2>1, <2>3, <2>4 DEF FreshInv
<1>7. ASSUME NEW h \in Handlers, Register(h) PROVE FreshInv'
  <2>1. PICK u \in Usernames, e \in Emails :
          Work(h, "check-username", [id |-> 0, username |-> u, email |-> e,
                                     status |-> "pending", by |-> ""])
    BY <1>7 DEF Register
  <2>2. /\ req'[h].id = 0 /\ pc'[h] = "check-username"
        /\ \A y \in Actors : y # h => pc'[y] = pc[y] /\ req'[y] = req[y]
    BY <1>0, <2>1 DEF Work, Goto
  <2>3. QED
    BY <1>0, <1>2, <1>7, <2>2 DEF Creates, Register
<1>8. ASSUME NEW h \in Handlers, pc[h] = "check-account", issued < MaxRequests,
             issued' = issued + 1, Work(h, "create", [req[h] EXCEPT !.id = issued']),
             UNCHANGED << files, outcomes >>
      PROVE  FreshInv'
  <2> DEFINE r == [req[h] EXCEPT !.id = issued + 1]
  <2>1. /\ issued' = issued + 1 /\ Work(h, "create", r)
        /\ pc[h] = "check-account" /\ UNCHANGED << files, outcomes >>
    BY <1>8
  <2>2. issued + 1 \in Ids
    BY <1>0, <1>8, RegistrationAssumption DEF Ids
  <2>3. r.id = issued + 1
    <3>1. req[h] \in Draft
      BY <1>0, <2>1, Copies DEF HandlerAt, Approving
    <3>2. QED
      BY <3>1 DEF Draft
  <2> HIDE DEF r
  <2>4. /\ req'[h].id = issued + 1
        /\ \A y \in Actors : y # h => req'[y] = req[y] /\ pc'[y] = pc[y]
    BY <1>0, <2>1, <2>3 DEF Work, Goto
  <2>5. \A y \in Actors : req'[y].id <= issued'
    <3>1. ASSUME NEW y \in Actors PROVE req[y].id \in Nat
      <4>1. CASE req[y] = NoRequest
        BY <1>0, <4>1
      <4>2. CASE req[y] \in Draft
        <5>1. req[y].id = 0
          BY <4>2 DEF Draft
        <5>2. QED
          BY <5>1
      <4>3. CASE req[y] \in Request
        BY <1>0, <4>3 DEF Request
      <4>4. QED
        BY <1>0, <4>1, <4>2, <4>3
    <3>2. QED
      BY <1>0, <2>1, <2>4, <3>1 DEF FreshInv
  <2>6. ASSUME NEW g \in Handlers, Creates(g)' PROVE Fresh(g)'
    <3>1. CASE g = h
      <4>1. \A y \in Actors : req'[y].id = issued + 1 => y = h
        BY <1>0, <2>4 DEF FreshInv
      <4>2. store[issued + 1] = NoFile /\ tmpFile[issued + 1] = NoFile /\ outcomes[issued + 1] = {}
        BY <1>0, <2>2 DEF FreshInv
      <4>3. QED
        BY <2>1, <2>4, <3>1, <4>1, <4>2 DEF Fresh, Readable, files
    <3>2. CASE g # h
      <4>1. Fresh(g) /\ req'[g] = req[g] /\ req[g].id <= issued
        BY <1>0, <1>1, <2>4, <2>6, <3>2 DEF FreshInv, Creates
      <4>2. req[g].id \in Ids
        BY <1>0, <1>1, <2>4, <2>6, <3>2 DEF Creates
      <4>3. QED
        BY <1>0, <2>1, <2>4, <4>1, <4>2 DEF Fresh, Readable, files
    <3>3. QED
      BY <3>1, <3>2
  <2>7. \A i \in Ids : i > issued' => store'[i] = NoFile /\ tmpFile'[i] = NoFile /\ outcomes'[i] = {}
    <3>1. ASSUME NEW i \in Ids, i > issued + 1 PROVE i > issued
      BY <1>0, <3>1
    <3>2. QED
      BY <2>1, <3>1 DEF FreshInv, files
  <2>8. QED
    BY <2>5, <2>6, <2>7 DEF FreshInv
<1>9. ASSUME NEW h \in Handlers, Truncate(h), pc[h] \in {"create", "update"} PROVE FreshInv'
  <2>1. /\ store' = [store EXCEPT ![req[h].id] = Empty] /\ outcomes' = outcomes
        /\ tmpFile' = tmpFile /\ issued' = issued /\ req' = req
    BY <1>9 DEF Truncate, Put
  <2>2. req[h].id \in Ids /\ HandlerAt(pc[h], req[h])
    BY <1>0, <1>9, Copies DEF Asking
  <2>3. store'[req[h].id] = Empty /\ \A j \in Ids \ {req[h].id} : store'[j] = store[j]
    BY <1>0, <2>1, <2>2
  <2>4. \A y \in Actors \ {h} : pc'[y] = pc[y]
    BY <1>0, <1>9 DEF Truncate, Goto
  <2>5. Creates(h)' => Creates(h)
    BY <1>9, <2>1, <2>2 DEF Creates, HandlerAt, Approving, Asking
  <2>6. QED
    BY <1>0, <1>6, <2>1, <2>2, <2>3, <2>4, <2>5
<1>10. ASSUME NEW x \in Actors, (Write(x) /\ x \in Handlers) \/ (Move(x) /\ x \in Shells)
       PROVE  FreshInv'
  <2>1. req[x].id \in Ids /\ issued' = issued
    BY <1>10, Copies DEF Write, Move, Asking
  <2>2. \A j \in Ids \ {req[x].id} : /\ store'[j] = store[j] /\ tmpFile'[j] = tmpFile[j]
                                     /\ outcomes'[j] = outcomes[j]
    <3>1. ASSUME NEW c, Put(req[x].id, c)
          PROVE  \A j \in Ids \ {req[x].id} : store'[j] = store[j] /\ outcomes'[j] = outcomes[j]
      BY <1>0, <3>1 DEF Put, TypeInv, FilesInv
    <3>2. CASE Write(x)
      BY <3>1, <3>2 DEF Write
    <3>3. CASE Move(x)
      BY <1>0, <3>1, <3>3 DEF Move, files
    <3>4. QED
      BY <1>10, <3>2, <3>3
  <2>3. Fail(x)
    BY <1>10 DEF Write, Move
  <2>4. /\ req'[x] = NoRequest /\ pc'[x] = "idle"
        /\ \A y \in Actors \ {x} : req'[y] = req[y] /\ pc'[y] = pc[y]
    BY <1>0, <2>3 DEF Fail, Work, Goto
  <2>5. QED
    BY <1>6, <2>1, <2>2, <2>4 DEF Creates
<1>11. ASSUME NEW a \in Shells, Edit(a) PROVE FreshInv'
  <2>1. a \notin Handlers /\ a \in Actors /\ req[a].id \in Ids
    BY <1>0, <1>11, Copies DEF Edit, Asking
  <2>2. /\ issued' = issued /\ store' = store /\ outcomes' = outcomes /\ req' = req
        /\ \A y \in Actors \ {a} : pc'[y] = pc[y]
    BY <1>0, <1>11 DEF Edit, Goto
  <2>3. \A j \in Ids \ {req[a].id} : tmpFile'[j] = tmpFile[j]
    BY <1>0, <1>11 DEF Edit
  <2>4. QED
    BY <1>0, <1>6, <2>1, <2>2, <2>3
<1>12. ASSUME NEW x \in Actors, UserAddStep(x) PROVE FreshInv'
  <2>1. UNCHANGED << files, outcomes, issued >>
    BY <1>12, UserAddSteps
  <2>2. Approving \cup {"update", "edit"} \subseteq Steps \ {"create", "write"}
    BY DEF Approving, Steps
  <2>3. QED
    BY <1>3, <1>4, <1>12, <2>1, <2>2, UserAddSteps
<1>13. ASSUME NEW x \in Actors, NEW i \in Readable, NEW step \in Steps \ {"create", "write"},
              NEW s, NEW by, Work(x, step, [store[i] EXCEPT !.status = s, !.by = by]),
              UNCHANGED << files, outcomes, issued >>
       PROVE  FreshInv'
  <2>1. store[i] \in Request /\ store[i].id = i
    BY <1>0 DEF Readable, TypeInv, FilesInv, FileOK
  <2> DEFINE r == [store[i] EXCEPT !.status = s, !.by = by]
  <2>2. r.id = i
    BY <2>1 DEF Request
  <2>3. Work(x, step, r)
    BY <1>13
  <2> HIDE DEF r
  <2>4. QED
    BY <1>5, <1>13, <2>2, <2>3
<1>14. ASSUME NEW h \in Handlers, HandlerStep(h) PROVE FreshInv'
  <2>0. h \in Actors /\ {"check-email", "check-account", "check-exists", "update"} \subseteq Steps
    BY <1>0 DEF Steps
  <2>1. CASE CheckUsername(h) \/ CheckEmail(h)
    BY <1>3, <1>4, <2>0, <2>1 DEF CheckUsername, CheckEmail
  <2>2. CASE CheckAccount(h)
    BY <1>4, <1>8, <2>0, <2>2 DEF CheckAccount
  <2>3. CASE Create(h) \/ Update(h) \/ UpdateFails(h)
    BY <1>4, <1>9, <2>0, <2>3 DEF Create, Update, UpdateUnlocked, UpdateFails
  <2>4. CASE Approve(h) \/ Reject(h)
    <3>1. PICK i \in Readable, step \in {"check-exists", "update"}, s \in {"approved", "rejected"} :
            Work(h, step, [store[i] EXCEPT !.status = s, !.by = "api"])
      BY <2>4 DEF Approve, Reject, GetPending, IsNewest
    <3>2. UNCHANGED << files, outcomes, issued >>
      BY <2>4 DEF Approve, Reject, GetPending
    <3>3. QED
      BY <1>13, <2>0, <3>1, <3>2
  <2>5. QED
    BY <1>7, <1>10, <1>14, <2>0, <2>1, <2>2, <2>3, <2>4 DEF HandlerStep
<1>15. ASSUME NEW a \in Shells, ShellStep(a) PROVE FreshInv'
  <2>0. a \in Actors /\ {"check-exists", "edit"} \subseteq Steps
    BY <1>0 DEF Steps
  <2>1. CASE UserApprove(a) \/ UserReject(a)
    <3>1. PICK i \in Readable, step \in {"check-exists", "edit"}, s \in {"approved", "rejected"} :
            Work(a, step, [store[i] EXCEPT !.status = s, !.by = "cli"])
      BY <2>1 DEF UserApprove, UserReject, Scan, PendingOf
    <3>2. UNCHANGED << files, outcomes, issued >>
      BY <2>1 DEF UserApprove, UserReject, Scan
    <3>3. QED
      BY <1>13, <2>0, <3>1, <3>2
  <2>2. CASE Quit(a)
    BY <1>4, <2>0, <2>2 DEF Quit
  <2>3. QED
    BY <1>10, <1>11, <1>15, <2>0, <2>1, <2>2 DEF ShellStep
<1>16. CASE Restart \/ UNCHANGED vars
  <2>1. UNCHANGED << files, outcomes, issued >>
    BY <1>16 DEF Restart, vars
  <2>2. \A y \in Actors : \/ pc'[y] = "idle" /\ req'[y] = NoRequest
                          \/ pc'[y] = pc[y] /\ req'[y] = req[y]
    BY <1>16 DEF Restart, vars
  <2>3. QED
    BY <1>0, <1>2, <2>1, <2>2 DEF Creates
<1>17. QED
  BY <1>12, <1>14, <1>15, <1>16 DEF Next

\* A file becomes pending when nothing of its user is, once, and never again.
LEMMA PendingKeep == ASSUME TypeInv, FreshInv, PendingInv, [Next]_vars PROVE PendingInv'
<1>0. /\ Handlers \subseteq Actors /\ Shells \subseteq Actors /\ Handlers \cap Shells = {}
      /\ req \in [Actors -> Request \cup Draft \cup {NoRequest}] /\ pc \in [Actors -> Steps]
      /\ store \in [Ids -> Request \cup {NoFile, Empty}]
      /\ outcomes \in [Ids -> SUBSET {"approved", "rejected"}]
      /\ NoFile \notin Request /\ Empty \notin Request /\ NoFile # Empty
  BY RegistrationAssumption DEF Actors, TypeInv, ActorsInv, FilesInv
<1>1. ASSUME UNCHANGED << store, outcomes >>,
             \A h \in Handlers : pc'[h] = "write" => pc[h] = "write" /\ req'[h] = req[h]
      PROVE  PendingInv'
  BY <1>1 DEF PendingInv, OnePendingPerUser, NeverReopened, PendingOf, Readable
<1>2. ASSUME NEW i \in Ids, NEW c \in Request \cup {Empty}, Put(i, c),
             c # Empty => c.status # "pending",
             \A h \in Handlers :
               pc'[h] = "write" /\ req'[h].status = "pending" => PendingOf(req'[h].username) = {}
      PROVE  PendingInv'
  <2>1. /\ store'[i] = c /\ \A j \in Ids : j # i => store'[j] = store[j]
        /\ \A j \in Ids : j # i => outcomes'[j] = outcomes[j]
    BY <1>0, <1>2 DEF Put
  <2>2. ASSUME NEW j \in Readable', store'[j].status = "pending"
        PROVE  j \in Readable /\ j # i /\ store[j] = store'[j]
    BY <1>0, <1>2, <2>1, <2>2 DEF Readable
  <2>3. \A u : PendingOf(u)' \subseteq PendingOf(u)
    BY <2>2 DEF PendingOf
  <2>4. OnePendingPerUser'
    BY <2>3 DEF PendingInv, OnePendingPerUser
  <2>5. NeverReopened'
    BY <2>1, <2>2 DEF PendingInv, NeverReopened, Readable
  <2>6. QED
    BY <1>2, <2>3, <2>4, <2>5 DEF PendingInv
<1>3. ASSUME NEW x \in Actors, NEW step, Goto(x, step), step # "write", UNCHANGED req,
             UNCHANGED << store, outcomes >>
      PROVE  PendingInv'
  BY <1>0, <1>1, <1>3 DEF Goto
<1>4. ASSUME NEW x \in Actors, NEW step, NEW r, Work(x, step, r), step # "write",
             UNCHANGED << store, outcomes >>
      PROVE  PendingInv'
  BY <1>0, <1>1, <1>4 DEF Work, Goto
<1>5. ASSUME NEW x \in Actors, Fail(x), UNCHANGED << store, outcomes >>
      PROVE  PendingInv'
  BY <1>4, <1>5 DEF Fail
<1>6. ASSUME NEW h \in Handlers, Truncate(h), pc[h] \in {"create", "update"}, writer = Nobody,
             req[h].status = "pending" => PendingOf(req[h].username) = {}
      PROVE  PendingInv'
  <2>1. Put(req[h].id, Empty) /\ req[h].id \in Ids /\ req' = req
    BY <1>0, <1>6, Copies DEF Truncate, Asking
  <2>2. \A g \in Handlers : pc'[g] = "write" => g = h
    BY <1>0, <1>6, RegistrationAssumption DEF Truncate, Goto, TypeInv, ActorsInv
  <2>3. QED
    BY <1>2, <1>6, <2>1, <2>2
<1>7. ASSUME NEW h \in Handlers, Write(h) PROVE PendingInv'
  <2>0. /\ h \in Actors /\ req[h] \in Request /\ req[h].id \in Ids /\ req[h].username \in Usernames
        /\ pc[h] = "write" /\ Put(req[h].id, req[h])
    BY <1>0, <1>7, Copies DEF Write, Asking
  <2>1. \A g \in Handlers : pc'[g] # "write"
    BY <1>0, <1>7, RegistrationAssumption DEF Write, Fail, Work, Goto, TypeInv, ActorsInv
  <2>2. CASE req[h].status # "pending"
    BY <1>2, <2>0, <2>1, <2>2
  <2>3. CASE req[h].status = "pending"
    <3>1. PICK i \in Ids : i = req[h].id
      BY <2>0
    <3>2. /\ store'[i] = req[h] /\ \A j \in Ids : j # i => store'[j] = store[j]
          /\ outcomes' = outcomes
      BY <1>0, <2>0, <2>3, <3>1 DEF Put
    <3>3. PendingOf(req[h].username) = {} /\ outcomes[i] = {}
      BY <2>0, <2>3, <3>1 DEF PendingInv, FreshInv, Fresh, Creates
    <3>4. \A u \in Usernames : PendingOf(u)' \subseteq PendingOf(u) \cup {i}
      BY <3>2 DEF PendingOf, Readable
    <3>5. \A u \in Usernames : u # req[h].username => i \notin PendingOf(u)'
      BY <3>2 DEF PendingOf
    <3>6. OnePendingPerUser'
      BY <3>3, <3>4, <3>5 DEF PendingInv, OnePendingPerUser
    <3>7. NeverReopened'
      BY <3>2, <3>3 DEF PendingInv, NeverReopened, Readable
    <3>8. QED
      BY <2>1, <3>6, <3>7 DEF PendingInv
  <2>4. QED
    BY <2>2, <2>3
<1>8. ASSUME NEW a \in Shells, Move(a) PROVE PendingInv'
  <2> DEFINE i == req[a].id
  <2>0. a \in Actors /\ i \in Ids
    BY <1>0, <1>8, Copies DEF Move, Asking
  <2>1. \A g \in Handlers : pc'[g] = "write" => pc[g] = "write" /\ req'[g] = req[g]
    BY <1>0, <1>8 DEF Move, Fail, Work, Goto
  <2>2. CASE UNCHANGED << files, outcomes >>
    BY <1>1, <2>1, <2>2 DEF files
  <2>3. CASE tmpFile[i] # NoFile /\ Put(i, tmpFile[i])
    <3>1. tmpFile[i] \in Request \cup {Empty} /\ (tmpFile[i] # Empty => tmpFile[i].status # "pending")
      BY <1>0, <2>0, <2>3 DEF TypeInv, FilesInv, FileOK
    <3>2. \A g \in Handlers :
            pc'[g] = "write" /\ req'[g].status = "pending" => PendingOf(req'[g].username) = {}
      BY <2>1 DEF PendingInv
    <3>3. QED
      BY <1>2, <2>0, <2>3, <3>1, <3>2
  <2>4. QED
    BY <1>8, <2>2, <2>3 DEF Move
<1>9. ASSUME NEW x \in Actors, UserAddStep(x) PROVE PendingInv'
  <2>1. UNCHANGED << store, outcomes >>
    BY <1>9, UserAddSteps DEF files
  <2>2. "write" \notin Approving \cup {"update", "edit"}
    BY DEF Approving
  <2>3. QED
    BY <1>3, <1>5, <1>9, <2>1, <2>2, UserAddSteps
<1>10. ASSUME NEW h \in Handlers, HandlerStep(h) PROVE PendingInv'
  <2>0. h \in Actors
    BY <1>0
  <2>1. CASE Register(h) \/ CheckAccount(h) \/ Approve(h) \/ Reject(h)
    BY <1>4, <1>5, <2>0, <2>1 DEF Register, CheckAccount, Approve, Reject, GetPending, files
  <2>2. CASE CheckUsername(h) \/ CheckEmail(h) \/ UpdateFails(h)
    BY <1>3, <1>5, <2>0, <2>2 DEF CheckUsername, CheckEmail, UpdateFails, files
  <2>3. CASE Create(h)
    <3>1. CASE Fail(h) /\ UNCHANGED << files, outcomes >>
      BY <1>5, <2>0, <3>1 DEF files
    <3>2. CASE PendingOf(req[h].username) = {} /\ Truncate(h)
      BY <1>6, <2>3, <3>2 DEF Create
    <3>3. QED
      BY <2>3, <3>1, <3>2 DEF Create
  <2>4. CASE Update(h)
    <3>1. req[h].status # "pending" /\ pc[h] = "update"
      BY <1>0, <2>4, Copies DEF Update, UpdateUnlocked, HandlerAt, Approving, Asking
    <3>2. QED
      BY <1>6, <2>4, <3>1 DEF Update, UpdateUnlocked
  <2>5. QED
    BY <1>7, <1>10, <2>1, <2>2, <2>3, <2>4 DEF HandlerStep
<1>11. ASSUME NEW a \in Shells, UserApprove(a) \/ UserReject(a) \/ Edit(a) \/ Quit(a)
       PROVE  PendingInv'
  BY <1>0, <1>11, <1>3, <1>4, <1>5 DEF UserApprove, UserReject, Scan, Edit, Quit, files
<1>12. CASE Restart \/ UNCHANGED vars
  <2>1. UNCHANGED << store, outcomes >>
    BY <1>12 DEF Restart, vars, files
  <2>2. \A h \in Handlers : pc'[h] = "write" => pc[h] = "write" /\ req'[h] = req[h]
    BY <1>0, <1>12 DEF Restart, vars
  <2>3. QED
    BY <1>1, <2>1, <2>2
<1>13. QED
  BY <1>8, <1>9, <1>10, <1>11, <1>12 DEF Next, ShellStep

-----------------------------------------------------------------------------
(* Approvals of the API server. *)

\* The step after which the API writes "approved" follows useradd and the making of
\* the user's directory, and neither is undone.
LEMMA AccountKeep == ASSUME TypeInv, AccountInv, [Next]_vars PROVE AccountInv'
<1>0. /\ Handlers \subseteq Actors /\ Shells \subseteq Actors /\ Handlers \cap Shells = {}
      /\ req \in [Actors -> Request \cup Draft \cup {NoRequest}] /\ pc \in [Actors -> Steps]
      /\ store \in [Ids -> Request \cup {NoFile, Empty}]
      /\ NoFile \notin Request /\ Empty \notin Request /\ NoFile # Empty
  BY RegistrationAssumption DEF Actors, TypeInv, ActorsInv, FilesInv
\* A file gets nothing the API has approved but for users that are added, and an
\* actor moves to a step that what is done allows.
<1>1. ASSUME accounts \subseteq accounts', enrolled \subseteq enrolled',
             \A i \in Ids : \/ store'[i] = store[i]
                            \/ store'[i] = Empty
                            \/ store'[i].status = "approved" /\ store'[i].by = "api"
                                 => store'[i].username \in accounts \cap enrolled,
             \A h \in Handlers : \/ pc'[h] = pc[h] /\ req'[h] = req[h]
                                 \/ Added(h)'
      PROVE  AccountInv'
  <2>1. ApiApprovalHasAccount'
    BY <1>1 DEF AccountInv, ApiApprovalHasAccount, Readable
  <2>2. ASSUME NEW h \in Handlers PROVE Added(h)'
    BY <1>1 DEF AccountInv, Added
  <2>3. QED
    BY <2>1, <2>2 DEF AccountInv
<1>2. ASSUME NEW x \in Actors, NEW step, Goto(x, step), UNCHANGED req,
             step \notin {"install-key", "enroll", "update", "write"},
             accounts \subseteq accounts', enrolled \subseteq enrolled', store' = store
      PROVE  AccountInv'
  BY <1>0, <1>1, <1>2 DEF Goto, Added
<1>3. ASSUME NEW x \in Actors, Fail(x),
             accounts \subseteq accounts', enrolled \subseteq enrolled', store' = store
      PROVE  AccountInv'
  BY <1>0, <1>1, <1>3 DEF Fail, Work, Goto, Added
<1>4. ASSUME NEW x \in Actors, NEW step, NEW r, Work(x, step, r),
             r.status = "approved" => step \notin {"update", "write"},
             step \notin {"install-key", "enroll"}, UNCHANGED << accounts, enrolled, store >>
      PROVE  AccountInv'
  BY <1>0, <1>1, <1>4 DEF Work, Goto, Added
<1>5. ASSUME NEW h \in Handlers, Truncate(h), pc[h] \in {"create", "update"} PROVE AccountInv'
  <2>1. req[h].id \in Ids /\ HandlerAt(pc[h], req[h]) /\ h \in Actors
    BY <1>0, <1>5, Copies DEF Asking
  <2>2. req[h].status = "approved" => req[h].username \in accounts \cap enrolled
    BY <1>5, <2>1 DEF HandlerAt, Approving, Asking, AccountInv, Added
  <2>3. \A i \in Ids : store'[i] = store[i] \/ store'[i] = Empty
    BY <1>0, <1>5, <2>1 DEF Truncate, Put
  <2>4. UNCHANGED << accounts, enrolled, req >> /\ pc' = [pc EXCEPT ![h] = "write"]
    BY <1>5 DEF Truncate, Goto, system
  <2>5. QED
    BY <1>0, <1>1, <2>1, <2>2, <2>3, <2>4 DEF Added
<1>6. ASSUME NEW h \in Handlers, Write(h) PROVE AccountInv'
  <2>1. req[h].id \in Ids /\ h \in Actors /\ pc[h] = "write"
    BY <1>0, <1>6, Copies DEF Write, Asking
  <2>2. UNCHANGED << accounts, enrolled >> /\ Fail(h) /\ Put(req[h].id, req[h])
    BY <1>6 DEF Write, system
  <2>3. \A i \in Ids : store'[i] = store[i] \/ store'[i] = req[h]
    BY <1>0, <2>1, <2>2 DEF Put
  <2>4. req[h].status = "approved" => req[h].username \in accounts \cap enrolled
    BY <2>1 DEF AccountInv, Added
  <2>5. \A g \in Handlers : (pc'[g] = pc[g] /\ req'[g] = req[g]) \/ Added(g)'
    BY <1>0, <2>1, <2>2 DEF Fail, Work, Goto, Added
  <2>6. QED
    BY <1>1, <2>2, <2>3, <2>4, <2>5
<1>7. ASSUME NEW a \in Shells, Move(a) PROVE AccountInv'
  <2>1. req[a].id \in Ids /\ a \in Actors /\ a \notin Handlers
    BY <1>0, <1>7, Copies DEF Move, Asking
  <2>2. UNCHANGED << accounts, enrolled >> /\ Fail(a)
    BY <1>7 DEF Move
  <2>3. CASE UNCHANGED store
    BY <1>3, <2>1, <2>2, <2>3
  <2>4. CASE tmpFile[req[a].id] # NoFile /\ Put(req[a].id, tmpFile[req[a].id])
    <3>1. \A i \in Ids : \/ store'[i] = store[i] \/ store'[i] = Empty
                         \/ store'[i].by = "cli"
      BY <1>0, <2>1, <2>4 DEF Put, TypeInv, FilesInv, FileOK
    <3>2. \A g \in Handlers : pc'[g] = pc[g] /\ req'[g] = req[g]
      BY <1>0, <2>1, <2>2 DEF Fail, Work, Goto
    <3>3. QED
      BY <1>1, <2>2, <3>1, <3>2
  <2>5. QED
    BY <1>7, <2>3, <2>4 DEF Move, files
<1>8. ASSUME NEW x \in Actors, UserAddStep(x) PROVE AccountInv'
  <2>0. /\ store' = store /\ accounts \subseteq accounts' /\ enrolled \subseteq enrolled'
        /\ pc[x] \in Approving
    BY <1>8, UserAddSteps DEF files
  <2>1. \A g \in Handlers \ {x} : pc'[g] = pc[g] /\ req'[g] = req[g]
    BY <1>0, <1>8, UserAddSteps DEF Fail, Work, Goto
  <2>2. x \in Handlers => x \notin Shells
    BY <1>0
  <2>3. CASE CheckExists(x) \/ WriteKey(x) \/ UserAdd(x)
    BY <1>2, <1>3, <2>0, <2>3 DEF CheckExists, WriteKey, UserAdd, UserAddExits
  <2>4. CASE Fail(x)
    BY <1>3, <2>0, <2>4
  <2>5. ASSUME x \in Handlers => Added(x)' PROVE AccountInv'
    BY <1>1, <2>0, <2>1, <2>5
  <2>6. CASE Useradd(x)
    <3>1. req[x].username \in accounts' /\ req' = req /\ pc' = [pc EXCEPT ![x] = "install-key"]
      BY <2>6 DEF Useradd, GoOn, Goto
    <3>2. QED
      BY <1>0, <2>5, <3>1 DEF Added
  <2>7. CASE UseraddFails(x) \/ InstallKey(x) \/ EnrollFails(x)
    <3>1. x \in Handlers =>
            \/ Fail(x)
            \/ pc[x] = "install-key" /\ req' = req /\ pc' = [pc EXCEPT ![x] = "enroll"]
      BY <2>2, <2>7 DEF UseraddFails, InstallKey, EnrollFails, CommandFails, UserAddExits, GoOn, Goto
    <3>2. ASSUME x \in Handlers, pc[x] = "install-key", req' = req, pc' = [pc EXCEPT ![x] = "enroll"]
          PROVE  Added(x)'
      BY <1>0, <2>0, <3>2 DEF AccountInv, Added
    <3>3. QED
      BY <2>4, <2>5, <3>1, <3>2
  <2>8. CASE Enroll(x)
    <3>1. ASSUME x \in Handlers PROVE Added(x)'
      <4>1. pc[x] = "enroll" /\ pc' = [pc EXCEPT ![x] = "update"] /\ req' = req
        BY <2>8, <3>1 DEF Enroll, Goto
      <4>2. req[x].username \in accounts' /\ req[x].username \in enrolled'
        BY <2>0, <2>8, <3>1, <4>1 DEF Enroll, AccountInv, Added
      <4>3. QED
        BY <1>0, <4>1, <4>2 DEF Added
    <3>2. QED
      BY <2>5, <3>1
  <2>9. QED
    BY <1>8, <2>3, <2>6, <2>7, <2>8 DEF UserAddStep
<1>9. ASSUME NEW x \in Actors, NEW i \in Readable, NEW step, NEW s, NEW by,
             Work(x, step, [store[i] EXCEPT !.status = s, !.by = by]),
             s = "approved" => step = "check-exists", step \in {"check-exists", "update", "edit"},
             UNCHANGED << accounts, enrolled, store >>
      PROVE  AccountInv'
  <2>1. store[i] \in Request
    BY <1>0 DEF Readable
  <2> DEFINE r == [store[i] EXCEPT !.status = s, !.by = by]
  <2>2. r.status = s
    BY <2>1 DEF Request
  <2>3. Work(x, step, r)
    BY <1>9
  <2> HIDE DEF r
  <2>4. QED
    BY <1>4, <1>9, <2>2, <2>3
<1>10. ASSUME NEW h \in Handlers, HandlerStep(h) PROVE AccountInv'
  <2>0. h \in Actors
    BY <1>0
  <2>1. CASE Register(h) \/ CheckAccount(h)
    <3>1. UNCHANGED << accounts, enrolled, store >>
      BY <2>1 DEF Register, CheckAccount, files, system
    <3>2. Fail(h) \/ \E step \in {"check-username", "create"} : \E r : Work(h, step, r)
      BY <2>1 DEF Register, CheckAccount
    <3>3. QED
      BY <1>3, <1>4, <2>0, <3>1, <3>2
  <2>2. CASE CheckUsername(h) \/ CheckEmail(h) \/ UpdateFails(h)
    BY <1>2, <1>3, <2>0, <2>2 DEF CheckUsername, CheckEmail, UpdateFails, files, system
  <2>3. CASE Approve(h) \/ Reject(h)
    <3>1. PICK i \in Readable, step \in {"check-exists", "update"}, s \in {"approved", "rejected"} :
            /\ Work(h, step, [store[i] EXCEPT !.status = s, !.by = "api"])
            /\ s = "approved" => step = "check-exists"
      BY <2>3 DEF Approve, Reject, GetPending, IsNewest
    <3>2. UNCHANGED << accounts, enrolled, store >>
      BY <2>3 DEF Approve, Reject, GetPending, files, system
    <3>3. QED
      BY <1>9, <2>0, <3>1, <3>2
  <2>4. CASE Create(h) \/ Update(h)
    <3>1. CASE Truncate(h)
      BY <1>5, <2>4, <3>1 DEF Create, Update, UpdateUnlocked
    <3>2. CASE Fail(h) /\ UNCHANGED << files, system >>
      BY <1>3, <2>0, <3>2 DEF files, system
    <3>3. QED
      BY <2>4, <3>1, <3>2 DEF Create, Update, UpdateUnlocked
  <2>5. QED
    BY <1>6, <1>10, <2>1, <2>2, <2>3, <2>4 DEF HandlerStep
<1>11. ASSUME NEW a \in Shells, ShellStep(a) PROVE AccountInv'
  <2>0. a \in Actors
    BY <1>0
  <2>1. CASE UserApprove(a) \/ UserReject(a)
    <3>1. PICK i \in Readable, step \in {"check-exists", "edit"}, s \in {"approved", "rejected"} :
            /\ Work(a, step, [store[i] EXCEPT !.status = s, !.by = "cli"])
            /\ s = "approved" => step = "check-exists"
      BY <2>1 DEF UserApprove, UserReject, Scan, PendingOf
    <3>2. UNCHANGED << accounts, enrolled, store >>
      BY <2>1 DEF UserApprove, UserReject, Scan, files, system
    <3>3. QED
      BY <1>9, <2>0, <3>1, <3>2
  <2>2. CASE Edit(a) \/ Quit(a)
    BY <1>2, <1>3, <2>0, <2>2 DEF Edit, Quit, files, system
  <2>3. QED
    BY <1>7, <1>11, <2>1, <2>2 DEF ShellStep
<1>12. CASE Restart \/ UNCHANGED vars
  <2>1. UNCHANGED << store, accounts, enrolled >>
    BY <1>12 DEF Restart, vars, files, system
  <2>2. \A h \in Handlers : (pc'[h] = pc[h] /\ req'[h] = req[h]) \/ Added(h)'
    BY <1>0, <1>12 DEF Restart, vars, Added
  <2>3. QED
    BY <1>1, <2>1, <2>2
<1>13. QED
  BY <1>8, <1>10, <1>11, <1>12 DEF Next

-----------------------------------------------------------------------------
(* The theorems. *)

LEMMA Initial == Init => IInv
<1> SUFFICES ASSUME Init PROVE IInv
  OBVIOUS
<1>1. /\ store = [i \in Ids |-> NoFile] /\ tmpFile = [i \in Ids |-> NoFile]
      /\ issued = 0 /\ outcomes = [i \in Ids |-> {}]
      /\ pc = [x \in Actors |-> "idle"] /\ req = [x \in Actors |-> NoRequest]
  BY DEF Init
<1>2. Readable = {} /\ \A u : PendingOf(u) = {}
  BY <1>1 DEF Readable, PendingOf
<1>3. Handlers \subseteq Actors
  BY DEF Actors
<1>4. FreshInv
  BY <1>1, <1>3 DEF FreshInv, Creates, NoRequest
<1>5. PendingInv
  BY <1>1, <1>2, <1>3 DEF PendingInv, OnePendingPerUser, NeverReopened
<1>6. AccountInv
  BY <1>1, <1>2, <1>3 DEF AccountInv, ApiApprovalHasAccount, Added
<1>7. QED
  BY <1>4, <1>5, <1>6, InitialTypes DEF IInv

\* The invariant holds throughout every behaviour of the code.
THEOREM RegistrationInvariant == Spec => []IInv
<1>1. Init => IInv
  BY Initial
<1>2. IInv /\ [Next]_vars => IInv'
  BY ActorsKeep, FilesKeep, FreshKeep, PendingKeep, AccountKeep DEF IInv, TypeInv
<1>3. QED
  BY <1>1, <1>2, PTL DEF Spec

\* Every copy of a request and every file is a request of its own ID or a file
\* caught while it is written, an actor at rest holds none, and the store's lock is
\* held by the goroutine that writes and by no other.
THEOREM RegistrationTypes == Spec => []TypeOK
<1>1. IInv => TypeOK
  <2> SUFFICES ASSUME IInv PROVE TypeOK
    OBVIOUS
  <2>1. TypeInv
    BY DEF IInv
  <2>2. ASSUME NEW x \in Actors PROVE pc[x] = "idle" <=> req[x] = NoRequest
    <3>1. pc[x] # "idle" => req[x] # NoRequest
      BY <2>1, Copies
    <3>2. At(x)
      BY <2>1 DEF TypeInv, ActorsInv
    <3>3. pc[x] = "idle" => req[x] = NoRequest
      BY <3>2 DEF At, HandlerAt, ShellAt, Approving, Asking
    <3>4. QED
      BY <3>1, <3>3
  <2>3. \A i \in Readable : store[i].id = i
    BY <2>1 DEF TypeInv, FilesInv, FileOK, Readable
  <2>4. QED
    BY <2>1, <2>2, <2>3 DEF TypeInv, ActorsInv, FilesInv, SystemInv, TypeOK
<1>2. QED
  BY <1>1, RegistrationInvariant, PTL

\* A user has at most one pending request, and what was decided stays decided,
\* under any number of goroutines and shells, failures and restarts.
THEOREM RegistrationRequests == Spec => [](OnePendingPerUser /\ NeverReopened)
<1>1. IInv => OnePendingPerUser /\ NeverReopened
  BY DEF IInv, PendingInv
<1>2. QED
  BY <1>1, RegistrationInvariant, PTL

\* Whoever's request the API server marks approved has an account and a directory.
THEOREM RegistrationApprovals == Spec => []ApiApprovalHasAccount
<1>1. IInv => ApiApprovalHasAccount
  BY DEF IInv, AccountInv
<1>2. QED
  BY <1>1, RegistrationInvariant, PTL
=============================================================================
