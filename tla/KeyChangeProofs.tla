-------------------------- MODULE KeyChangeProofs --------------------------
(***************************************************************************)
(* What KeyChange promises, for any number of users, requests, goroutines  *)
(* and shells. The inductive invariant has four parts: what each actor     *)
(* holds at the step it is at; that the ID of a request still to be        *)
(* written is nobody else's; that whoever is past FillKey has installed    *)
(* its key; and, until there is trouble, how the file of a request, the    *)
(* copy of the one actor that decides about its user, and authorized_keys  *)
(* agree.                                                                  *)
(***************************************************************************)
EXTENDS KeyChange, TLAPS

Approving == {"find-home", "open-key", "fill-key", "own-key"}

CliRequest == [id : Ids, username : Users, key : Ids \cup {Empty},
               status : {"approved", "rejected"}, by : {"cli"}]

Asks(x) == req[x].status = "pending"
Approves(x) == req[x].status = "approved"
Rejects(x) == req[x].status = "rejected"
Decides(x) == Approves(x) \/ Rejects(x)

\* The steps at which a goroutine, or a shell, holds copy r of a request.
HandlerAt(step, r) ==
  \/ r = NoRequest /\ step = "idle"
  \/ /\ r \in Request
     /\ \/ r.status = "pending" /\ step \in {"check-user", "create", "write"}
        \/ r.status = "approved" /\ step \in Approving \cup {"update", "write"}
        \/ r.status = "rejected" /\ step \in {"update", "write"}
ShellAt(step, r) ==
  \/ r = NoRequest /\ step = "idle"
  \/ /\ r \in CliRequest
     /\ \/ r.status = "approved" /\ step \in Approving \cup {"read-key", "edit", "move"}
        \/ r.status = "rejected" /\ step \in {"edit", "move"}
At(x) == IF x \in Handlers THEN HandlerAt(pc[x], req[x]) ELSE ShellAt(pc[x], req[x])

FileOK(i) ==
  /\ store[i] \in Request => store[i].id = i
  /\ tmpFile[i] \in Request =>
       tmpFile[i].id = i /\ tmpFile[i].status # "pending" /\ tmpFile[i].by = "cli"

ActorsInv ==
  /\ pc \in [Actors -> Steps]
  /\ req \in [Actors -> Request \cup CliRequest \cup {NoRequest}]
  /\ writer \in Handlers \cup {Nobody}
  /\ \A x \in Actors : At(x)
  /\ \A h \in Handlers : pc[h] = "write" <=> writer = h
FilesInv ==
  /\ store \in [Ids -> Request \cup {NoFile, Empty}]
  /\ tmpFile \in [Ids -> Request \cup {NoFile, Empty}]
  /\ \A i \in Ids : FileOK(i)
  /\ decided \subseteq Ids
  /\ last \in [Users -> {0} \cup Ids]
HomeInv ==
  /\ issued \in 0 .. MaxRequests
  /\ accounts \subseteq Users
  /\ authorizedKeys \in [Users -> Ids \cup {FirstKey, NoFile, Empty}]
  /\ \A u \in accounts : authorizedKeys[u] # NoFile
  /\ installed \subseteq Ids
  /\ trouble \in BOOLEAN
TypeInv == ActorsInv /\ FilesInv /\ HomeInv

\* The request a goroutine is about to write is in no file, and in no hands but
\* its own.
Fresh(h) ==
  LET i == req[h].id IN
    /\ i \notin Readable /\ i \notin decided /\ tmpFile[i] = NoFile
    /\ \A x \in Actors : req[x].id = i => x = h
FreshInv ==
  /\ \A x \in Actors : req[x].id <= issued
  /\ \A i \in Ids : i > issued => store[i] = NoFile /\ tmpFile[i] = NoFile /\ i \notin decided
  /\ \A h \in Handlers : Asks(h) => Fresh(h)

PendingInv ==
  /\ OnePendingPerUser
  /\ NeverReopened
  /\ \A h \in Handlers : pc[h] = "write" /\ Asks(h) => PendingOf(req[h].username) = {}

InstallInv ==
  /\ ApiApprovalInstalledKey
  /\ \A h \in Handlers : Approves(h) =>
       /\ pc[h] \in {"update", "write"} => req[h].id \in installed
       /\ pc[h] = "own-key" /\ req[h].username \in accounts => req[h].id \in installed

\* The key of the request last approved, or the first one.
Current(u) == IF last[u] = 0 THEN FirstKey ELSE store[last[u]].key

\* Until there is trouble: the file of a request that is being decided is as the
\* one who decides read it, or holds nothing while it writes it; and its key is
\* in force from the end of FillKey on.
DecisionOK(x) ==
  LET r == req[x] IN
    /\ r.id \notin decided
    /\ IF pc[x] = "write" THEN store[r.id] = Empty
       ELSE /\ store[r.id] \in Request
            /\ store[r.id].status = "pending"
            /\ store[r.id].username = r.username /\ store[r.id].key = r.key
    /\ pc[x] = "move" =>
         /\ tmpFile[r.id] \in Request
         /\ tmpFile[r.id].username = r.username /\ tmpFile[r.id].key = r.key
         /\ tmpFile[r.id].status = r.status
    /\ r.username \in accounts /\ pc[x] # "fill-key" =>
         authorizedKeys[r.username] =
           IF Approves(x) /\ pc[x] \in {"own-key", "update", "write", "edit", "move"}
           THEN r.key ELSE Current(r.username)
OneDecides ==
  \A x, y \in Actors :
    Decides(x) /\ Decides(y) /\ req[x].username = req[y].username => x = y
KeyInv ==
  /\ OneDecides
  /\ \A x \in Actors : Decides(x) => DecisionOK(x)
  /\ \A u \in accounts : (\A x \in Actors : Decides(x) => req[x].username # u) =>
       authorizedKeys[u] = Current(u)
  /\ \A u \in Users : last[u] # 0 => last[u] \in decided /\ store[last[u]] \in Request

IInv == TypeInv /\ FreshInv /\ PendingInv /\ InstallInv /\ (~trouble => KeyInv)

-----------------------------------------------------------------------------
(* Types. *)

LEMMA InitialTypes == Init => TypeInv
<1> SUFFICES ASSUME Init PROVE TypeInv
  OBVIOUS
<1>1. ActorsInv
  <2>1. /\ pc = [x \in Actors |-> "idle"] /\ req = [x \in Actors |-> NoRequest]
        /\ writer = Nobody
    BY DEF Init
  <2>2. "idle" \in Steps
    BY DEF Steps
  <2>3. Handlers \subseteq Actors
    BY DEF Actors
  <2>4. QED
    BY <2>1, <2>2, <2>3, KeyChangeAssumption DEF ActorsInv, At, HandlerAt, ShellAt
<1>2. FilesInv
  BY KeyChangeAssumption DEF Init, FilesInv, FileOK
<1>3. HomeInv
  <2>1. /\ issued = 0 /\ accounts = Users /\ authorizedKeys = [u \in Users |-> 0]
        /\ installed = {} /\ trouble = FALSE
    BY DEF Init, FirstKey
  <2>2. 0 \in 0 .. MaxRequests /\ 0 # NoFile
    BY KeyChangeAssumption
  <2>3. QED
    BY <2>1, <2>2 DEF HomeInv, FirstKey
<1>4. QED
  BY <1>1, <1>2, <1>3 DEF TypeInv

\* An actor that takes a step leaves the others where they are.
LEMMA OneActs ==
  ASSUME ActorsInv, NEW x \in Actors, NEW step \in Steps,
         NEW r \in Request \cup CliRequest \cup {NoRequest},
         pc' = [pc EXCEPT ![x] = step], req' = [req EXCEPT ![x] = r],
         IF x \in Handlers THEN HandlerAt(step, r) ELSE ShellAt(step, r),
         \/ step # "write" /\ pc[x] # "write" /\ writer' = writer
         \/ step # "write" /\ pc[x] = "write" /\ writer' = Nobody
         \/ step = "write" /\ writer = Nobody /\ writer' = x /\ x \in Handlers
  PROVE  ActorsInv'
<1>1. pc' \in [Actors -> Steps] /\ req' \in [Actors -> Request \cup CliRequest \cup {NoRequest}]
  BY DEF ActorsInv
<1>2. \A y \in Actors : At(y)'
  BY DEF ActorsInv, At
<1>3. writer' \in Handlers \cup {Nobody}
  BY DEF ActorsInv
<1>4. \A h \in Handlers : pc'[h] = "write" <=> writer' = h
  BY KeyChangeAssumption DEF ActorsInv, Actors, At, ShellAt, Approving
<1>5. QED
  BY <1>1, <1>2, <1>3, <1>4 DEF ActorsInv

\* Every step keeps each actor at a step that fits the request it holds.
LEMMA ActorsKeep == ASSUME TypeInv, [Next]_vars PROVE ActorsInv'
<1> USE DEF TypeInv
<1>1. ASSUME NEW x \in Actors, NEW step \in Steps \ {"write"}, Goto(x, step),
             pc[x] # "write", writer' = writer,
             IF x \in Handlers THEN HandlerAt(step, req[x]) ELSE ShellAt(step, req[x])
      PROVE  ActorsInv'
  <2>1. req' = [req EXCEPT ![x] = req[x]] /\ req[x] \in Request \cup CliRequest \cup {NoRequest}
    BY <1>1 DEF Goto, ActorsInv
  <2>2. QED
    BY <1>1, <2>1, OneActs DEF Goto
<1>2. ASSUME NEW x \in Actors, Return(x),
             writer' = IF pc[x] = "write" THEN Nobody ELSE writer
      PROVE  ActorsInv'
  BY <1>2, OneActs DEF Return, Work, HandlerAt, ShellAt, Steps
<1>3. ASSUME NEW h \in Handlers, Truncate(h), writer = Nobody, HandlerAt("write", req[h])
      PROVE  ActorsInv'
  <2>1. req' = [req EXCEPT ![h] = req[h]] /\ req[h] \in Request \cup CliRequest \cup {NoRequest}
    BY <1>3 DEF Truncate, Goto, ActorsInv, Actors
  <2>2. QED
    BY <1>3, <2>1, OneActs DEF Truncate, Goto, Actors, Steps
<1>4. ASSUME NEW x \in Actors, NEW step \in Steps \ {"write"}, NEW r \in Request \cup CliRequest,
             Work(x, step, r), pc[x] # "write", writer' = writer,
             IF x \in Handlers THEN HandlerAt(step, r) ELSE ShellAt(step, r)
      PROVE  ActorsInv'
  BY <1>4, OneActs DEF Work
<1>5. ASSUME NEW h \in Handlers, HandlerStep(h) \/ Submit(h) \/ ApproveKeyChange(h)
                                 \/ RejectKeyChange(h)
      PROVE  ActorsInv'
  <2> USE DEF locks
  <2>0. h \in Actors /\ HandlerAt(pc[h], req[h])
    BY <1>5 DEF Actors, ActorsInv, At
  <2>1. CASE Submit(h)
    <3>1. PICK u \in Users : Work(h, "check-user", [id |-> issued', username |-> u,
                                  key |-> issued', status |-> "pending", by |-> ""])
      BY <2>1 DEF Submit
    <3> DEFINE r == [id |-> issued', username |-> u, key |-> issued',
                     status |-> "pending", by |-> ""]
    <3>2. r \in Request
      <4>1. issued' = issued + 1 /\ issued < MaxRequests
        BY <2>1 DEF Submit
      <4>2. issued \in 0 .. MaxRequests /\ MaxRequests \in Nat
        BY KeyChangeAssumption DEF HomeInv
      <4>3. issued' \in Ids
        BY <4>1, <4>2 DEF Ids
      <4>4. QED
        BY <4>3 DEF Request
    <3>3. pc[h] = "idle" /\ writer' = writer
      BY <2>1 DEF Submit
    <3>4. HandlerAt("check-user", r)
      BY <3>2 DEF HandlerAt
    <3> HIDE DEF r
    <3>5. QED
      BY <2>0, <3>1, <3>2, <3>3, <3>4, <1>4 DEF r, Steps
  <2>2. CASE CheckUser(h)
    <3>1. HandlerAt("create", req[h])
      BY <2>0, <2>2 DEF CheckUser, HandlerAt, Approving
    <3>2. QED
      BY <2>0, <2>2, <3>1, <1>1, <1>2 DEF CheckUser, Steps
  <2>3. CASE Create(h)
    <3>1. HandlerAt("write", req[h])
      BY <2>0, <2>3 DEF Create, HandlerAt, Approving
    <3>2. QED
      BY <2>0, <2>3, <3>1, <1>2, <1>3 DEF Create
  <2>4. CASE Write(h)
    BY <2>0, <2>4, <1>2 DEF Write
  <2>5. CASE Update(h)
    <3>1. HandlerAt("write", req[h])
      BY <2>0, <2>5 DEF Update, UpdateUnlocked, HandlerAt, Approving
    <3>2. QED
      BY <2>0, <2>5, <3>1, <1>3 DEF Update, UpdateUnlocked
  <2>6. CASE UpdateFails(h)
    BY <2>0, <2>6, <1>2 DEF UpdateFails
  <2>7. CASE KeyStep(h)
    <3>1. HandlerAt("open-key", req[h]) /\ HandlerAt("fill-key", req[h])
          /\ HandlerAt("own-key", req[h]) /\ HandlerAt("update", req[h])
      BY <2>0, <2>7 DEF KeyStep, FindHome, OpenKey, FillKey, FillKeyFails, OwnKey,
                        HandlerAt, Approving
    <3>2. h \notin Shells
      BY KeyChangeAssumption
    <3>3. QED
      BY <2>0, <2>7, <3>1, <3>2, <1>1, <1>2
         DEF KeyStep, FindHome, OpenKey, FillKey, FillKeyFails, OwnKey, Marking, Steps
  <2>8. CASE ApproveKeyChange(h) \/ RejectKeyChange(h)
    <3>1. PICK i \in Readable :
            \/ Work(h, "find-home", [store[i] EXCEPT !.status = "approved", !.by = "api"])
            \/ Work(h, "update", [store[i] EXCEPT !.status = "rejected", !.by = "api"])
      BY <2>8 DEF ApproveKeyChange, RejectKeyChange, Decide, PendingOf
    <3>2. pc[h] = "idle" /\ writer' = writer
      BY <2>8 DEF ApproveKeyChange, RejectKeyChange, Decide, PendingOf
    <3>3. store[i] \in Request
      BY <3>1 DEF FilesInv, Readable
    <3>4. ASSUME NEW s \in {"approved", "rejected"}
          PROVE  /\ [store[i] EXCEPT !.status = s, !.by = "api"] \in Request
                 /\ [store[i] EXCEPT !.status = s, !.by = "api"].status = s
      BY <3>3 DEF Request
    <3>5. QED
      BY <2>0, <3>1, <3>2, <3>4, <1>4 DEF HandlerAt, Approving, Steps
  <2>9. QED
    BY <1>5, <2>1, <2>2, <2>3, <2>4, <2>5, <2>6, <2>7, <2>8 DEF HandlerStep
<1>6. ASSUME NEW a \in Shells, ShellStep(a) \/ KeyApprove(a) \/ KeyReject(a)
      PROVE  ActorsInv'
  <2> USE DEF locks
  <2>0. a \in Actors /\ a \notin Handlers /\ ShellAt(pc[a], req[a]) /\ pc[a] # "write"
    BY KeyChangeAssumption DEF Actors, ActorsInv, At, ShellAt, Approving
  <2>1. CASE KeyApprove(a) \/ KeyReject(a)
    <3>1. PICK i \in Readable :
            \/ Work(a, "find-home", [store[i] EXCEPT !.status = "approved", !.by = "cli"])
            \/ Work(a, "edit", [store[i] EXCEPT !.status = "rejected", !.by = "cli"])
      BY <2>1 DEF KeyApprove, KeyReject, Decide, PendingOf
    <3>2. writer' = writer
      BY <2>1 DEF KeyApprove, KeyReject, Decide, PendingOf
    <3>3. store[i] \in Request
      BY <3>1 DEF FilesInv, Readable
    <3>4. ASSUME NEW s \in {"approved", "rejected"}
          PROVE  /\ [store[i] EXCEPT !.status = s, !.by = "cli"] \in CliRequest
                 /\ [store[i] EXCEPT !.status = s, !.by = "cli"].status = s
      BY <3>3 DEF Request, CliRequest
    <3>5. QED
      BY <2>0, <3>1, <3>2, <3>4, <1>4 DEF ShellAt, Approving, Steps
  <2>2. CASE KeyStep(a)
    <3>1. /\ pc[a] = "find-home" => ShellAt("read-key", req[a])
          /\ ShellAt("fill-key", req[a]) /\ ShellAt("own-key", req[a]) /\ ShellAt("edit", req[a])
      BY <2>0, <2>2 DEF KeyStep, FindHome, OpenKey, FillKey, FillKeyFails, OwnKey,
                        ShellAt, Approving
    <3>2. QED
      BY <2>0, <2>2, <3>1, <1>1, <1>2
         DEF KeyStep, FindHome, OpenKey, FillKey, FillKeyFails, OwnKey, Marking, Steps
  <2>3. CASE ReadKey(a)
    <3> DEFINE k == IF req[a].id \in Readable THEN store[req[a].id].key ELSE Empty
               r == [req[a] EXCEPT !.key = k]
    <3>1. k \in Ids \cup {Empty}
      BY DEF Readable, FilesInv, Request
    <3>2. req[a] \in CliRequest /\ req[a].status = "approved"
      BY <2>0, <2>3 DEF ReadKey, ShellAt
    <3> HIDE DEF k
    <3>3. r \in CliRequest /\ r.status = "approved"
      BY <3>1, <3>2 DEF CliRequest
    <3>4. Work(a, "open-key", r) /\ writer' = writer
      BY <2>3 DEF ReadKey, k
    <3> HIDE DEF r
    <3>5. QED
      BY <2>0, <3>3, <3>4, <1>4 DEF ShellAt, Approving, Steps
  <2>4. CASE Edit(a)
    <3>1. ShellAt("move", req[a])
      BY <2>0, <2>4 DEF Edit, ShellAt, Approving
    <3>2. QED
      BY <2>0, <2>4, <3>1, <1>1 DEF Edit, Steps
  <2>5. CASE Move(a) \/ Quit(a)
    BY <2>0, <2>5, <1>2 DEF Move, Quit
  <2>6. QED
    BY <1>6, <2>1, <2>2, <2>3, <2>4, <2>5 DEF ShellStep
<1>7. ASSUME Restart PROVE ActorsInv'
  <2>1. /\ pc' = [x \in Actors |-> IF x \in Handlers THEN "idle" ELSE pc[x]]
        /\ req' = [x \in Actors |-> IF x \in Handlers THEN NoRequest ELSE req[x]]
        /\ writer' = Nobody
    BY <1>7 DEF Restart
  <2>2. pc' \in [Actors -> Steps] /\ req' \in [Actors -> Request \cup CliRequest \cup {NoRequest}]
    BY <2>1 DEF ActorsInv, Steps
  <2>3. \A x \in Actors : At(x)'
    BY <2>1 DEF ActorsInv, At, HandlerAt
  <2>4. \A h \in Handlers : pc'[h] # "write" /\ writer' # h
    BY <2>1, KeyChangeAssumption DEF Actors
  <2>5. QED
    BY <2>1, <2>2, <2>3, <2>4 DEF ActorsInv
<1>8. CASE UNCHANGED << pc, req, writer >>
  BY <1>8 DEF ActorsInv, At
<1>9. QED
  BY <1>5, <1>6, <1>7, <1>8 DEF Next, UserDelete, vars, work, locks

\* What a write puts into a file is a request of that ID, or nothing.
LEMMA FilesKeep == ASSUME TypeInv, [Next]_vars PROVE FilesInv' /\ HomeInv'
<1> USE DEF TypeInv
<1>1. ASSUME NEW i \in Ids, NEW c \in Request \cup {Empty}, Put(i, c), c # Empty => c.id = i
      PROVE  /\ store' \in [Ids -> Request \cup {NoFile, Empty}]
             /\ \A j \in Ids : store'[j] \in Request => store'[j].id = j
             /\ decided' \subseteq Ids /\ last' \in [Users -> {0} \cup Ids]
  <2>1. store' = [store EXCEPT ![i] = c]
    BY <1>1 DEF Put
  <2>2. \A j \in Ids : store'[j] \in Request => store'[j].id = j
    BY <1>1, <2>1, KeyChangeAssumption DEF FilesInv, FileOK
  <2>3. decided' \subseteq Ids
    BY <1>1 DEF Put, FilesInv
  <2>4. last' \in [Users -> {0} \cup Ids]
    BY <1>1 DEF Put, FilesInv, Request
  <2>5. QED
    BY <2>1, <2>2, <2>3, <2>4 DEF FilesInv
<1>2. ASSUME NEW h \in Handlers, Truncate(h), req[h] \in Request PROVE FilesInv' /\ HomeInv'
  <2>1. req[h].id \in Ids
    BY <1>2 DEF Request
  <2>2. Put(req[h].id, Empty) /\ UNCHANGED << tmpFile, home, issued, trouble >>
    BY <1>2 DEF Truncate
  <2>3. QED
    BY <2>1, <2>2, <1>1 DEF FilesInv, FileOK, HomeInv, home
<1>3. ASSUME NEW h \in Handlers, Write(h) PROVE FilesInv' /\ HomeInv'
  <2>1. req[h] \in Request
    BY <1>3 DEF Write, ActorsInv, At, HandlerAt, Actors
  <2>2. req[h].id \in Ids
    BY <2>1 DEF Request
  <2>3. CASE Put(req[h].id, req[h]) /\ UNCHANGED trouble
    BY <1>3, <2>1, <2>2, <2>3, <1>1 DEF Write, FilesInv, FileOK, HomeInv, home
  <2>4. CASE Trouble /\ UNCHANGED << store, decisions >>
    BY <1>3, <2>4 DEF Write, Trouble, FilesInv, FileOK, HomeInv, home, decisions
  <2>5. QED
    BY <1>3, <2>3, <2>4 DEF Write
<1>4. ASSUME NEW a \in Shells, Edit(a) PROVE FilesInv' /\ HomeInv'
  <2> DEFINE i == req[a].id
             c == [store[i] EXCEPT !.status = req[a].status, !.by = "cli"]
  <2>1. req[a] \in CliRequest
    BY <1>4, KeyChangeAssumption DEF Edit, ActorsInv, At, ShellAt, Actors
  <2>2. i \in Ids /\ req[a].status \in {"approved", "rejected"}
    BY <2>1 DEF CliRequest
  <2>3. ASSUME i \in Readable
        PROVE  c \in Request /\ c.id = i /\ c.status # "pending" /\ c.by = "cli"
    <3>1. store[i] \in Request /\ store[i].id = i
      BY <2>3 DEF Readable, FilesInv, FileOK
    <3>2. QED
      BY <2>2, <3>1 DEF Request
  <2>4. tmpFile' = [tmpFile EXCEPT ![i] = IF i \in Readable THEN c ELSE Empty]
    BY <1>4 DEF Edit
  <2> HIDE DEF c
  <2>5. tmpFile' \in [Ids -> Request \cup {NoFile, Empty}]
    BY <2>2, <2>3, <2>4 DEF FilesInv
  <2>6. \A j \in Ids : tmpFile'[j] \in Request =>
           tmpFile'[j].id = j /\ tmpFile'[j].status # "pending" /\ tmpFile'[j].by = "cli"
    BY <2>2, <2>3, <2>4, KeyChangeAssumption DEF FilesInv, FileOK
  <2>7. UNCHANGED << store, home, issued, decisions, trouble >>
    BY <1>4 DEF Edit, locks
  <2>8. QED
    BY <2>5, <2>6, <2>7 DEF FilesInv, FileOK, HomeInv, home, decisions
<1>5. ASSUME NEW a \in Shells, Move(a) PROVE FilesInv' /\ HomeInv'
  <2> DEFINE i == req[a].id
  <2>1. req[a] \in CliRequest
    BY <1>5, KeyChangeAssumption DEF Move, ActorsInv, At, ShellAt, Actors
  <2>2. i \in Ids
    BY <2>1 DEF CliRequest
  <2>3. UNCHANGED << home, issued, trouble >>
    BY <1>5 DEF Move, locks
  <2>4. CASE tmpFile[i] = NoFile /\ UNCHANGED << files, decisions >>
    BY <2>3, <2>4 DEF FilesInv, FileOK, HomeInv, files, home, decisions
  <2>5. CASE tmpFile[i] # NoFile /\ Put(i, tmpFile[i])
             /\ tmpFile' = [tmpFile EXCEPT ![i] = NoFile]
    <3>1. tmpFile[i] \in Request \cup {Empty} /\ (tmpFile[i] # Empty => tmpFile[i].id = i)
      BY <2>2, <2>5 DEF FilesInv, FileOK
    <3>2. NoFile \notin Request
      BY KeyChangeAssumption
    <3>3. QED
      BY <2>2, <2>3, <2>5, <3>1, <3>2, <1>1 DEF FilesInv, FileOK, HomeInv, home
  <2>6. QED
    BY <1>5, <2>4, <2>5 DEF Move
<1>6. ASSUME UNCHANGED << files, decisions >>, HomeInv' PROVE FilesInv' /\ HomeInv'
  BY <1>6 DEF FilesInv, FileOK, files, decisions
<1>7. ASSUME NEW x \in Actors, KeyStep(x) PROVE UNCHANGED << files, decisions >> /\ HomeInv'
  <2>1. CASE FindHome(x) \/ OwnKey(x) \/ FillKeyFails(x)
    BY <1>7, <2>1 DEF FindHome, OwnKey, FillKeyFails, Trouble, HomeInv, home, locks
  <2>2. CASE OpenKey(x)
    BY <1>7, <2>2, KeyChangeAssumption DEF OpenKey, SetKeys, HomeInv, locks
  <2>3. CASE FillKey(x)
    <3>1. req[x] \in Request \cup CliRequest
      BY <1>7, <2>3 DEF FillKey, ActorsInv, At, HandlerAt, ShellAt
    <3>2. req[x].id \in Ids /\ req[x].key \in Ids \cup {Empty}
      BY <3>1 DEF Request, CliRequest
    <3>3. NoFile \notin Ids \cup {Empty}
      BY KeyChangeAssumption DEF Ids
    <3>4. QED
      BY <2>3, <3>2, <3>3 DEF FillKey, SetKeys, HomeInv, locks
  <2>4. QED
    BY <1>7, <2>1, <2>2, <2>3 DEF KeyStep
<1>8. ASSUME NEW h \in Handlers,
             Submit(h) \/ ApproveKeyChange(h) \/ RejectKeyChange(h) \/ HandlerStep(h)
      PROVE  FilesInv' /\ HomeInv'
  <2>1. CASE Submit(h)
    <3>1. issued' = issued + 1 /\ issued < MaxRequests
      BY <2>1 DEF Submit
    <3>2. issued \in 0 .. MaxRequests /\ MaxRequests \in Nat
      BY KeyChangeAssumption DEF HomeInv
    <3>3. issued' \in 0 .. MaxRequests
      BY <3>1, <3>2
    <3>4. QED
      BY <2>1, <3>3, <1>6 DEF Submit, HomeInv, home
  <2>2. CASE ApproveKeyChange(h) \/ RejectKeyChange(h)
    BY <2>2, <1>6 DEF ApproveKeyChange, RejectKeyChange, Decide, Trouble, HomeInv, home, locks
  <2>3. CASE CheckUser(h) \/ UpdateFails(h)
    BY <2>3, <1>6 DEF CheckUser, UpdateFails, HomeInv, home, locks
  <2>4. CASE Create(h) \/ Update(h)
    <3>0. h \in Actors /\ HandlerAt(pc[h], req[h])
      BY DEF ActorsInv, At, Actors
    <3>1. req[h] \in Request
      BY <2>4, <3>0 DEF Create, Update, UpdateUnlocked, HandlerAt
    <3>2. CASE Truncate(h)
      BY <3>1, <3>2, <1>2
    <3>3. CASE UNCHANGED << files, home, locks, decisions, trouble >>
      BY <3>3, <1>6 DEF HomeInv, home, locks
    <3>4. QED
      BY <2>4, <3>2, <3>3 DEF Create, Update, UpdateUnlocked
  <2>5. QED
    BY <1>8, <2>1, <2>2, <2>3, <2>4, <1>3, <1>6, <1>7 DEF HandlerStep, Actors
<1>9. ASSUME NEW a \in Shells, KeyApprove(a) \/ KeyReject(a) \/ ShellStep(a)
      PROVE  FilesInv' /\ HomeInv'
  <2>1. CASE KeyApprove(a) \/ KeyReject(a)
    BY <2>1, <1>6 DEF KeyApprove, KeyReject, Decide, Trouble, HomeInv, home, locks
  <2>2. CASE ReadKey(a) \/ Quit(a)
    BY <2>2, <1>6 DEF ReadKey, Quit, Trouble, HomeInv, home, locks
  <2>3. QED
    BY <1>9, <2>1, <2>2, <1>4, <1>5, <1>6, <1>7 DEF ShellStep, Actors
<1>10. ASSUME Restart PROVE FilesInv' /\ HomeInv'
  BY <1>10, <1>6 DEF Restart, Trouble, HomeInv, home
<1>11. ASSUME NEW u \in Users, UserDelete(u) PROVE FilesInv' /\ HomeInv'
  BY <1>11, <1>6 DEF UserDelete, SetKeys, HomeInv, locks
<1>12. CASE UNCHANGED vars
  BY <1>12, <1>6 DEF vars, HomeInv, home, locks
<1>13. QED
  BY <1>8, <1>9, <1>10, <1>11, <1>12 DEF Next

-----------------------------------------------------------------------------
(* Requests that are still to be written. *)

\* What the copy is that a goroutine or a shell at work holds.
LEMMA Copies ==
  ASSUME TypeInv, NEW x \in Actors, req[x] # NoRequest \/ pc[x] # "idle"
  PROVE  /\ req[x] # NoRequest
         /\ req[x].id \in Ids /\ req[x].username \in Users
         /\ req[x].key \in Ids \cup {Empty}
         /\ x \in Handlers => HandlerAt(pc[x], req[x]) /\ req[x] \in Request
         /\ x \in Shells => ShellAt(pc[x], req[x]) /\ req[x] \in CliRequest
<1>1. req[x] \in Request \cup CliRequest
  BY DEF TypeInv, ActorsInv, At, HandlerAt, ShellAt
<1>2. /\ req[x] # NoRequest
      /\ req[x].id \in Ids /\ req[x].username \in Users /\ req[x].key \in Ids \cup {Empty}
  <2>1. req[x].id \in Ids /\ req[x].username \in Users /\ req[x].key \in Ids \cup {Empty}
    BY <1>1 DEF Request, CliRequest
  <2>2. NoRequest.id \notin Ids
    BY DEF NoRequest, Ids
  <2>3. QED
    BY <2>1, <2>2
<1>3. IF x \in Handlers THEN HandlerAt(pc[x], req[x]) ELSE ShellAt(pc[x], req[x])
  BY DEF TypeInv, ActorsInv, At
<1>4. x \in Shells => x \notin Handlers
  BY KeyChangeAssumption
<1>5. QED
  BY <1>2, <1>3, <1>4 DEF HandlerAt, ShellAt

\* No step gives a number away twice, or touches a file before its request is
\* written.
LEMMA FreshKeep == ASSUME TypeInv, FreshInv, [Next]_vars PROVE FreshInv'
<1>0. /\ Handlers \subseteq Actors /\ Shells \subseteq Actors
      /\ issued \in Nat /\ NoRequest.id = 0 /\ NoRequest.status = "none"
      /\ Ids \subseteq Nat \ {0}
      /\ req \in [Actors -> Request \cup CliRequest \cup {NoRequest}]
  BY KeyChangeAssumption DEF Actors, TypeInv, HomeInv, ActorsInv, NoRequest, Ids
<1>1. ASSUME UNCHANGED << files, decided, issued >>,
             \A x \in Actors : \/ req'[x] = NoRequest
                               \/ req'[x].id = req[x].id /\ req'[x].status = req[x].status
      PROVE  FreshInv'
  <2>1. \A x \in Actors : req'[x].id <= issued'
    BY <1>0, <1>1 DEF FreshInv
  <2>2. ASSUME NEW h \in Handlers, Asks(h)' PROVE Fresh(h)'
    <3>1. Asks(h) /\ req'[h].id = req[h].id
      BY <1>0, <1>1, <2>2 DEF Asks
    <3>2. Fresh(h) /\ req[h].id \in Ids
      BY <1>0, <3>1, Copies DEF FreshInv, Asks
    <3>3. QED
      BY <1>0, <1>1, <3>1, <3>2 DEF Fresh, Readable, files
  <2>3. QED
    BY <1>1, <2>1, <2>2 DEF FreshInv, files
<1>2. ASSUME NEW x \in Actors, NEW i \in Ids, i <= issued, UNCHANGED << files, decided, issued >>,
             i \in Readable, req' = [req EXCEPT ![x] = req'[x]],
             req'[x].id = i, req'[x].status # "pending"
      PROVE  FreshInv'
  <2>1. \A y \in Actors : y # x => req'[y] = req[y]
    BY <1>0, <1>2
  <2>2. ASSUME NEW h \in Handlers, Asks(h)' PROVE Fresh(h)'
    <3>1. h # x /\ Fresh(h) /\ req'[h] = req[h]
      BY <1>0, <1>2, <2>1, <2>2 DEF FreshInv, Asks
    <3>2. req[h].id # i
      BY <1>2, <3>1 DEF Fresh
    <3>3. QED
      BY <1>2, <2>1, <3>1, <3>2 DEF Fresh, Readable, files
  <2>3. QED
    BY <1>2, <2>1, <2>2 DEF FreshInv, files
<1>3. ASSUME NEW x \in Actors, NEW i \in Ids, i = req[x].id, issued' = issued,
             \A j \in Ids \ {i} : /\ store'[j] = store[j] /\ tmpFile'[j] = tmpFile[j]
                                  /\ j \in decided' <=> j \in decided,
             \A y \in Actors \ {x} : req'[y] = req[y],
             \/ req'[x] = NoRequest
             \/ /\ req'[x] = req[x]
                /\ x \in Handlers /\ Asks(x) =>
                     store'[i] = Empty /\ tmpFile'[i] = tmpFile[i] /\ decided' = decided
      PROVE  FreshInv'
  <2>1. \A y \in Actors : req'[y].id <= issued'
    BY <1>0, <1>3 DEF FreshInv
  <2>2. i <= issued
    BY <1>3 DEF FreshInv
  <2>3. \A j \in Ids : j > issued' => store'[j] = NoFile /\ tmpFile'[j] = NoFile /\ j \notin decided'
    BY <1>0, <1>3, <2>2 DEF FreshInv
  <2>4. ASSUME NEW h \in Handlers, Asks(h)' PROVE Fresh(h)'
    <3>1. Asks(h) /\ req'[h] = req[h]
      BY <1>0, <1>3, <2>4 DEF Asks
    <3>2. Fresh(h) /\ req[h].id \in Ids
      BY <1>0, <3>1, Copies DEF FreshInv, Asks
    <3>3. \A y \in Actors : req'[y].id = req[h].id => y = h
      BY <1>0, <1>3, <3>2 DEF Fresh
    <3>4. CASE h = x
      BY <1>0, <1>3, <2>4, <3>1, <3>2, <3>3, <3>4 DEF Fresh, Readable, Asks
    <3>5. CASE h # x
      <4>1. req[h].id # i
        BY <1>3, <3>2, <3>5 DEF Fresh
      <4>2. QED
        BY <1>3, <3>1, <3>2, <3>3, <4>1 DEF Fresh, Readable
    <3>6. QED
      BY <3>4, <3>5
  <2>5. QED
    BY <2>1, <2>3, <2>4 DEF FreshInv
<1>4. ASSUME NEW x \in Actors, NEW step, Goto(x, step), UNCHANGED << files, decided, issued >>
      PROVE  FreshInv'
  BY <1>1, <1>4 DEF Goto
<1>5. ASSUME NEW x \in Actors, Return(x), UNCHANGED << files, decided, issued >>
      PROVE  FreshInv'
  BY <1>1, <1>5 DEF Return, Work, TypeInv, ActorsInv
<1>6. ASSUME NEW x \in Actors, NEW step, NEW status \in {"approved", "rejected"}, NEW by,
             Decide(x, step, status, by)
      PROVE  FreshInv'
  <2>1. PICK i \in Readable : req' = [req EXCEPT ![x] = [store[i] EXCEPT !.status = status, !.by = by]]
    BY <1>6 DEF Decide, Work, PendingOf
  <2>2. store[i] \in Request /\ store[i].id = i /\ i \in Ids
    BY DEF Readable, TypeInv, FilesInv, FileOK
  <2> DEFINE r == [store[i] EXCEPT !.status = status, !.by = by]
  <2>3. r.id = i /\ r.status = status
    BY <2>2 DEF Request
  <2> HIDE DEF r
  <2>4. req' = [req EXCEPT ![x] = r] /\ req'[x] = r
    BY <2>1 DEF r, TypeInv, ActorsInv
  <2>5. i <= issued
    <3>1. i \in Nat /\ store[i] # NoFile
      BY <1>0, <2>2 DEF Readable
    <3>2. i > issued => store[i] = NoFile
      BY <2>2 DEF FreshInv
    <3>3. QED
      BY <1>0, <3>1, <3>2
  <2>6. UNCHANGED << files, decided, issued >>
    BY <1>6 DEF Decide, locks, decisions
  <2>7. QED
    BY <1>2, <2>2, <2>3, <2>4, <2>5, <2>6
<1>7. ASSUME NEW h \in Handlers, Submit(h) PROVE FreshInv'
  <2>1. PICK u \in Users : req' = [req EXCEPT ![h] = [id |-> issued', username |-> u,
                                   key |-> issued', status |-> "pending", by |-> ""]]
    BY <1>7 DEF Submit, Work
  <2>2. req'[h].id = issued + 1 /\ issued' = issued + 1 /\ UNCHANGED << files, decided >>
    BY <1>0, <1>7, <2>1 DEF Submit, TypeInv, ActorsInv, decisions
  <2>3. \A y \in Actors : y # h => req'[y] = req[y]
    BY <1>0, <2>1
  <2>4. \A y \in Actors : req'[y].id <= issued'
    <3>1. ASSUME NEW y \in Actors PROVE req[y].id \in Nat
      <4>1. CASE req[y] = NoRequest
        BY <1>0, <4>1
      <4>2. CASE req[y] # NoRequest
        BY <1>0, <4>2, Copies
      <4>3. QED
        BY <4>1, <4>2
    <3>2. QED
      BY <1>0, <2>2, <2>3, <3>1 DEF FreshInv
  <2>5. issued + 1 \in Ids
    <3>1. issued < MaxRequests
      BY <1>7 DEF Submit
    <3>2. QED
      BY <1>0, <3>1, KeyChangeAssumption DEF Ids
  <2>6. ASSUME NEW g \in Handlers, Asks(g)' PROVE Fresh(g)'
    <3>1. CASE g = h
      <4>1. \A y \in Actors : req'[y].id = issued + 1 => y = h
        BY <1>0, <2>3 DEF FreshInv
      <4>2. store[issued + 1] = NoFile /\ tmpFile[issued + 1] = NoFile /\ issued + 1 \notin decided
        BY <1>0, <2>5 DEF FreshInv
      <4>3. QED
        BY <2>2, <3>1, <4>1, <4>2 DEF Fresh, Readable, files
    <3>2. CASE g # h
      <4>1. Fresh(g) /\ req'[g] = req[g] /\ req[g].id <= issued
        BY <1>0, <2>3, <2>6, <3>2 DEF FreshInv, Asks
      <4>2. QED
        BY <1>0, <2>2, <2>3, <4>1 DEF Fresh, Readable, files
    <3>3. QED
      BY <3>1, <3>2
  <2>7. \A i \in Ids : i > issued' => store'[i] = NoFile /\ tmpFile'[i] = NoFile /\ i \notin decided'
    <3>1. ASSUME NEW i \in Ids, i > issued + 1 PROVE i > issued
      BY <1>0, <3>1
    <3>2. QED
      BY <2>2, <3>1 DEF FreshInv, files
  <2>8. QED
    BY <2>4, <2>6, <2>7 DEF FreshInv
<1>8. ASSUME NEW h \in Handlers, Truncate(h), req[h] # NoRequest PROVE FreshInv'
  <2>1. /\ store' = [store EXCEPT ![req[h].id] = Empty] /\ decided' = decided
        /\ tmpFile' = tmpFile /\ issued' = issued /\ req' = req
    BY <1>8 DEF Truncate, Put, Goto
  <2>2. req[h].id \in Ids
    BY <1>0, <1>8, Copies
  <2>3. store'[req[h].id] = Empty /\ \A j \in Ids \ {req[h].id} : store'[j] = store[j]
    BY <2>1, <2>2 DEF TypeInv, FilesInv
  <2>4. QED
    BY <1>0, <1>3, <2>1, <2>2, <2>3
<1>9. ASSUME NEW x \in Actors, (Write(x) /\ x \in Handlers) \/ (Move(x) /\ x \in Shells)
      PROVE  FreshInv'
  <2>0. req[x] # NoRequest
    BY <1>9, Copies DEF Write, Move
  <2>1. req[x].id \in Ids /\ issued' = issued
    BY <2>0, <1>9, Copies DEF Write, Move, locks
  <2>2. \A j \in Ids \ {req[x].id} : /\ store'[j] = store[j] /\ tmpFile'[j] = tmpFile[j]
                                     /\ j \in decided' <=> j \in decided
    <3>1. CASE UNCHANGED << files, decisions >>
      BY <3>1 DEF files, decisions
    <3>2. ASSUME NEW c, Put(req[x].id, c), tmpFile' = tmpFile \/ Move(x)
          PROVE  \A j \in Ids \ {req[x].id} : /\ store'[j] = store[j]
                                              /\ j \in decided' <=> j \in decided
      BY <3>2 DEF Put, TypeInv, FilesInv
    <3>3. CASE Write(x)
      BY <3>1, <3>2, <3>3 DEF Write, files, decisions
    <3>4. CASE Move(x)
      BY <3>1, <3>2, <3>4 DEF Move, TypeInv, FilesInv
    <3>5. QED
      BY <1>9, <3>3, <3>4
  <2>3. req'[x] = NoRequest /\ \A y \in Actors \ {x} : req'[y] = req[y]
    BY <1>9 DEF Write, Move, Return, Work, TypeInv, ActorsInv
  <2>4. QED
    BY <1>3, <2>1, <2>2, <2>3
<1>10. ASSUME NEW a \in Shells, Edit(a) PROVE FreshInv'
  <2>0. req[a] # NoRequest /\ a \notin Handlers
    BY <1>0, <1>10, Copies, KeyChangeAssumption DEF Edit
  <2>1. req[a].id \in Ids /\ issued' = issued /\ store' = store /\ decided' = decided
    BY <1>0, <2>0, <1>10, Copies DEF Edit, locks, decisions
  <2>2. \A j \in Ids \ {req[a].id} : tmpFile'[j] = tmpFile[j]
    BY <1>10 DEF Edit
  <2>3. req' = req
    BY <1>10 DEF Edit, Goto
  <2>4. QED
    BY <1>0, <1>3, <2>0, <2>1, <2>2, <2>3
<1>11. ASSUME NEW x \in Actors, KeyStep(x) PROVE FreshInv'
  BY <1>11, <1>4, <1>5 DEF KeyStep, FindHome, OpenKey, FillKey, FillKeyFails, OwnKey, locks, decisions
<1>12. ASSUME NEW h \in Handlers, HandlerStep(h) PROVE FreshInv'
  <2>1. CASE CheckUser(h) \/ UpdateFails(h)
    BY <1>0, <1>4, <1>5, <2>1 DEF CheckUser, UpdateFails, locks, decisions
  <2>2. CASE Create(h) \/ Update(h)
    <3>1. req[h] # NoRequest
      BY <1>0, <2>2, Copies DEF Create, Update, UpdateUnlocked
    <3>2. QED
      <4>1. CASE Truncate(h)
        BY <1>8, <3>1, <4>1
      <4>2. CASE Return(h) /\ UNCHANGED << files, locks, decisions >>
        BY <1>0, <1>5, <4>2 DEF locks, decisions
      <4>3. QED
        BY <2>2, <4>1, <4>2 DEF Create, Update, UpdateUnlocked
  <2>3. h \in Actors
    BY <1>0
  <2>4. KeyStep(h) => FreshInv'
    BY <1>11, <2>3
  <2>5. Write(h) => FreshInv'
    BY <1>9, <2>3
  <2>6. QED
    BY <1>12, <2>1, <2>2, <2>4, <2>5 DEF HandlerStep
<1>13. ASSUME NEW a \in Shells, ShellStep(a) PROVE FreshInv'
  <2>1. CASE ReadKey(a)
    <3>1. req[a] \in CliRequest
      BY <1>0, <2>1, Copies DEF ReadKey
    <3>2. req'[a].id = req[a].id /\ req'[a].status = req[a].status
      BY <1>0, <2>1, <3>1 DEF ReadKey, Work, TypeInv, ActorsInv, CliRequest
    <3>3. \A y \in Actors : y # a => req'[y] = req[y]
      BY <2>1 DEF ReadKey, Work, TypeInv, ActorsInv
    <3>4. QED
      BY <1>1, <2>1, <3>2, <3>3 DEF ReadKey, locks, decisions
  <2>2. CASE Quit(a)
    BY <1>0, <1>5, <2>2 DEF Quit, locks, decisions
  <2>3. QED
    BY <1>0, <1>9, <1>10, <1>11, <1>13, <2>1, <2>2 DEF ShellStep
<1>14. ASSUME Restart \/ (\E u \in Users : UserDelete(u)) \/ UNCHANGED vars PROVE FreshInv'
  <2>1. UNCHANGED << files, decided, issued >>
    BY <1>14 DEF Restart, UserDelete, vars, locks, decisions
  <2>2. \A x \in Actors : req'[x] = NoRequest \/ req'[x] = req[x]
    BY <1>14 DEF Restart, UserDelete, vars, work
  <2>3. QED
    BY <1>1, <2>1, <2>2
<1>15. QED
  BY <1>0, <1>6, <1>7, <1>12, <1>13, <1>14
     DEF Next, ApproveKeyChange, RejectKeyChange, KeyApprove, KeyReject

\* A file becomes pending when nothing of its user is, once, and never again.
LEMMA PendingKeep == ASSUME TypeInv, FreshInv, PendingInv, [Next]_vars PROVE PendingInv'
<1>0. /\ Handlers \subseteq Actors /\ Shells \subseteq Actors /\ Handlers \cap Shells = {}
      /\ req \in [Actors -> Request \cup CliRequest \cup {NoRequest}] /\ pc \in [Actors -> Steps]
      /\ store \in [Ids -> Request \cup {NoFile, Empty}]
      /\ NoFile \notin Request /\ Empty \notin Request /\ NoFile # Empty
  BY KeyChangeAssumption DEF Actors, TypeInv, ActorsInv, FilesInv
<1>1. ASSUME UNCHANGED << store, decided >>,
             \A h \in Handlers : pc'[h] = "write" => pc[h] = "write" /\ req'[h] = req[h]
      PROVE  PendingInv'
  BY <1>1 DEF PendingInv, OnePendingPerUser, NeverReopened, PendingOf, Readable, Asks
<1>2. ASSUME NEW i \in Ids, NEW c \in Request \cup {Empty}, Put(i, c),
             c # Empty => c.status # "pending",
             \A h \in Handlers :
               pc'[h] = "write" /\ Asks(h)' => PendingOf(req'[h].username) = {}
      PROVE  PendingInv'
  <2>1. /\ store'[i] = c /\ \A j \in Ids : j # i => store'[j] = store[j]
        /\ \A j \in decided' : j \in decided \/ (j = i /\ c # Empty)
    BY <1>0, <1>2 DEF Put
  <2>2. ASSUME NEW j \in Readable', store'[j].status = "pending"
        PROVE  j \in Readable /\ j # i /\ store[j] = store'[j]
    BY <1>0, <1>2, <2>1, <2>2 DEF Readable
  <2>3. \A u : PendingOf(u)' \subseteq PendingOf(u)
    BY <2>2 DEF PendingOf
  <2>4. OnePendingPerUser'
    BY <2>3 DEF PendingInv, OnePendingPerUser
  <2>5. NeverReopened'
    BY <2>1, <2>2 DEF PendingInv, NeverReopened
  <2>6. QED
    BY <1>2, <2>3, <2>4, <2>5 DEF PendingInv
<1>3. ASSUME NEW x \in Actors, NEW step, Goto(x, step), step # "write", UNCHANGED << store, decided >>
      PROVE  PendingInv'
  BY <1>0, <1>1, <1>3 DEF Goto
<1>4. ASSUME NEW x \in Actors, NEW step, NEW r, Work(x, step, r), step # "write",
             UNCHANGED << store, decided >>
      PROVE  PendingInv'
  BY <1>0, <1>1, <1>4 DEF Work
<1>5. ASSUME NEW x \in Actors, Return(x), UNCHANGED << store, decided >>
      PROVE  PendingInv'
  BY <1>4, <1>5 DEF Return
<1>6. ASSUME NEW h \in Handlers, Truncate(h), pc[h] # "idle", writer = Nobody,
             Asks(h) => PendingOf(req[h].username) = {}
      PROVE  PendingInv'
  <2>1. Put(req[h].id, Empty) /\ req[h].id \in Ids /\ req' = req
    BY <1>0, <1>6, Copies DEF Truncate, Goto
  <2>2. \A g \in Handlers : pc'[g] = "write" => g = h
    BY <1>0, <1>6, KeyChangeAssumption DEF Truncate, Goto, TypeInv, ActorsInv
  <2>3. QED
    BY <1>2, <1>6, <2>1, <2>2 DEF Asks
<1>7. ASSUME NEW h \in Handlers, Write(h) PROVE PendingInv'
  <2>0. /\ h \in Actors /\ req[h] \in Request /\ req[h].id \in Ids /\ req[h].username \in Users
        /\ pc[h] = "write"
    BY <1>0, <1>7, Copies DEF Write
  <2>1. \A g \in Handlers : pc'[g] # "write"
    BY <1>0, <1>7, KeyChangeAssumption DEF Write, Return, Work, TypeInv, ActorsInv
  <2>2. CASE UNCHANGED << store, decisions >>
    BY <1>1, <2>1, <2>2 DEF decisions
  <2>3. CASE Put(req[h].id, req[h]) /\ ~Asks(h)
    BY <1>2, <2>0, <2>1, <2>3 DEF Asks
  <2>4. CASE Put(req[h].id, req[h]) /\ Asks(h)
    <3> DEFINE i == req[h].id
    <3>1. /\ store'[i] = req[h] /\ \A j \in Ids : j # i => store'[j] = store[j]
          /\ decided' = decided /\ req[h].status = "pending"
      BY <1>0, <2>0, <2>4 DEF Put, Asks
    <3>2. PendingOf(req[h].username) = {} /\ i \notin decided
      BY <1>7, <2>0, <2>4 DEF PendingInv, FreshInv, Fresh
    <3>3. \A u \in Users : PendingOf(u)' \subseteq PendingOf(u) \cup {i}
      BY <3>1 DEF PendingOf, Readable
    <3>4. \A u \in Users : u # req[h].username => i \notin PendingOf(u)'
      BY <3>1 DEF PendingOf
    <3>5. OnePendingPerUser'
      BY <3>2, <3>3, <3>4 DEF PendingInv, OnePendingPerUser
    <3>6. NeverReopened'
      BY <3>1, <3>2 DEF PendingInv, NeverReopened, Readable
    <3>7. QED
      BY <2>1, <3>5, <3>6 DEF PendingInv
  <2>5. QED
    BY <1>7, <2>2, <2>3, <2>4 DEF Write
<1>8. ASSUME NEW a \in Shells, Move(a) PROVE PendingInv'
  <2> DEFINE i == req[a].id
  <2>0. a \in Actors /\ i \in Ids
    BY <1>0, <1>8, Copies DEF Move
  <2>1. \A g \in Handlers : pc'[g] = "write" => pc[g] = "write" /\ req'[g] = req[g]
    BY <1>0, <1>8 DEF Move, Return, Work
  <2>2. CASE UNCHANGED << files, decisions >>
    BY <1>1, <2>1, <2>2 DEF files, decisions
  <2>3. CASE tmpFile[i] # NoFile /\ Put(i, tmpFile[i])
    <3>1. tmpFile[i] \in Request \cup {Empty} /\ (tmpFile[i] # Empty => tmpFile[i].status # "pending")
      BY <1>0, <2>0, <2>3 DEF TypeInv, FilesInv, FileOK
    <3>2. \A g \in Handlers : pc'[g] = "write" /\ Asks(g)' => PendingOf(req'[g].username) = {}
      BY <2>1 DEF PendingInv, Asks
    <3>3. QED
      BY <1>2, <2>0, <2>3, <3>1, <3>2
  <2>4. QED
    BY <1>8, <2>2, <2>3 DEF Move
<1>9. ASSUME NEW x \in Actors, KeyStep(x) PROVE PendingInv'
  BY <1>9, <1>3, <1>5 DEF KeyStep, FindHome, OpenKey, FillKey, FillKeyFails, OwnKey, Marking,
                          files, decisions
<1>10. ASSUME NEW x \in Actors, NEW step, step # "write", NEW status, NEW by,
              Decide(x, step, status, by)
       PROVE  PendingInv'
  BY <1>4, <1>10 DEF Decide, files, decisions
<1>11. ASSUME NEW h \in Handlers, Submit(h) \/ CheckUser(h) \/ UpdateFails(h) PROVE PendingInv'
  <2>1. h \in Actors
    BY <1>0
  <2>2. CASE Submit(h)
    BY <1>4, <2>1, <2>2 DEF Submit, files, decisions
  <2>3. CASE CheckUser(h) \/ UpdateFails(h)
    BY <1>3, <1>5, <2>1, <2>3 DEF CheckUser, UpdateFails, files, decisions
  <2>4. QED
    BY <1>11, <2>2, <2>3
<1>12. ASSUME NEW h \in Handlers, Create(h) PROVE PendingInv'
  <2>1. h \in Actors
    BY <1>0
  <2>2. CASE Return(h) /\ UNCHANGED << files, decisions >>
    BY <1>5, <2>1, <2>2 DEF files, decisions
  <2>3. CASE PendingOf(req[h].username) = {} /\ Truncate(h)
    BY <1>6, <1>12, <2>3 DEF Create
  <2>4. QED
    BY <1>12, <2>2, <2>3 DEF Create
<1>13. ASSUME NEW h \in Handlers, Update(h) PROVE PendingInv'
  <2>1. ~Asks(h)
    BY <1>0, <1>13, Copies DEF Update, UpdateUnlocked, HandlerAt, Approving, Asks
  <2>2. QED
    BY <1>6, <1>13, <2>1 DEF Update, UpdateUnlocked
<1>14. ASSUME NEW a \in Shells, ReadKey(a) \/ Edit(a) \/ Quit(a) PROVE PendingInv'
  BY <1>0, <1>14, <1>3, <1>4, <1>5 DEF ReadKey, Edit, Quit, files, decisions
<1>15. ASSUME Restart \/ (\E u \in Users : UserDelete(u)) \/ UNCHANGED vars PROVE PendingInv'
  <2>1. UNCHANGED << store, decided >>
    BY <1>15 DEF Restart, UserDelete, vars, files, decisions
  <2>2. \A h \in Handlers : pc'[h] = "write" => pc[h] = "write" /\ req'[h] = req[h]
    BY <1>0, <1>15 DEF Restart, UserDelete, vars, work
  <2>3. QED
    BY <1>1, <2>1, <2>2
<1>16. QED
  <2>1. ASSUME NEW h \in Handlers, \/ Submit(h) \/ ApproveKeyChange(h) \/ RejectKeyChange(h)
                                   \/ HandlerStep(h)
        PROVE  PendingInv'
    BY <1>0, <2>1, <1>7, <1>9, <1>10, <1>11, <1>12, <1>13
       DEF HandlerStep, ApproveKeyChange, RejectKeyChange
  <2>2. ASSUME NEW a \in Shells, KeyApprove(a) \/ KeyReject(a) \/ ShellStep(a)
        PROVE  PendingInv'
    BY <1>0, <2>2, <1>8, <1>9, <1>10, <1>14 DEF ShellStep, KeyApprove, KeyReject
  <2>3. QED
    BY <2>1, <2>2, <1>15 DEF Next

-----------------------------------------------------------------------------
(* Approvals of the API server. *)

\* From the end of FillKey on, the key of an approval is installed.
LEMMA InstallKeep == ASSUME TypeInv, InstallInv, [Next]_vars PROVE InstallInv'
<1>0. /\ Handlers \subseteq Actors /\ Shells \subseteq Actors /\ Handlers \cap Shells = {}
      /\ req \in [Actors -> Request \cup CliRequest \cup {NoRequest}] /\ pc \in [Actors -> Steps]
      /\ store \in [Ids -> Request \cup {NoFile, Empty}]
      /\ NoFile \notin Request /\ Empty \notin Request /\ NoFile # Empty
  BY KeyChangeAssumption DEF Actors, TypeInv, ActorsInv, FilesInv
<1> DEFINE Done(h) ==
      /\ pc[h] \in {"update", "write"} => req[h].id \in installed
      /\ pc[h] = "own-key" /\ req[h].username \in accounts => req[h].id \in installed
\* Files change in nothing but contents that are all right, and actors but for x
\* not at all.
<1>1. ASSUME installed \subseteq installed', accounts' \subseteq accounts,
             \A i \in Ids : \/ store'[i] = store[i]
                            \/ store'[i] = Empty
                            \/ store'[i].status = "approved" /\ store'[i].by = "api"
                                 => i \in installed',
             \A h \in Handlers : \/ pc'[h] = pc[h] /\ req'[h] = req[h]
                                 \/ Approves(h)' => Done(h)'
      PROVE  InstallInv'
  <2>1. ApiApprovalInstalledKey'
    BY <1>1 DEF InstallInv, ApiApprovalInstalledKey, Readable
  <2>2. ASSUME NEW h \in Handlers, Approves(h)' PROVE Done(h)'
    BY <1>1, <2>2 DEF InstallInv, Approves
  <2>3. QED
    BY <2>1, <2>2 DEF InstallInv
<1>2. ASSUME NEW x \in Actors, NEW step, NEW r, Work(x, step, r),
             r.status = "approved" => step \notin {"update", "write", "own-key"},
             UNCHANGED << store, installed, accounts >>
      PROVE  InstallInv'
  BY <1>0, <1>1, <1>2 DEF Work, Approves
<1>3. ASSUME NEW x \in Actors, NEW step, Goto(x, step), UNCHANGED << store, installed, accounts >>,
             step \notin {"update", "write", "own-key"}
      PROVE  InstallInv'
  BY <1>0, <1>1, <1>3 DEF Goto
<1>4. ASSUME NEW x \in Actors, Return(x), UNCHANGED << store, installed, accounts >>
      PROVE  InstallInv'
  BY <1>2, <1>4 DEF Return
<1>5. ASSUME NEW h \in Handlers, Truncate(h), pc[h] \in {"create", "update"} PROVE InstallInv'
  <2>1. req[h].id \in Ids /\ HandlerAt(pc[h], req[h]) /\ h \in Actors
    BY <1>0, <1>5, Copies
  <2>2. Approves(h) => req[h].id \in installed
    BY <1>5, <2>1 DEF HandlerAt, Approving, Approves, InstallInv, NoRequest
  <2>3. \A i \in Ids : store'[i] = store[i] \/ store'[i] = Empty
    BY <1>0, <1>5, <2>1 DEF Truncate, Put
  <2>4. UNCHANGED << installed, accounts, req >> /\ pc' = [pc EXCEPT ![h] = "write"]
    BY <1>5 DEF Truncate, Goto, home
  <2>5. QED
    BY <1>0, <1>1, <2>1, <2>2, <2>3, <2>4 DEF Approves
<1>6. ASSUME NEW h \in Handlers, Write(h) PROVE InstallInv'
  <2>1. req[h].id \in Ids /\ h \in Actors /\ pc[h] = "write"
    BY <1>0, <1>6, Copies DEF Write
  <2>2. UNCHANGED << installed, accounts >> /\ Return(h)
    BY <1>6 DEF Write, home
  <2>3. CASE UNCHANGED store
    BY <1>4, <2>1, <2>2, <2>3
  <2>4. CASE Put(req[h].id, req[h])
    <3>1. \A i \in Ids : \/ store'[i] = store[i]
                         \/ i = req[h].id /\ store'[i] = req[h]
      BY <1>0, <2>1, <2>4 DEF Put
    <3>2. req[h].status = "approved" => req[h].id \in installed
      BY <2>1 DEF InstallInv, Approves
    <3>3. \A g \in Handlers : (pc'[g] = pc[g] /\ req'[g] = req[g]) \/ ~Approves(g)'
      BY <1>0, <2>1, <2>2 DEF Return, Work, Approves, NoRequest
    <3>4. QED
      BY <1>1, <2>2, <3>1, <3>2, <3>3
  <2>5. QED
    BY <1>6, <2>3, <2>4 DEF Write
<1>7. ASSUME NEW a \in Shells, Move(a) PROVE InstallInv'
  <2>1. req[a].id \in Ids /\ a \in Actors /\ a \notin Handlers
    BY <1>0, <1>7, Copies DEF Move
  <2>2. UNCHANGED << installed, accounts >> /\ Return(a)
    BY <1>7 DEF Move, home
  <2>3. CASE UNCHANGED store
    BY <1>4, <2>1, <2>2, <2>3
  <2>4. CASE tmpFile[req[a].id] # NoFile /\ Put(req[a].id, tmpFile[req[a].id])
    <3>1. \A i \in Ids : \/ store'[i] = store[i] \/ store'[i] = Empty
                         \/ store'[i].by = "cli"
      BY <1>0, <2>1, <2>4 DEF Put, TypeInv, FilesInv, FileOK
    <3>2. \A g \in Handlers : pc'[g] = pc[g] /\ req'[g] = req[g]
      BY <1>0, <2>1, <2>2 DEF Return, Work
    <3>3. QED
      BY <1>1, <2>2, <3>1, <3>2
  <2>5. QED
    BY <1>7, <2>3, <2>4 DEF Move, files
<1>8. ASSUME NEW x \in Actors, KeyStep(x) PROVE InstallInv'
  <2>1. CASE FindHome(x)
    BY <1>3, <1>4, <2>1 DEF FindHome, files, home
  <2>2. CASE OpenKey(x)
    BY <1>3, <1>4, <2>2 DEF OpenKey, files
  <2>3. CASE FillKeyFails(x)
    BY <1>4, <2>3 DEF FillKeyFails, files, home
  <2>4. CASE FillKey(x)
    <3>1. UNCHANGED << store, accounts >> /\ installed \subseteq installed' /\ req' = req
      BY <2>4 DEF FillKey, files, Goto
    <3>2. ASSUME x \in Handlers, req[x].username \in accounts PROVE req[x].id \in installed'
      <4>1. authorizedKeys[req[x].username] # NoFile
        BY <3>2 DEF TypeInv, HomeInv
      <4>2. req[x].key # Empty
        <5>1. req[x] \in Request
          BY <2>4, <3>2, Copies DEF FillKey
        <5>2. req[x].key \in Ids
          BY <5>1 DEF Request
        <5>3. QED
          BY <5>2, KeyChangeAssumption DEF Ids
      <4>3. QED
        BY <2>4, <4>1, <4>2 DEF FillKey
    <3>3. pc' = [pc EXCEPT ![x] = "own-key"]
      BY <2>4 DEF FillKey, Goto
    <3>4. QED
      BY <1>0, <1>1, <3>1, <3>2, <3>3
  <2>5. CASE OwnKey(x)
    <3>1. UNCHANGED << store, installed, accounts >>
      BY <2>5 DEF OwnKey, files, home
    <3>2. CASE Return(x)
      BY <1>4, <3>1, <3>2
    <3>3. CASE req[x].username \in accounts /\ Goto(x, Marking(x))
      <4>1. x \in Handlers /\ Approves(x) => req[x].id \in installed
        BY <2>5, <3>3 DEF OwnKey, InstallInv
      <4>2. QED
        BY <1>0, <1>1, <3>1, <3>3, <4>1 DEF Goto, Marking, Approves
    <3>4. QED
      BY <2>5, <3>2, <3>3 DEF OwnKey
  <2>6. QED
    BY <1>8, <2>1, <2>2, <2>3, <2>4, <2>5 DEF KeyStep
<1>9. ASSUME NEW x \in Actors, NEW step, NEW status, NEW by, Decide(x, step, status, by),
             status = "approved" => step = "find-home"
      PROVE  InstallInv'
  <2>1. PICK i \in Readable : Work(x, step, [store[i] EXCEPT !.status = status, !.by = by])
    BY <1>9 DEF Decide, PendingOf
  <2>2. store[i] \in Request
    BY <1>0 DEF Readable
  <2>3. [store[i] EXCEPT !.status = status, !.by = by].status = status
    BY <2>2 DEF Request
  <2>4. UNCHANGED << store, installed, accounts >>
    BY <1>9 DEF Decide, files, home
  <2>5. QED
    BY <1>2, <1>9, <2>1, <2>3, <2>4
<1>10. ASSUME NEW h \in Handlers, Submit(h) PROVE InstallInv'
  BY <1>0, <1>2, <1>10 DEF Submit, files, home
<1>11. ASSUME NEW h \in Handlers, CheckUser(h) \/ UpdateFails(h) PROVE InstallInv'
  BY <1>0, <1>3, <1>4, <1>11 DEF CheckUser, UpdateFails, files, home
<1>12. ASSUME NEW h \in Handlers, Create(h) \/ Update(h) PROVE InstallInv'
  <2>1. CASE Truncate(h)
    BY <1>5, <1>12, <2>1 DEF Create, Update, UpdateUnlocked
  <2>2. CASE Return(h) /\ UNCHANGED << files, home >>
    BY <1>0, <1>4, <2>2 DEF files, home
  <2>3. QED
    BY <1>12, <2>1, <2>2 DEF Create, Update, UpdateUnlocked
<1>13. ASSUME NEW a \in Shells, ReadKey(a) \/ Edit(a) \/ Quit(a) PROVE InstallInv'
  BY <1>0, <1>13, <1>2, <1>3, <1>4 DEF ReadKey, Edit, Quit, files, home
<1>14. ASSUME Restart \/ (\E u \in Users : UserDelete(u)) \/ UNCHANGED vars PROVE InstallInv'
  <2>1. UNCHANGED << store, installed >> /\ accounts' \subseteq accounts
    BY <1>14 DEF Restart, UserDelete, vars, files, home
  <2>2. \A h \in Handlers : \/ pc'[h] = pc[h] /\ req'[h] = req[h]
                            \/ pc'[h] = "idle"
    BY <1>0, <1>14 DEF Restart, UserDelete, vars, work
  <2>3. QED
    BY <1>1, <2>1, <2>2
<1>15. QED
  <2>1. ASSUME NEW h \in Handlers, \/ Submit(h) \/ ApproveKeyChange(h) \/ RejectKeyChange(h)
                                   \/ HandlerStep(h)
        PROVE  InstallInv'
    BY <1>0, <2>1, <1>6, <1>8, <1>9, <1>10, <1>11, <1>12
       DEF HandlerStep, ApproveKeyChange, RejectKeyChange
  <2>2. ASSUME NEW a \in Shells, KeyApprove(a) \/ KeyReject(a) \/ ShellStep(a)
        PROVE  InstallInv'
    BY <1>0, <2>2, <1>7, <1>8, <1>9, <1>13 DEF ShellStep, KeyApprove, KeyReject
  <2>3. QED
    BY <2>1, <2>2, <1>14 DEF Next

-----------------------------------------------------------------------------
(* Keys and decisions, until there is trouble. *)

\* Two who decide work on two files: their users differ, and the files say so.
LEMMA DecidersApart ==
  ASSUME TypeInv, KeyInv, NEW x \in Actors, NEW y \in Actors, x # y, Decides(x), Decides(y)
  PROVE  req[x].username # req[y].username /\ req[x].id # req[y].id
<1>1. req[x].username # req[y].username
  BY DEF KeyInv, OneDecides
<1>2. ~(pc[x] = "write" /\ pc[y] = "write")
  <2>1. ASSUME NEW z \in Actors, pc[z] = "write" PROVE z \in Handlers
    BY <2>1 DEF TypeInv, ActorsInv, At, ShellAt, Approving
  <2>2. QED
    BY <2>1 DEF TypeInv, ActorsInv
<1>3. DecisionOK(x) /\ DecisionOK(y)
  BY DEF KeyInv
<1>4. QED
  BY <1>1, <1>2, <1>3, KeyChangeAssumption DEF DecisionOK

\* What one who decides does with the file of its request and the key of its user
\* disturbs nobody else; so only its own part is left to show.
LEMMA DeciderActs ==
  ASSUME TypeInv, KeyInv, NEW x \in Actors, Decides(x),
         NEW i \in Ids, NEW v \in Users, i = req[x].id, v = req[x].username,
         \A j \in Ids : j # i =>
           store'[j] = store[j] /\ tmpFile'[j] = tmpFile[j] /\ (j \in decided' <=> j \in decided),
         \A u \in Users : u # v => authorizedKeys'[u] = authorizedKeys[u] /\ last'[u] = last[u],
         accounts' = accounts,
         \A y \in Actors : y # x => req'[y] = req[y] /\ pc'[y] = pc[y],
         \/ /\ req'[x] = NoRequest
            /\ v \in accounts => authorizedKeys'[v] = Current(v)'
         \/ /\ req'[x].status = req[x].status /\ req'[x].username = v
            /\ DecisionOK(x)',
         last'[v] # 0 => last'[v] \in decided' /\ store'[last'[v]] \in Request
  PROVE  KeyInv'
<1>0. accounts \subseteq Users /\ last \in [Users -> {0} \cup Ids]
  BY DEF TypeInv, HomeInv, FilesInv
<1>1. DecisionOK(x)
  BY DEF KeyInv
<1>2. \A u \in Users : last[u] # 0 => last[u] \in decided /\ store[last[u]] \in Request
  BY DEF KeyInv
<1>3. \A u \in Users : u # v => Current(u)' = Current(u)
  BY <1>0, <1>1, <1>2 DEF Current, DecisionOK
<1>4. Decides(x)' => DecisionOK(x)' /\ req'[x].username = v
  BY DEF Decides, Approves, Rejects, NoRequest
<1>5. ASSUME NEW y \in Actors, y # x, Decides(y)' PROVE DecisionOK(y)' /\ req'[y].username # v
  <2>1. Decides(y) /\ req'[y] = req[y] /\ pc'[y] = pc[y]
    BY <1>5 DEF Decides, Approves, Rejects
  <2>2. req[y].username # v /\ req[y].id # i /\ req[y].id \in Ids /\ req[y].username \in Users
    BY <1>5, <2>1, DecidersApart, Copies DEF Decides, Approves, Rejects, NoRequest
  <2>3. DecisionOK(y)
    BY <2>1 DEF KeyInv
  <2>4. PICK w \in Users : w = req[y].username /\ w # v
    BY <2>2
  <2>5. /\ store'[req[y].id] = store[req[y].id] /\ tmpFile'[req[y].id] = tmpFile[req[y].id]
        /\ req[y].id \in decided' <=> req[y].id \in decided
        /\ authorizedKeys'[req[y].username] = authorizedKeys[req[y].username]
    BY <2>2
  <2>6. Current(w)' = Current(w)
    BY <1>3, <2>4
  <2>7. QED
    BY <2>1, <2>2, <2>3, <2>4, <2>5, <2>6 DEF DecisionOK, Approves
<1>6. OneDecides'
  <2>1. ASSUME NEW y \in Actors, NEW z \in Actors, y # x, z # x, Decides(y)', Decides(z)',
               req'[y].username = req'[z].username
        PROVE  y = z
    BY <2>1 DEF KeyInv, OneDecides, Decides, Approves, Rejects
  <2>2. QED
    BY <1>4, <1>5, <2>1 DEF OneDecides
<1>7. ASSUME NEW u \in accounts, \A y \in Actors : Decides(y)' => req'[y].username # u
      PROVE  authorizedKeys'[u] = Current(u)'
  <2>1. CASE u = v
    BY <1>7, <2>1 DEF Decides, Approves, Rejects
  <2>2. CASE u # v
    <3>1. \A y \in Actors : Decides(y) => req[y].username # u
      BY <1>7, <2>2 DEF Decides, Approves, Rejects
    <3>2. authorizedKeys[u] = Current(u)
      BY <3>1 DEF KeyInv
    <3>3. QED
      BY <1>0, <1>3, <2>2, <3>2
  <2>3. QED
    BY <2>1, <2>2
<1>8. ASSUME NEW u \in Users, last'[u] # 0
      PROVE  last'[u] \in decided' /\ store'[last'[u]] \in Request
  BY <1>0, <1>1, <1>2, <1>8 DEF DecisionOK
<1>9. QED
  BY <1>4, <1>5, <1>6, <1>7, <1>8 DEF KeyInv

\* Nor does a step disturb anybody that only touches files nobody decides about.
LEMMA OthersAct ==
  ASSUME TypeInv, KeyInv, NEW S \in SUBSET Ids, S \cap decided = {},
         \A x \in Actors : Decides(x) => req[x].id \notin S,
         \A j \in Ids \ S : store'[j] = store[j] /\ tmpFile'[j] = tmpFile[j],
         UNCHANGED decisions,
         accounts' \subseteq accounts,
         \A u \in accounts' : authorizedKeys'[u] = authorizedKeys[u],
         \A x \in Actors : Decides(x) \/ Decides(x)' => req'[x] = req[x] /\ pc'[x] = pc[x]
  PROVE  KeyInv'
<1>0. /\ accounts \subseteq Users /\ last \in [Users -> {0} \cup Ids]
      /\ decided' = decided /\ last' = last
  BY DEF TypeInv, HomeInv, FilesInv, decisions
<1>1. \A u \in Users : last[u] # 0 => last[u] \in decided /\ store[last[u]] \in Request
  BY DEF KeyInv
<1>2. \A u \in Users : last[u] # 0 => last[u] \in Ids \ S
  BY <1>0, <1>1
<1>3. \A u \in Users : Current(u)' = Current(u)
  BY <1>0, <1>2 DEF Current
<1>4. \A x \in Actors : Decides(x)' <=> Decides(x)
  BY DEF Decides, Approves, Rejects
<1>5. ASSUME NEW x \in Actors, Decides(x)' PROVE DecisionOK(x)'
  <2>1. Decides(x) /\ req'[x] = req[x] /\ pc'[x] = pc[x] /\ DecisionOK(x)
    BY <1>4, <1>5 DEF KeyInv
  <2>2. req[x].id \in Ids \ S /\ req[x].username \in Users
    BY <2>1, Copies DEF Decides, Approves, Rejects, NoRequest
  <2>3. PICK w \in Users : w = req[x].username /\ Current(w)' = Current(w)
    BY <1>3, <2>2
  <2>4. store'[req[x].id] = store[req[x].id] /\ tmpFile'[req[x].id] = tmpFile[req[x].id]
    BY <2>2
  <2>5. QED
    BY <1>0, <2>1, <2>2, <2>3, <2>4 DEF DecisionOK, Approves
<1>6. OneDecides'
  BY <1>4 DEF KeyInv, OneDecides
<1>7. ASSUME NEW u \in accounts', \A x \in Actors : Decides(x)' => req'[x].username # u
      PROVE  authorizedKeys'[u] = Current(u)'
  <2>1. \A x \in Actors : Decides(x) => req[x].username # u
    BY <1>4, <1>7
  <2>2. authorizedKeys[u] = Current(u)
    BY <2>1 DEF KeyInv
  <2>3. QED
    BY <1>0, <1>3, <2>2
<1>8. \A u \in Users : last'[u] # 0 => last'[u] \in decided' /\ store'[last'[u]] \in Request
  BY <1>0, <1>1, <1>2
<1>9. QED
  BY <1>5, <1>6, <1>7, <1>8 DEF KeyInv

\* A decision ends by putting what was decided into the file of the request.
LEMMA DecisionEnds ==
  ASSUME TypeInv, KeyInv, NEW x \in Actors, Decides(x), NEW i \in Ids, NEW v \in Users,
         i = req[x].id, v = req[x].username,
         pc[x] \in {"write", "move"}, Return(x),
         NEW c \in Request, Put(i, c), c.username = v, c.key = req[x].key,
         c.status = req[x].status,
         \A j \in Ids : j # i => tmpFile'[j] = tmpFile[j],
         UNCHANGED home
  PROVE  KeyInv'
<1>0. /\ store \in [Ids -> Request \cup {NoFile, Empty}] /\ decided \subseteq Ids
      /\ last \in [Users -> {0} \cup Ids] /\ Empty \notin Request /\ i # 0
      /\ req \in [Actors -> Request \cup CliRequest \cup {NoRequest}] /\ pc \in [Actors -> Steps]
  BY KeyChangeAssumption DEF TypeInv, FilesInv, ActorsInv, Ids
<1>1. /\ DecisionOK(x)
      /\ last[v] # 0 => last[v] \in decided /\ store[last[v]] \in Request
  BY DEF KeyInv
<1>2. i \notin decided
  BY <1>1 DEF DecisionOK
<1>3. /\ store'[i] = c /\ \A j \in Ids : j # i => store'[j] = store[j]
      /\ decided' = decided \cup {i}
      /\ last' = IF Approves(x) THEN [last EXCEPT ![v] = i] ELSE last
  BY <1>0 DEF Put, Decides, Approves, Rejects
<1>4. v \in accounts => authorizedKeys[v] = IF Approves(x) THEN req[x].key ELSE Current(v)
  BY <1>1 DEF DecisionOK
<1>5. v \in accounts => authorizedKeys'[v] = Current(v)'
  <2>1. CASE Approves(x)
    BY <1>0, <1>3, <1>4, <2>1 DEF Current, home
  <2>2. CASE ~Approves(x)
    BY <1>0, <1>1, <1>2, <1>3, <1>4, <2>2 DEF Current, home
  <2>3. QED
    BY <2>1, <2>2
<1>6. last'[v] # 0 => last'[v] \in decided' /\ store'[last'[v]] \in Request
  BY <1>0, <1>1, <1>2, <1>3
<1>7. req'[x] = NoRequest /\ \A y \in Actors : y # x => req'[y] = req[y] /\ pc'[y] = pc[y]
  BY <1>0 DEF Return, Work
<1>8. \A j \in Ids : j # i => (j \in decided' <=> j \in decided)
  BY <1>3
<1>9. \A u \in Users : u # v => authorizedKeys'[u] = authorizedKeys[u] /\ last'[u] = last[u]
  BY <1>0, <1>3 DEF home
<1>10. QED
  BY <1>3, <1>5, <1>6, <1>7, <1>8, <1>9, DeciderActs DEF home

\* What one who decides does to the key of its user, and to no file.
LEMMA KeyStepKeeps ==
  ASSUME TypeInv, KeyInv, ~trouble', NEW x \in Actors, KeyStep(x)
  PROVE  KeyInv'
<1>0. /\ req \in [Actors -> Request \cup CliRequest \cup {NoRequest}] /\ pc \in [Actors -> Steps]
      /\ authorizedKeys \in [Users -> Ids \cup {FirstKey, NoFile, Empty}]
      /\ pc[x] # "idle"
  BY DEF TypeInv, ActorsInv, HomeInv, KeyStep, FindHome, OpenKey, FillKey, FillKeyFails, OwnKey
<1>1. PICK i \in Ids, v \in Users : i = req[x].id /\ v = req[x].username
  BY <1>0, Copies
<1>2. Approves(x)
  BY <1>0, Copies DEF KeyStep, FindHome, OpenKey, FillKey, FillKeyFails, OwnKey, HandlerAt,
                      ShellAt, Approving, Approves, Actors
<1>3. Decides(x) /\ DecisionOK(x) /\ (v \in accounts => authorizedKeys[v] # NoFile)
  BY <1>2 DEF Decides, KeyInv, TypeInv, HomeInv
<1>4. UNCHANGED << files, decisions, accounts >>
  BY DEF KeyStep, FindHome, OpenKey, FillKey, FillKeyFails, OwnKey, home
<1>5. \A u \in Users : u # v => authorizedKeys'[u] = authorizedKeys[u]
  BY <1>0, <1>1
     DEF KeyStep, FindHome, OpenKey, FillKey, FillKeyFails, OwnKey, SetKeys, home
<1>6. \A y \in Actors : y # x => req'[y] = req[y] /\ pc'[y] = pc[y]
  BY <1>0 DEF KeyStep, FindHome, OpenKey, FillKey, FillKeyFails, OwnKey, Goto, Return, Work
<1>7. last'[v] # 0 => last'[v] \in decided' /\ store'[last'[v]] \in Request
  BY <1>4 DEF KeyInv, files, decisions
<1>8. SUFFICES \/ req'[x] = NoRequest /\ v \notin accounts
               \/ req' = req /\ DecisionOK(x)'
  BY <1>1, <1>3, <1>4, <1>5, <1>6, <1>7, DeciderActs DEF files, decisions
<1>9. CASE FindHome(x)
  <2>1. CASE Return(x) /\ v \notin accounts
    BY <1>0, <2>1 DEF Return, Work
  <2>2. ASSUME NEW step \in {"read-key", "open-key"}, Goto(x, step) PROVE req' = req /\ DecisionOK(x)'
    <3>1. req' = req /\ pc'[x] = step /\ pc[x] = "find-home"
      BY <1>0, <1>9, <2>2 DEF Goto, FindHome
    <3>2. UNCHANGED << store, tmpFile, decided, last, accounts, authorizedKeys >>
      BY <1>4, <1>9 DEF FindHome, files, decisions, home
    <3>3. QED
      BY <1>3, <2>2, <3>1, <3>2 DEF DecisionOK, Current, Approves
  <2>3. QED
    BY <1>1, <1>9, <2>1, <2>2 DEF FindHome
<1>10. CASE OpenKey(x)
  <2>1. CASE Return(x) /\ authorizedKeys[v] = NoFile
    BY <1>0, <1>3, <2>1 DEF Return, Work
  <2>2. CASE Goto(x, "fill-key")
    <3>1. req' = req /\ pc'[x] = "fill-key" /\ pc[x] = "open-key"
      BY <1>0, <1>10, <2>2 DEF Goto, OpenKey
    <3>2. QED
      BY <1>3, <1>4, <3>1 DEF DecisionOK, files, decisions
  <2>3. QED
    BY <1>1, <1>10, <2>1, <2>2 DEF OpenKey
<1>11. CASE FillKey(x)
  <2>1. req' = req /\ pc'[x] = "own-key" /\ pc[x] = "fill-key"
    BY <1>0, <1>11 DEF Goto, FillKey
  <2>2. v \in accounts => authorizedKeys'[v] = req[x].key
    BY <1>0, <1>1, <1>3, <1>11 DEF FillKey, SetKeys
  <2>3. QED
    BY <1>1, <1>2, <1>3, <1>4, <2>1, <2>2 DEF DecisionOK, files, decisions, Approves
<1>12. CASE OwnKey(x)
  <2>1. Goto(x, Marking(x)) /\ UNCHANGED << files, home, decisions >>
    BY <1>12 DEF OwnKey, Trouble
  <2>2. req' = req /\ pc'[x] \in {"edit", "update"} /\ pc[x] = "own-key"
    BY <1>0, <1>12, <2>1 DEF Goto, OwnKey, Marking
  <2>3. QED
    BY <1>2, <1>3, <2>1, <2>2 DEF DecisionOK, files, home, decisions, Approves
<1>13. QED
  BY <1>9, <1>10, <1>11, <1>12 DEF KeyStep, FillKeyFails, Trouble

\* Until there is trouble, keys and decisions agree.
LEMMA KeyKeep ==
  ASSUME TypeInv, FreshInv, PendingInv, KeyInv, ~trouble, ~trouble', [Next]_vars
  PROVE  KeyInv'
<1>0. /\ Handlers \subseteq Actors /\ Shells \subseteq Actors /\ Handlers \cap Shells = {}
      /\ req \in [Actors -> Request \cup CliRequest \cup {NoRequest}] /\ pc \in [Actors -> Steps]
      /\ store \in [Ids -> Request \cup {NoFile, Empty}]
      /\ NoFile \notin Request /\ Empty \notin Request /\ NoFile # Empty
  BY KeyChangeAssumption DEF Actors, TypeInv, ActorsInv, FilesInv
<1>1. ASSUME UNCHANGED << files, decisions >>, accounts' \subseteq accounts,
              \A u \in accounts' : authorizedKeys'[u] = authorizedKeys[u],
              \A x \in Actors : Decides(x) \/ Decides(x)' => req'[x] = req[x] /\ pc'[x] = pc[x]
       PROVE  KeyInv'
  <2>1. PICK S \in SUBSET Ids : S = {}
    OBVIOUS
  <2>2. S \cap decided = {} /\ \A x \in Actors : Decides(x) => req[x].id \notin S
    BY <2>1
  <2>3. \A j \in Ids \ S : store'[j] = store[j] /\ tmpFile'[j] = tmpFile[j]
    BY <1>1 DEF files
  <2>4. QED
    BY <1>1, <2>2, <2>3, OthersAct
<1>2. ASSUME NEW x \in Actors, ~Decides(x), ~Decides(x)',
             \A y \in Actors : y # x => req'[y] = req[y] /\ pc'[y] = pc[y],
             UNCHANGED << files, decisions, home >>
      PROVE  KeyInv'
  <2>1. \A y \in Actors : Decides(y) \/ Decides(y)' => req'[y] = req[y] /\ pc'[y] = pc[y]
    BY <1>2
  <2>2. QED
    BY <1>2, <1>1, <2>1 DEF home
<1>3. ASSUME NEW x \in Actors, ~Decides(x), Return(x), UNCHANGED << files, decisions, home >>
      PROVE  KeyInv'
  BY <1>0, <1>2, <1>3 DEF Return, Work, Decides, Approves, Rejects, NoRequest
<1>4. ASSUME NEW h \in Handlers, pc[h] \in {"create", "write"}, Asks(h),
             \A j \in Ids : j # req[h].id => store'[j] = store[j], tmpFile' = tmpFile,
             UNCHANGED << decisions, home >>,
             \A y \in Actors : y # h => req'[y] = req[y] /\ pc'[y] = pc[y],
             ~Decides(h)'
      PROVE  KeyInv'
  <2>1. Fresh(h) /\ req[h].id \in Ids /\ h \in Actors /\ ~Decides(h)
    BY <1>0, <1>4, Copies DEF FreshInv, Asks, Decides, Approves, Rejects
  <2>2. \A x \in Actors : Decides(x) => req[x].id \notin {req[h].id}
    BY <2>1 DEF Fresh
  <2>3. {req[h].id} \cap decided = {} /\ {req[h].id} \in SUBSET Ids
    BY <2>1 DEF Fresh
  <2>4. \A x \in Actors : Decides(x) \/ Decides(x)' => req'[x] = req[x] /\ pc'[x] = pc[x]
    BY <1>4, <2>1
  <2>5. QED
    BY <1>4, <2>2, <2>3, <2>4, OthersAct DEF home
<1>5. ASSUME NEW x \in Actors, NEW step \in {"find-home", "update", "edit"},
             NEW status \in {"approved", "rejected"}, NEW by, Decide(x, step, status, by),
             status = "approved" => step = "find-home"
      PROVE  KeyInv'
  <2>1. PICK u \in Users, i \in Ids :
          /\ i \in PendingOf(u)
          /\ Work(x, step, [store[i] EXCEPT !.status = status, !.by = by])
          /\ Deciders(u) = {}
    <3>1. PICK u \in Users : \E i \in PendingOf(u) :
            /\ Work(x, step, [store[i] EXCEPT !.status = status, !.by = by])
            /\ Deciders(u) = {}
      BY <1>5 DEF Decide, Trouble
    <3>2. QED
      BY <3>1 DEF PendingOf, Readable
  <2> DEFINE r == [store[i] EXCEPT !.status = status, !.by = by]
  <2>2. store[i] \in Request /\ store[i].id = i /\ store[i].username = u /\ store[i].status = "pending"
        /\ i \in Readable
    BY <1>0, <2>1 DEF PendingOf, Readable, TypeInv, FilesInv, FileOK
  <2>3. r.id = i /\ r.username = u /\ r.key = store[i].key /\ r.status = status
    BY <2>2 DEF Request
  <2>4. pc[x] = "idle" /\ UNCHANGED << files, decisions, home >>
    BY <1>5 DEF Decide
  <2> HIDE DEF r
  <2>5. /\ pc'[x] = step /\ req'[x] = r
        /\ \A y \in Actors : y # x => req'[y] = req[y] /\ pc'[y] = pc[y]
    BY <1>0, <2>1 DEF Work, r
  <2>6. \A y \in Actors : Decides(y) => req[y].username # u
    BY <2>1 DEF Deciders, Decides, Approves, Rejects
  <2>7. UNCHANGED << store, tmpFile, decided, last, accounts, authorizedKeys >>
    BY <2>4 DEF files, decisions, home
  <2>8. DecisionOK(x)'
    <3>1. i \notin decided
      BY <2>2 DEF PendingInv, NeverReopened
    <3>2. u \in accounts => authorizedKeys[u] = Current(u)
      BY <2>6 DEF KeyInv
    <3>3. QED
      BY <1>5, <2>2, <2>3, <2>5, <2>7, <3>1, <3>2 DEF DecisionOK, Current, Approves
  <2>9. ASSUME NEW y \in Actors, y # x, Decides(y)'
        PROVE  Decides(y) /\ DecisionOK(y)' /\ req'[y].username # u
    <3>1. Decides(y) /\ DecisionOK(y)
      BY <2>5, <2>9 DEF Decides, Approves, Rejects, KeyInv
    <3>2. QED
      BY <2>5, <2>6, <2>7, <2>9, <3>1 DEF DecisionOK, Current, Approves
  <2>10. OneDecides'
    <3>1. ASSUME NEW y \in Actors, NEW z \in Actors, y # x, z # x, Decides(y)', Decides(z)',
                 req'[y].username = req'[z].username
          PROVE  y = z
      BY <2>5, <2>9, <3>1 DEF KeyInv, OneDecides
    <3>2. QED
      BY <2>3, <2>5, <2>9, <3>1 DEF OneDecides
  <2>11. ASSUME NEW w \in accounts, \A y \in Actors : Decides(y)' => req'[y].username # w
         PROVE  authorizedKeys'[w] = Current(w)'
    <3>1. ~Decides(x)
      BY <2>4, <2>6 DEF TypeInv, ActorsInv, At, HandlerAt, ShellAt, Approving,
                        Decides, Approves, Rejects, NoRequest
    <3>2. \A y \in Actors : Decides(y) => req[y].username # w
      BY <2>5, <2>11, <3>1 DEF Decides, Approves, Rejects
    <3>3. QED
      BY <2>7, <3>2 DEF KeyInv, Current
  <2>12. QED
    BY <2>7, <2>8, <2>9, <2>10, <2>11 DEF KeyInv
<1>6. ASSUME NEW h \in Handlers, Submit(h) PROVE KeyInv'
  <2>1. ~Decides(h)
    <3>1. pc[h] = "idle" /\ HandlerAt(pc[h], req[h])
      BY <1>0, <1>6 DEF Submit, TypeInv, ActorsInv, At
    <3>2. QED
      BY <3>1 DEF HandlerAt, Approving, Decides, Approves, Rejects, NoRequest
  <2>2. PICK u \in Users : Work(h, "check-user", [id |-> issued', username |-> u,
                                key |-> issued', status |-> "pending", by |-> ""])
    BY <1>6 DEF Submit
  <2>3. req'[h].status = "pending" /\ \A y \in Actors : y # h => req'[y] = req[y] /\ pc'[y] = pc[y]
    BY <1>0, <2>2 DEF Work
  <2>4. UNCHANGED << files, decisions, home >>
    BY <1>6 DEF Submit
  <2>5. QED
    BY <1>0, <1>2, <2>1, <2>3, <2>4 DEF Decides, Approves, Rejects
<1>7. ASSUME NEW h \in Handlers, CheckUser(h) PROVE KeyInv'
  <2>1. ~Decides(h) /\ h \in Actors
    BY <1>0, <1>7, Copies DEF CheckUser, HandlerAt, Approving, Decides, Approves, Rejects
  <2>2. CASE Goto(h, "create")
    BY <1>0, <1>2, <1>7, <2>1, <2>2 DEF CheckUser, Goto, Decides, Approves, Rejects
  <2>3. QED
    BY <1>3, <1>7, <2>1, <2>2 DEF CheckUser
<1>8. ASSUME NEW h \in Handlers, Create(h) PROVE KeyInv'
  <2>1. Asks(h) /\ ~Decides(h) /\ h \in Actors /\ req[h].id \in Ids
    BY <1>0, <1>8, Copies DEF Create, HandlerAt, Approving, Asks, Decides, Approves, Rejects
  <2>2. CASE Truncate(h)
    <3>1. /\ \A j \in Ids : j # req[h].id => store'[j] = store[j]
          /\ UNCHANGED << tmpFile, decisions, home, req >>
          /\ \A y \in Actors : y # h => pc'[y] = pc[y]
      BY <1>0, <2>1, <2>2 DEF Truncate, Put, Goto, decisions
    <3>2. QED
      BY <1>4, <1>8, <2>1, <3>1 DEF Create, Decides, Approves, Rejects
  <2>3. QED
    BY <1>3, <1>8, <2>1, <2>2 DEF Create
<1>9. ASSUME NEW h \in Handlers, Write(h) PROVE KeyInv'
  <2>1. /\ h \in Actors /\ req[h].id \in Ids /\ req[h].username \in Users /\ req[h] \in Request
        /\ pc[h] = "write" /\ (Asks(h) \/ Decides(h))
    BY <1>0, <1>9, Copies DEF Write, HandlerAt, Approving, Asks, Decides, Approves, Rejects
  <2>2. Put(req[h].id, req[h]) /\ Return(h) /\ UNCHANGED << tmpFile, home >>
    BY <1>9 DEF Write, Trouble
  <2>3. CASE Decides(h)
    BY <2>1, <2>2, <2>3, DecisionEnds
  <2>4. CASE Asks(h)
    <3>1. (\A j \in Ids : j # req[h].id => store'[j] = store[j]) /\ UNCHANGED decisions
      BY <1>0, <2>1, <2>2, <2>4 DEF Put, Asks, decisions
    <3>2. ~Decides(h)' /\ \A y \in Actors : y # h => req'[y] = req[y] /\ pc'[y] = pc[y]
      BY <1>0, <2>1, <2>2 DEF Return, Work, Decides, Approves, Rejects, NoRequest
    <3>3. QED
      BY <1>4, <2>1, <2>2, <2>4, <3>1, <3>2
  <2>5. QED
    BY <2>1, <2>3, <2>4
<1>10. ASSUME NEW h \in Handlers, Update(h) \/ UpdateFails(h) PROVE KeyInv'
  <2>1. PICK i \in Ids, v \in Users : i = req[h].id /\ v = req[h].username
    BY <1>0, <1>10, Copies DEF Update, UpdateUnlocked, UpdateFails
  <2>2. h \in Actors /\ Decides(h) /\ pc[h] = "update"
    BY <1>0, <1>10, Copies DEF Update, UpdateUnlocked, UpdateFails, HandlerAt, Approving,
                              Decides, Approves, Rejects
  <2>3. DecisionOK(h) /\ (last[v] # 0 => last[v] \in decided /\ store[last[v]] \in Request)
    BY <2>2 DEF KeyInv
  <2>4. i \in Readable
    BY <1>0, <2>1, <2>2, <2>3 DEF DecisionOK, Readable
  <2>5. Truncate(h)
    BY <1>10, <2>1, <2>4 DEF Update, UpdateUnlocked, UpdateFails
  <2>6. /\ store'[i] = Empty /\ \A j \in Ids : j # i => store'[j] = store[j]
        /\ UNCHANGED << tmpFile, decisions, home, req >> /\ pc'[h] = "write"
        /\ \A y \in Actors : y # h => pc'[y] = pc[y]
    BY <1>0, <2>1, <2>2, <2>5 DEF Truncate, Put, Goto, decisions
  <2>7. last \in [Users -> {0} \cup Ids] /\ i \notin decided
    BY <2>1, <2>3 DEF TypeInv, FilesInv, DecisionOK
  <2>8. Current(v)' = Current(v)
    BY <2>3, <2>6, <2>7 DEF Current, decisions
  <2>9. DecisionOK(h)'
    BY <2>1, <2>2, <2>3, <2>6, <2>7, <2>8 DEF DecisionOK, Approves, decisions, home
  <2>10. last'[v] # 0 => last'[v] \in decided' /\ store'[last'[v]] \in Request
    BY <2>3, <2>6, <2>7 DEF decisions
  <2>11. QED
    BY <2>1, <2>2, <2>6, <2>9, <2>10, DeciderActs DEF decisions, home
<1>11. ASSUME NEW a \in Shells, Move(a) PROVE KeyInv'
  <2>1. PICK i \in Ids, v \in Users : i = req[a].id /\ v = req[a].username
    BY <1>0, <1>11, Copies DEF Move
  <2>2. a \in Actors /\ Decides(a) /\ pc[a] = "move"
    BY <1>0, <1>11, Copies DEF Move, ShellAt, Approving, Decides, Approves, Rejects
  <2>3. /\ tmpFile[i] \in Request /\ tmpFile[i].username = v /\ tmpFile[i].key = req[a].key
        /\ tmpFile[i].status = req[a].status
    BY <2>1, <2>2 DEF KeyInv, DecisionOK
  <2>4. Put(i, tmpFile[i]) /\ tmpFile' = [tmpFile EXCEPT ![i] = NoFile] /\ Return(a) /\ UNCHANGED home
    BY <1>0, <1>11, <2>1, <2>3 DEF Move
  <2>5. QED
    BY <2>1, <2>2, <2>3, <2>4, DecisionEnds
<1>12. ASSUME NEW a \in Shells, ReadKey(a) \/ Edit(a) PROVE KeyInv'
  <2>1. PICK i \in Ids, v \in Users : i = req[a].id /\ v = req[a].username
    BY <1>0, <1>12, Copies DEF ReadKey, Edit
  <2>2. a \in Actors /\ Decides(a) /\ pc[a] \in {"read-key", "edit"} /\ req[a] \in CliRequest
    BY <1>0, <1>12, Copies DEF ReadKey, Edit, ShellAt, Approving, Decides, Approves, Rejects
  <2>3. DecisionOK(a) /\ (last[v] # 0 => last[v] \in decided /\ store[last[v]] \in Request)
    BY <2>2 DEF KeyInv
  <2>4. store[i] \in Request /\ store[i].username = v /\ store[i].key = req[a].key /\ i \in Readable
    BY <1>0, <2>1, <2>2, <2>3 DEF DecisionOK, Readable
  <2>5. UNCHANGED << store, decided, last, accounts, authorizedKeys >>
    BY <1>12 DEF ReadKey, Edit, files, decisions, home
  <2>6. CASE ReadKey(a)
    <3> DEFINE r == [req[a] EXCEPT !.key = req[a].key]
    <3>1. Work(a, "open-key", r) /\ tmpFile' = tmpFile /\ pc[a] = "read-key"
      BY <2>1, <2>4, <2>6 DEF ReadKey, files
    <3>2. r.id = i /\ r.username = v /\ r.key = req[a].key /\ r.status = req[a].status
      BY <2>1, <2>2 DEF CliRequest
    <3> HIDE DEF r
    <3>3. /\ pc'[a] = "open-key" /\ req'[a] = r
          /\ \A y \in Actors : y # a => req'[y] = req[y] /\ pc'[y] = pc[y]
      BY <1>0, <2>2, <3>1 DEF Work
    <3>4. DecisionOK(a)'
      BY <2>1, <2>3, <2>5, <3>1, <3>2, <3>3 DEF DecisionOK, Current, Approves
    <3>5. QED
      BY <2>1, <2>2, <2>3, <2>5, <3>1, <3>2, <3>3, <3>4, DeciderActs
  <2>7. CASE Edit(a)
    <3> DEFINE c == [store[i] EXCEPT !.status = req[a].status, !.by = "cli"]
    <3>1. tmpFile' = [tmpFile EXCEPT ![i] = c] /\ Goto(a, "move") /\ pc[a] = "edit"
      BY <2>1, <2>4, <2>7 DEF Edit
    <3>2. req[a].status \in {"approved", "rejected"}
      BY <2>2 DEF CliRequest
    <3>3. c \in Request /\ c.username = v /\ c.key = req[a].key /\ c.status = req[a].status
      BY <2>4, <3>2 DEF Request
    <3> HIDE DEF c
    <3>4. tmpFile'[i] = c /\ \A j \in Ids : j # i => tmpFile'[j] = tmpFile[j]
      BY <3>1 DEF TypeInv, FilesInv
    <3>5. req' = req /\ pc'[a] = "move" /\ \A y \in Actors : y # a => pc'[y] = pc[y]
      BY <1>0, <2>2, <3>1 DEF Goto
    <3>6. DecisionOK(a)'
      BY <2>1, <2>3, <2>5, <3>1, <3>3, <3>4, <3>5 DEF DecisionOK, Current, Approves
    <3>7. QED
      BY <2>1, <2>2, <2>3, <2>5, <3>4, <3>5, <3>6, DeciderActs
  <2>8. QED
    BY <1>12, <2>6, <2>7
<1>13. ASSUME NEW u \in Users, UserDelete(u) PROVE KeyInv'
  <2>1. UNCHANGED << files, decisions, work >> /\ accounts' \subseteq accounts
    BY <1>13 DEF UserDelete
  <2>2. \A w \in accounts' : authorizedKeys'[w] = authorizedKeys[w]
    BY <1>13 DEF UserDelete, SetKeys, TypeInv, HomeInv
  <2>3. \A x \in Actors : req'[x] = req[x] /\ pc'[x] = pc[x]
    BY <2>1 DEF work
  <2>4. QED
    BY <1>1, <2>1, <2>2, <2>3
<1>14. ASSUME Restart \/ UNCHANGED vars PROVE KeyInv'
  <2>1. UNCHANGED << files, decisions, home >>
    BY <1>14 DEF Restart, vars
  <2>2. ASSUME NEW x \in Actors PROVE req'[x] = req[x] /\ pc'[x] = pc[x]
    <3>1. CASE Restart
      <4>1. x \in Handlers => pc[x] = "idle"
        BY <3>1 DEF Restart, Trouble
      <4>2. x \in Handlers => req[x] = NoRequest
        BY <4>1 DEF TypeInv, ActorsInv, At, HandlerAt, Approving
      <4>3. QED
        BY <3>1, <4>1, <4>2 DEF Restart
    <3>2. QED
      BY <1>14, <3>1 DEF vars, work
  <2>3. QED
    BY <1>1, <2>1, <2>2 DEF home
<1>15. QED
  <2>1. ASSUME NEW h \in Handlers, \/ Submit(h) \/ ApproveKeyChange(h) \/ RejectKeyChange(h)
                                   \/ HandlerStep(h)
        PROVE  KeyInv'
    BY <1>0, <2>1, <1>5, <1>6, <1>7, <1>8, <1>9, <1>10, KeyStepKeeps
       DEF HandlerStep, ApproveKeyChange, RejectKeyChange
  <2>2. ASSUME NEW a \in Shells, KeyApprove(a) \/ KeyReject(a) \/ ShellStep(a)
        PROVE  KeyInv'
    BY <1>0, <2>2, <1>5, <1>11, <1>12, KeyStepKeeps
       DEF ShellStep, KeyApprove, KeyReject, Quit, Trouble
  <2>3. QED
    BY <2>1, <2>2, <1>13, <1>14 DEF Next

-----------------------------------------------------------------------------
(* The theorems. *)

LEMMA Initial == Init => IInv
<1> SUFFICES ASSUME Init PROVE IInv
  OBVIOUS
<1>1. /\ store = [i \in Ids |-> NoFile] /\ tmpFile = [i \in Ids |-> NoFile]
      /\ issued = 0 /\ decided = {} /\ installed = {}
      /\ pc = [x \in Actors |-> "idle"] /\ req = [x \in Actors |-> NoRequest]
      /\ last = [u \in Users |-> 0] /\ accounts = Users
      /\ authorizedKeys = [u \in Users |-> FirstKey]
  BY DEF Init
<1>2. Readable = {} /\ \A u : PendingOf(u) = {}
  BY <1>1 DEF Readable, PendingOf
<1>3. \A x \in Actors : req[x] = NoRequest /\ ~Asks(x) /\ ~Approves(x) /\ ~Rejects(x)
  BY <1>1 DEF NoRequest, Asks, Approves, Rejects
<1>4. Handlers \subseteq Actors
  BY DEF Actors
<1>5. FreshInv
  BY <1>1, <1>3, <1>4 DEF FreshInv, NoRequest
<1>6. PendingInv
  BY <1>2, <1>3, <1>4 DEF PendingInv, OnePendingPerUser, NeverReopened
<1>7. InstallInv
  BY <1>2, <1>3, <1>4 DEF InstallInv, ApiApprovalInstalledKey
<1>8. KeyInv
  BY <1>1, <1>3 DEF KeyInv, OneDecides, Decides, Current
<1>9. QED
  BY <1>5, <1>6, <1>7, <1>8, InitialTypes DEF IInv

\* Trouble, once there is any, stays recorded.
LEMMA TroubleStays == ASSUME TypeInv, [Next]_vars, trouble PROVE trouble'
<1>1. trouble' = trouble \/ trouble' = TRUE
  <2>1. ASSUME NEW x \in Actors, KeyStep(x) PROVE trouble' = trouble \/ trouble' = TRUE
    BY <2>1 DEF KeyStep, FindHome, OpenKey, FillKey, FillKeyFails, OwnKey, Trouble
  <2>2. ASSUME NEW x, NEW step, NEW status, NEW by, Decide(x, step, status, by)
        PROVE  trouble' = trouble \/ trouble' = TRUE
    BY <2>2 DEF Decide, Trouble
  <2>3. ASSUME NEW h \in Handlers, \/ Submit(h) \/ ApproveKeyChange(h) \/ RejectKeyChange(h)
                                   \/ HandlerStep(h)
        PROVE  trouble' = trouble \/ trouble' = TRUE
    BY <2>1, <2>2, <2>3 DEF HandlerStep, Submit, ApproveKeyChange, RejectKeyChange, CheckUser,
       Create, Write, Update, UpdateUnlocked, UpdateFails, Truncate, Trouble, Actors
  <2>4. ASSUME NEW a \in Shells, KeyApprove(a) \/ KeyReject(a) \/ ShellStep(a)
        PROVE  trouble' = trouble \/ trouble' = TRUE
    BY <2>1, <2>2, <2>4
       DEF ShellStep, KeyApprove, KeyReject, ReadKey, Edit, Move, Quit, Trouble, Actors
  <2>5. QED
    BY <2>3, <2>4 DEF Next, Restart, UserDelete, vars, Trouble
<1>2. QED
  BY <1>1

\* The invariant holds throughout every behaviour of the code.
THEOREM KeyChangeInvariant == Spec => []IInv
<1>1. Init => IInv
  BY Initial
<1>2. IInv /\ [Next]_vars => IInv'
  <2> SUFFICES ASSUME IInv, [Next]_vars PROVE IInv'
    OBVIOUS
  <2>1. TypeInv'
    BY ActorsKeep, FilesKeep DEF IInv, TypeInv
  <2>2. FreshInv' /\ PendingInv' /\ InstallInv'
    BY FreshKeep, PendingKeep, InstallKeep DEF IInv
  <2>3. ASSUME ~trouble' PROVE KeyInv'
    BY <2>3, TroubleStays, KeyKeep DEF IInv
  <2>4. QED
    BY <2>1, <2>2, <2>3 DEF IInv
<1>3. QED
  BY <1>1, <1>2, PTL DEF Spec

\* Every copy of a request and every file is a request of its own ID or a file
\* caught while it is written, and the store's lock is held by the goroutine that
\* writes and by no other.
THEOREM KeyChangeTypes == Spec => []TypeOK
<1>1. IInv => TypeOK
  <2> SUFFICES ASSUME IInv PROVE TypeOK
    OBVIOUS
  <2>1. TypeInv
    BY DEF IInv
  <2>2. ASSUME NEW x \in Actors
        PROVE  /\ pc[x] = "idle" <=> req[x] = NoRequest
               /\ \/ req[x] \in Request \cup {NoRequest}
                  \/ x \in Shells /\ req[x].key = Empty
    <3>1. req[x] = NoRequest => pc[x] = "idle"
      BY <2>1 DEF TypeInv, ActorsInv, At, HandlerAt, ShellAt, NoRequest, Request, CliRequest, Ids
    <3>2. ASSUME req[x] \in CliRequest, req[x].key # Empty PROVE req[x] \in Request
      BY <3>2 DEF CliRequest, Request
    <3>3. req[x] # NoRequest => req[x] \in Request \/ (x \in Shells /\ req[x] \in CliRequest)
      BY <2>1, Copies DEF Actors
    <3>4. pc[x] = "idle" => req[x] = NoRequest
      BY <2>1 DEF TypeInv, ActorsInv, At, HandlerAt, ShellAt, Approving
    <3>5. QED
      BY <3>1, <3>2, <3>3, <3>4
  <2>3. \A i \in Readable : store[i].id = i
    BY <2>1 DEF TypeInv, FilesInv, FileOK, Readable
  <2>4. last \in [Users -> 0 .. MaxRequests]
    <3>1. {0} \cup Ids \subseteq 0 .. MaxRequests
      BY KeyChangeAssumption DEF Ids
    <3>2. QED
      BY <2>1, <3>1 DEF TypeInv, FilesInv
  <2>5. QED
    BY <2>1, <2>2, <2>3, <2>4 DEF TypeInv, ActorsInv, FilesInv, HomeInv, TypeOK
<1>2. QED
  BY <1>1, KeyChangeInvariant, PTL

\* A user has at most one pending request, and what was decided stays decided,
\* under any number of goroutines and shells, failures and restarts.
THEOREM KeyChangeRequests == Spec => [](OnePendingPerUser /\ NeverReopened)
<1>1. IInv => OnePendingPerUser /\ NeverReopened
  BY DEF IInv, PendingInv
<1>2. QED
  BY <1>1, KeyChangeInvariant, PTL

\* What the API server marks approved had its key installed.
THEOREM KeyChangeApprovals == Spec => []ApiApprovalInstalledKey
<1>1. IInv => ApiApprovalInstalledKey
  BY DEF IInv, InstallInv
<1>2. QED
  BY <1>1, KeyChangeInvariant, PTL

\* Without trouble, the key in force is that of the request last approved.
THEOREM KeyChangeKeys == Spec => []KeyMatchesDecisions
<1>1. IInv => KeyMatchesDecisions
  <2> SUFFICES ASSUME IInv, ~trouble, NEW u \in accounts, Deciders(u) = {}
               PROVE  authorizedKeys[u] = IF last[u] = 0 THEN FirstKey ELSE store[last[u]].key
    BY DEF KeyMatchesDecisions
  <2>1. \A x \in Actors : Decides(x) => req[x].username # u
    BY DEF Deciders, Decides, Approves, Rejects
  <2>2. QED
    BY <2>1 DEF IInv, KeyInv, Current
<1>2. QED
  BY <1>1, KeyChangeInvariant, PTL
=============================================================================
