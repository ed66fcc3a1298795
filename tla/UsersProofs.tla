---------------------------- MODULE UsersProofs ----------------------------
(***************************************************************************)
(* Theorems about Users, for any clients, requests, fields, projects and   *)
(* failures: a request creates one user at most, a client keeps its user   *)
(* and the projects it created, and the limit on projects is exceeded by   *)
(* one project for each other request at most.                             *)
(***************************************************************************)
EXTENDS Users, FiniteSetTheorems, SequenceTheorems, TLAPS

-----------------------------------------------------------------------------
(* The inductive invariant *)

\* A call has started and is not over.
Running(x) == pc[x] \notin {"start", "done"}

\* The calls that ask who the user is hold the Authenticator's lock.
LockInv == \A x \in Calls : pc[x] \in {"user", "create", "access"} => lock = x

\* A request that is not in progress has no session, nor a call.
IdleInv ==
  \A r \in Requests : Idle(r) =>
    /\ sent[r] = NoUser /\ session[r] = NoUser /\ header[r] = Unset /\ made[r] = 0
    /\ \A f \in Fields : pc[<<r, f>>] = "done"

\* The session keeps the user the request was sent with, and so does the cookie that is set; only
\* a request without a user creates one, which is in the cookie unless no save of it worked.
SessionInv ==
  \A r \in Requests :
    /\ made[r] <= 1
    /\ made[r] # 0 => session[r] # NoUser
    /\ sent[r] # NoUser => session[r] = sent[r]
    /\ header[r] \in {Unset, session[r]} \/ (header[r] = NoUser /\ sent[r] = NoUser)
    /\ session[r] # NoUser => session[r] \in {sent[r], header[r]} \/ r \in unsaved

\* What a call knows of its session: a project is created for the user in it.
CallInv ==
  \A x \in Calls :
    /\ op[x] = "createProject" => serial[x[1]]
    /\ pc[x] = "create" => session[x[1]] = NoUser
    /\ pc[x] \in {"count", "insert"} =>
         op[x] = "createProject" /\ session[x[1]] # NoUser

\* The fields of a mutation run one after the other.
SerialInv ==
  \A r \in Requests, f, g \in Fields :
    serial[r] /\ f < g /\ Running(<<r, g>>) => pc[<<r, f>>] = "done"

\* The requests of a client that cannot have strayed were sent with the cookie it has, and it has
\* two of them at once only when that names a user.
StrayInv ==
  \A r \in Requests : client[r] \in Clients \ mayStray =>
    /\ sent[r] = cookie[client[r]]
    /\ \A q \in Requests : q # r /\ client[q] = client[r] => cookie[client[r]] # NoUser

OwnerInv == \A p \in 1..created : owner[p] # NoUser

\* Projects users created, and requests about to insert one more.
Created(u)   == ProjectsOf(u) \cap 1..created
Inserting(u) == {r \in Requests : session[r] = u /\ \E f \in Fields : pc[<<r, f>>] = "insert"}

Room == MaxProjectsLimit - 1 + Cardinality(Requests)

LimitInv == \A u \in 1..users : Cardinality(Created(u)) + Cardinality(Inserting(u)) <= Room

UsersInv ==
  /\ TypeOK
  /\ LockInv
  /\ IdleInv
  /\ SessionInv
  /\ CallInv
  /\ SerialInv
  /\ StrayInv
  /\ OwnerInv
  /\ OwnProjects
  /\ LimitInv

-----------------------------------------------------------------------------
(* Calls *)

LEMMA CallPairs ==
  /\ \A x \in Calls : x[1] \in Requests /\ x[2] \in Fields /\ x = <<x[1], x[2]>>
  /\ \A r \in Requests, f \in Fields : <<r, f>> \in Calls /\ <<r, f>>[1] = r /\ <<r, f>>[2] = f
  /\ NoCall \notin Calls
BY DEF Calls, NoCall

\* What follows once the user of a call is known: its next step, and the lock it gives back or keeps.
LEMMA WithUserSteps ==
  ASSUME NEW x \in Calls, WithUser(x)
  PROVE  \E w \in {"count", "done", "access"} :
           /\ Goto(x, w)
           /\ lock' = IF w = "access" THEN lock ELSE NoCall
           /\ w = "count" => op[x] = "createProject"
BY DEF WithUser, Unlock

\* Saving the session of a call: into the header of the response, or not.
MaySave(x) == SaveSession(x[1], session[x[1]]) \/ UNCHANGED saved

\* It writes nothing of another request.
LEMMA SavesOwn ==
  ASSUME TypeOK, NEW x \in Calls, MaySave(x)
  PROVE  /\ \A r \in Requests \ {x[1]} : header'[r] = header[r]
         /\ unsaved' \ {x[1]} = unsaved \ {x[1]}
BY DEF MaySave, SaveSession, saved, TypeOK

LEMMA GetUserSteps ==
  ASSUME NEW x \in Calls, GetUser(x)
  PROVE  /\ pc[x] = "user"
         /\ MaySave(x)
         /\ UNCHANGED <<db, cookie, request, session, ghosts>>
         /\ \E w \in {"done", "create", "count", "access"} :
              /\ Goto(x, w)
              /\ lock' = IF w \in {"create", "access"} THEN lock ELSE NoCall
              /\ w = "create" => session[x[1]] = NoUser
              /\ w = "count" => op[x] = "createProject" /\ session[x[1]] # NoUser
         /\ Keep \/ Forget(x)
<1>1. CASE session[x[1]] # NoUser /\ WithUser(x) /\ Keep
  <2>1. PICK w \in {"count", "done", "access"} :
           /\ Goto(x, w)
           /\ lock' = IF w = "access" THEN lock ELSE NoCall
           /\ w = "count" => op[x] = "createProject"
    BY <1>1, WithUserSteps
  <2> QED
    BY <1>1, <2>1 DEF GetUser, MaySave, SaveFails
<1>2. CASE ~(session[x[1]] # NoUser /\ WithUser(x) /\ Keep)
  BY <1>2 DEF GetUser, Unlock, MaySave, SaveFails
<1> QED
  BY <1>1, <1>2

LEMMA CreateUserSteps ==
  ASSUME NEW x \in Calls, CreateUser(x)
  PROVE  /\ pc[x] = "create"
         /\ UNCHANGED <<owner, created, cookie, request, target, seen, author, mayStray>>
         /\ \E w \in {"done", "count", "access"} :
              /\ Goto(x, w)
              /\ lock' = IF w = "access" THEN lock ELSE NoCall
              /\ w = "count" => op[x] = "createProject"
              /\ \/ /\ users' = users + 1
                    /\ made' = [made EXCEPT ![x[1]] = @ + 1]
                    /\ session' = [session EXCEPT ![x[1]] = users + 1]
                    /\ \/ SaveSession(x[1], users + 1)
                       \/ header' = header /\ unsaved' = unsaved \cup {x[1]} /\ w = "done"
                 \/ w = "done" /\ UNCHANGED <<users, made, session, saved>>
<1>1. CASE WithUser(x)
  <2>1. PICK w \in {"count", "done", "access"} :
           /\ Goto(x, w)
           /\ lock' = IF w = "access" THEN lock ELSE NoCall
           /\ w = "count" => op[x] = "createProject"
    BY <1>1, WithUserSteps
  <2>2. CASE Goto(x, "done") /\ Unlock
    BY <2>2 DEF CreateUser, Unlock
  <2>3. CASE ~(Goto(x, "done") /\ Unlock)
    BY <2>1, <2>3 DEF CreateUser
  <2> QED
    BY <2>2, <2>3
<1>2. CASE ~WithUser(x)
  BY <1>2 DEF CreateUser, Unlock
<1> QED
  BY <1>1, <1>2

LEMMA CheckProjectAccessSteps ==
  ASSUME NEW x \in Calls, CheckProjectAccess(x)
  PROVE  /\ pc[x] = "access" /\ Goto(x, "done") /\ Unlock /\ Forget(x)
         /\ MaySave(x)
         /\ \/ owner' = owner
            \/ HasLegacyAccess(x) /\ owner' = [owner EXCEPT ![target[x]] = session[x[1]]]
         /\ UNCHANGED <<users, created, cookie, request, session, ghosts>>
BY DEF CheckProjectAccess, MaySave, SaveFails

\* A step of one call moves it on and leaves the others, and their requests, alone.
Moves(x) ==
  /\ pc[x] # "done" /\ pc'[x] # "start" /\ pc'[x] \in Steps
  /\ \A y \in Calls \ {x} : pc'[y] = pc[y]
  /\ UNCHANGED <<cookie, client, sent, serial, op, mayStray>>
  /\ \A r \in Requests \ {x[1]} : session'[r] = session[r] /\ header'[r] = header[r] /\ made'[r] = made[r]
  /\ unsaved' \ {x[1]} = unsaved \ {x[1]}
  /\ pc[x] = "start" => MayStart(x)

LEMMA MovesStep ==
  ASSUME TypeOK, NEW x \in Calls, Acquire(x) \/ Run(x)
  PROVE  Moves(x)
<1>0. x[1] \in Requests /\ pc \in [Calls -> Steps]
  BY CallPairs DEF TypeOK
<1>1. CASE Acquire(x)
  BY <1>0, <1>1 DEF Acquire, Asks, MayStart, Moves, Goto, Steps, request, saved, ghosts
<1>2. CASE GetProject(x)
  BY <1>0, <1>2 DEF GetProject, MayStart, Moves, Goto, Steps, request, saved, ghosts
<1>3. CASE GetUser(x)
  <2>1. PICK w \in {"done", "create", "count", "access"} : Goto(x, w)
    BY <1>3, GetUserSteps
  <2> QED
    BY <1>0, <1>3, <2>1, SavesOwn, GetUserSteps DEF Moves, Goto, Steps, request, ghosts
<1>4. CASE CreateUser(x)
  <2>1. PICK w \in {"done", "count", "access"} : Goto(x, w)
    BY <1>4, CreateUserSteps
  <2>2. \A r \in Requests \ {x[1]} : session'[r] = session[r] /\ header'[r] = header[r] /\ made'[r] = made[r]
    BY <1>0, <1>4, CreateUserSteps DEF SaveSession, saved, TypeOK
  <2>3. unsaved' \ {x[1]} = unsaved \ {x[1]}
    BY <1>4, CreateUserSteps DEF SaveSession, saved
  <2> QED
    BY <1>0, <1>4, <2>1, <2>2, <2>3, CreateUserSteps DEF Moves, Goto, Steps, request
<1>5. CASE CheckProjectAccess(x)
  BY <1>0, <1>5, SavesOwn, CheckProjectAccessSteps DEF Moves, Goto, Steps, request, ghosts
<1>6. CASE GetProjectCountForUser(x)
  BY <1>0, <1>6 DEF GetProjectCountForUser, Moves, Goto, Steps, request, saved, ghosts
<1>7. CASE CreateProject(x)
  BY <1>0, <1>7 DEF CreateProject, Moves, Goto, Steps, request, saved
<1> QED
  BY <1>1, <1>2, <1>3, <1>4, <1>5, <1>6, <1>7 DEF Run

\* What a request is sent with, for a client, a kind and what it asks.
Sends(r, c, m, ops) ==
  /\ client' = [client EXCEPT ![r] = c]
  /\ sent' = [sent EXCEPT ![r] = cookie[c]]
  /\ session' = [session EXCEPT ![r] = cookie[c]]
  /\ serial' = [serial EXCEPT ![r] = m]
  /\ op' = [x \in Calls |-> IF x[1] = r THEN ops[x[2]] ELSE op[x]]
  /\ pc' = [x \in Calls |-> IF x[1] # r THEN pc[x]
                           ELSE IF ops[x[2]] = Nothing THEN "done" ELSE "start"]
  /\ mayStray' = IF cookie[c] = NoUser /\ \E q \in Requests : client[q] = c
                   THEN mayStray \cup {c} ELSE mayStray

LEMMA SendSteps ==
  ASSUME NEW r \in Requests, Send(r)
  PROVE  \E c \in Clients, m \in BOOLEAN, ops \in Mutations \cup Queries :
           /\ Sends(r, c, m, ops)
           /\ \A f \in Fields : /\ ops[f] \in Operations
                                /\ ops[f] = "createProject" => m
<1>1. PICK c \in Clients, m \in BOOLEAN : \E ops \in IF m THEN Mutations ELSE Queries : Sends(r, c, m, ops)
  BY DEF Send, Sends
<1>2. PICK ops \in IF m THEN Mutations ELSE Queries : Sends(r, c, m, ops)
  BY <1>1
<1>3. \A f \in Fields : ops[f] \in Operations /\ (ops[f] = "createProject" => m)
  BY UsersAssumption DEF Operations, Nothing
<1> QED
  BY <1>2, <1>3

-----------------------------------------------------------------------------
(* Types *)

LEMMA UserIDsGrow ==
  ASSUME TypeOK, users' = users \/ users' = users + 1
  PROVE  UserIDs \subseteq UserIDs' /\ users' \in UserIDs'
BY DEF TypeOK, UserIDs

\* Saving a session keeps the types of what it writes.
LEMMA SaveType ==
  ASSUME TypeOK, NEW r \in Requests, NEW u \in UserIDs', UserIDs \subseteq UserIDs',
         \/ SaveSession(r, u)
         \/ UNCHANGED saved
         \/ header' = header /\ unsaved' = unsaved \cup {r}
  PROVE  header' \in [Requests -> UserIDs' \cup {Unset}] /\ unsaved' \in SUBSET Requests
<1>1. header \in [Requests -> UserIDs' \cup {Unset}] /\ unsaved \in SUBSET Requests
  BY DEF TypeOK
<1> QED
  BY <1>1 DEF SaveSession, saved

LEMMA SendType ==
  ASSUME TypeOK, NEW r \in Requests, Send(r)
  PROVE  TypeOK'
<1>1. PICK c \in Clients, m \in BOOLEAN, ops \in Mutations \cup Queries :
        Sends(r, c, m, ops) /\ \A f \in Fields : ops[f] \in Operations
  BY SendSteps
<1>2. op' \in [Calls -> Operations]
  BY <1>1, CallPairs DEF Sends, TypeOK
<1>3. pc' \in [Calls -> Steps]
  BY <1>1 DEF Sends, TypeOK, Steps
<1> QED
  BY <1>1, <1>2, <1>3 DEF Sends, Send, db, saved, TypeOK, UserIDs, ProjectIDs

LEMMA RespondType ==
  ASSUME TypeOK, NEW r \in Requests, Respond(r)
  PROVE  TypeOK'
<1>1. client[r] \in Clients
  BY DEF Respond, Idle, TypeOK
<1>2. cookie' \in [Clients -> UserIDs]
  BY <1>1 DEF Respond, TypeOK
<1>3. op' \in [Calls -> Operations]
  BY DEF Respond, TypeOK, Operations
<1>4. NoUser \in UserIDs
  BY DEF TypeOK, UserIDs, NoUser
<1> QED
  BY <1>1, <1>2, <1>3, <1>4 DEF Respond, db, TypeOK, UserIDs, ProjectIDs

LEMMA CreateProjectType ==
  ASSUME TypeOK, NEW x \in Calls, client[x[1]] \in Clients, CreateProject(x)
  PROVE  TypeOK'
<1>0. x[1] \in Requests /\ created \in Nat /\ users' = users /\ UserIDs' = UserIDs
  BY CallPairs, UsersAssumption DEF TypeOK, CreateProject, UserIDs
<1>1. CASE created < MaxProjects /\ created' = created + 1
           /\ owner' = [p \in ProjectIDs' |-> IF p = created' THEN session[x[1]] ELSE owner[p]]
           /\ author' = Append(author, client[x[1]])
  <2>1. created' \in 0..MaxProjects /\ ProjectIDs' = ProjectIDs \cup {created'}
    BY <1>0, <1>1, UsersAssumption DEF TypeOK, ProjectIDs
  <2>2. owner' \in [ProjectIDs' -> UserIDs']
    BY <1>0, <1>1, <2>1 DEF TypeOK
  <2>3. author' \in [1..created' -> Clients]
    <3>1. author \in Seq(Clients) /\ Len(author) = created
      BY <1>0 DEF TypeOK
    <3>2. author' \in Seq(Clients) /\ Len(author') = created'
      BY <1>1, <3>1, AppendProperties
    <3> QED
      BY <3>2, LenProperties
  <2>4. target' \in [Calls -> ProjectIDs' \cup {NoProject}]
    BY <2>1 DEF CreateProject, TypeOK
  <2> QED
    BY <1>0, <2>1, <2>2, <2>3, <2>4 DEF CreateProject, Goto, Steps, request, saved, TypeOK
<1>2. CASE UNCHANGED <<owner, created, author>>
  BY <1>0, <1>2 DEF CreateProject, Goto, Steps, request, saved, TypeOK, ProjectIDs
<1> QED
  BY <1>1, <1>2 DEF CreateProject

LEMMA RunType ==
  ASSUME TypeOK, NEW x \in Calls, client[x[1]] \in Clients, Acquire(x) \/ Run(x)
  PROVE  TypeOK'
<1>0. x[1] \in Requests /\ NoUser \in UserIDs /\ UserIDs' = 0..users'
  BY CallPairs DEF TypeOK, UserIDs, NoUser
<1>1. CASE Acquire(x)
  BY <1>1 DEF Acquire, Goto, Steps, db, request, saved, ghosts, TypeOK, UserIDs, ProjectIDs
<1>2. CASE GetProject(x)
  BY ZenonT(40), <1>2 DEF GetProject, Goto, Steps, db, request, saved, ghosts, TypeOK, UserIDs, ProjectIDs
<1>3. CASE GetUser(x)
  <2>1. PICK w \in {"done", "create", "count", "access"} : Goto(x, w) /\ lock' \in {lock, NoCall}
    BY <1>3, GetUserSteps
  <2>2. target' \in [Calls -> ProjectIDs \cup {NoProject}] /\ seen' \in [Calls -> UserIDs]
    <3>1. Keep \/ Forget(x)
      BY <1>3, GetUserSteps
    <3> QED
      BY <1>0, <3>1 DEF Keep, Forget, TypeOK
  <2>3. UNCHANGED <<users, created, ProjectIDs, UserIDs>>
    BY <1>3, GetUserSteps DEF db, ProjectIDs, UserIDs
  <2>4. pc' \in [Calls -> Steps] /\ lock' \in Calls \cup {NoCall}
    BY <2>1 DEF Goto, Steps, TypeOK
  <2>5. /\ header' \in [Requests -> UserIDs' \cup {Unset}] /\ unsaved' \in SUBSET Requests
        /\ UNCHANGED <<cookie, session>>
    <3>1. MaySave(x) /\ UNCHANGED <<cookie, session>>
      BY <1>3, GetUserSteps
    <3>2. session[x[1]] \in UserIDs'
      BY <1>0, <2>3 DEF TypeOK
    <3> QED
      BY <1>0, <2>3, <3>1, <3>2, SaveType DEF MaySave
  <2>6. UNCHANGED <<owner, client, sent, serial, op, author, made, mayStray>>
    BY <1>3, GetUserSteps DEF db, request, ghosts
  <2> QED
    BY <2>2, <2>3, <2>4, <2>5, <2>6 DEF TypeOK
<1>4. CASE CreateUser(x)
  <2>1. PICK w \in {"done", "count", "access"} : Goto(x, w) /\ lock' \in {lock, NoCall}
    BY <1>4, CreateUserSteps
  <2>2. users' = users \/ users' = users + 1
    BY <1>4, CreateUserSteps
  <2>3. UserIDs \subseteq UserIDs' /\ users' \in UserIDs' /\ users' \in Nat
    BY <2>2, UserIDsGrow DEF TypeOK
  <2>4. session' \in [Requests -> UserIDs'] /\ header' \in [Requests -> UserIDs' \cup {Unset}]
        /\ made' \in [Requests -> Nat] /\ unsaved' \in SUBSET Requests
    <3>1. CASE UNCHANGED <<session, made, saved>>
      BY <2>3, <3>1 DEF saved, TypeOK
    <3>2. CASE ~UNCHANGED <<session, made, saved>>
      <4>1. /\ users' = users + 1
            /\ session' = [session EXCEPT ![x[1]] = users'] /\ made' = [made EXCEPT ![x[1]] = @ + 1]
            /\ \/ SaveSession(x[1], users')
               \/ header' = header /\ unsaved' = unsaved \cup {x[1]}
        BY <1>4, <3>2, CreateUserSteps DEF saved
      <4>2. session' \in [Requests -> UserIDs']
        BY <1>0, <2>3, <4>1 DEF TypeOK
      <4>3. made' \in [Requests -> Nat]
        BY <1>0, <4>1 DEF TypeOK
      <4>4. header' \in [Requests -> UserIDs' \cup {Unset}] /\ unsaved' \in SUBSET Requests
        BY <1>0, <2>3, <4>1, SaveType
      <4> QED
        BY <4>2, <4>3, <4>4
    <3> QED
      BY <3>1, <3>2
  <2>5. /\ owner' \in [ProjectIDs' -> UserIDs'] /\ cookie' \in [Clients -> UserIDs']
        /\ sent' \in [Requests -> UserIDs'] /\ seen' \in [Calls -> UserIDs']
    <3>1. UNCHANGED <<owner, created, cookie, sent, seen>>
      BY <1>4, CreateUserSteps DEF request
    <3>2. ProjectIDs' = ProjectIDs
      BY <3>1 DEF ProjectIDs
    <3> QED
      BY <2>3, <3>1, <3>2 DEF TypeOK
  <2> QED
    BY <1>4, <2>1, <2>3, <2>4, <2>5, CreateUserSteps DEF Goto, Steps, request, TypeOK, ProjectIDs
<1>5. CASE CheckProjectAccess(x)
  <2>1. owner' \in [ProjectIDs -> UserIDs]
    <3>1. owner' = owner \/ owner' = [owner EXCEPT ![target[x]] = session[x[1]]]
      BY <1>5, CheckProjectAccessSteps
    <3> QED
      BY <1>0, <3>1 DEF TypeOK
  <2>2. /\ UNCHANGED <<users, created, session, ProjectIDs, UserIDs>> /\ MaySave(x)
    BY <1>5, CheckProjectAccessSteps DEF ProjectIDs, UserIDs
  <2>3. header' \in [Requests -> UserIDs' \cup {Unset}] /\ unsaved' \in SUBSET Requests
    <3>1. session[x[1]] \in UserIDs'
      BY <1>0, <2>2 DEF TypeOK
    <3> QED
      BY <1>0, <2>2, <3>1, SaveType DEF MaySave
  <2>4. /\ pc' \in [Calls -> Steps] /\ lock' \in Calls \cup {NoCall}
        /\ target' \in [Calls -> ProjectIDs \cup {NoProject}] /\ seen' \in [Calls -> UserIDs]
    <3>1. Goto(x, "done") /\ Unlock /\ Forget(x)
      BY <1>5, CheckProjectAccessSteps
    <3> QED
      BY <1>0, <3>1 DEF Goto, Steps, Unlock, Forget, TypeOK
  <2>5. UNCHANGED <<cookie, client, sent, serial, op, author, made, mayStray>>
    BY <1>5, CheckProjectAccessSteps DEF request, ghosts
  <2> QED
    BY <2>1, <2>2, <2>3, <2>4, <2>5 DEF TypeOK
<1>6. CASE GetProjectCountForUser(x)
  BY <1>6 DEF GetProjectCountForUser, Goto, Steps, db, request, saved, ghosts, TypeOK, UserIDs, ProjectIDs
<1> QED
  BY <1>1, <1>2, <1>3, <1>4, <1>5, <1>6, CreateProjectType DEF Run

-----------------------------------------------------------------------------
(* The lock, and who asks for the user *)

\* What a step of a call does to the session of its request and to the cookie it sets: nothing, or
\* it saves the session, or it puts a new user in it.
LEMMA SessionSteps ==
  ASSUME TypeOK, NEW x \in Calls, Acquire(x) \/ Run(x)
  PROVE  \/ /\ MaySave(x)
            /\ UNCHANGED <<users, session, made>>
         \/ /\ CreateUser(x)
            /\ users' = users + 1
            /\ made' = [made EXCEPT ![x[1]] = @ + 1]
            /\ session' = [session EXCEPT ![x[1]] = users + 1]
            /\ \/ SaveSession(x[1], users + 1)
               \/ header' = header /\ unsaved' = unsaved \cup {x[1]}
<1>1. CASE Acquire(x) \/ GetProject(x) \/ GetProjectCountForUser(x) \/ CreateProject(x)
  BY <1>1 DEF Acquire, GetProject, GetProjectCountForUser, CreateProject, MaySave, db, ghosts
<1>2. CASE GetUser(x) \/ CheckProjectAccess(x)
  BY <1>2, GetUserSteps, CheckProjectAccessSteps DEF db, ghosts
<1>3. CASE CreateUser(x)
  BY <1>3, CreateUserSteps DEF MaySave
<1> QED
  BY <1>1, <1>2, <1>3 DEF Run

\* Where a step of a call may lead.
LEMMA StepsTo ==
  ASSUME TypeOK, NEW x \in Calls, Acquire(x) \/ Run(x)
  PROVE  /\ pc'[x] = "create" => session'[x[1]] = NoUser
         /\ pc'[x] = "count" => op[x] = "createProject" /\ session'[x[1]] # NoUser
         /\ pc'[x] = "insert" => /\ pc[x] = "count"
                                 /\ UNCHANGED session
                                 /\ Cardinality(ProjectsOf(session[x[1]])) < MaxProjectsLimit
<1>0. pc \in [Calls -> Steps] /\ x[1] \in Requests /\ users \in Nat
      /\ session \in [Requests -> UserIDs]
  BY CallPairs DEF TypeOK
<1>1. CASE Acquire(x) \/ GetProject(x) \/ CheckProjectAccess(x) \/ CreateProject(x)
  BY <1>0, <1>1 DEF Acquire, GetProject, CheckProjectAccess, CreateProject, Goto
<1>2. CASE GetUser(x)
  <2>1. PICK w \in {"done", "create", "count", "access"} :
          /\ Goto(x, w)
          /\ w = "create" => session[x[1]] = NoUser
          /\ w = "count" => op[x] = "createProject" /\ session[x[1]] # NoUser
    BY <1>2, GetUserSteps
  <2>2. session' = session
    BY <1>2, GetUserSteps
  <2> QED
    BY <1>0, <2>1, <2>2 DEF Goto
<1>3. CASE CreateUser(x)
  <2>1. PICK w \in {"done", "count", "access"} :
          /\ Goto(x, w)
          /\ w = "count" => op[x] = "createProject"
          /\ session' = [session EXCEPT ![x[1]] = users + 1] \/ w = "done"
    BY <1>3, CreateUserSteps
  <2> QED
    BY <1>0, <2>1 DEF Goto, NoUser
<1>4. CASE GetProjectCountForUser(x)
  BY <1>0, <1>4 DEF GetProjectCountForUser, Goto
<1> QED
  BY <1>1, <1>2, <1>3, <1>4 DEF Run

\* A request that is sent, or answered, has no call that runs.
LEMMA SentOrAnswered ==
  ASSUME TypeOK, IdleInv, NEW r \in Requests, Send(r) \/ Respond(r)
  PROVE  /\ UNCHANGED <<db, lock, author>>
         /\ \A f \in Fields : pc[<<r, f>>] = "done" /\ pc'[<<r, f>>] \in {"start", "done"}
         /\ \A y \in Calls : y[1] # r => pc'[y] = pc[y] /\ op'[y] = op[y]
         /\ \A q \in Requests \ {r} : /\ client'[q] = client[q] /\ sent'[q] = sent[q] /\ serial'[q] = serial[q]
                                      /\ session'[q] = session[q] /\ header'[q] = header[q] /\ made'[q] = made[q]
         /\ unsaved' \ {r} = unsaved \ {r}
<1>1. CASE Send(r)
  <2>1. PICK c \in Clients, m \in BOOLEAN, ops \in Mutations \cup Queries : Sends(r, c, m, ops)
    BY <1>1, SendSteps
  <2>2. \A f \in Fields : pc'[<<r, f>>] \in {"start", "done"}
    BY <2>1, CallPairs DEF Sends
  <2>3. ASSUME NEW y \in Calls, y[1] # r PROVE pc'[y] = pc[y] /\ op'[y] = op[y]
    <3>1. op'[y] = op[y]
      BY <2>1, <2>3 DEF Sends
    <3>2. pc'[y] = pc[y]
      BY <2>1, <2>3 DEF Sends
    <3> QED
      BY <3>1, <3>2
  <2>4. \A q \in Requests \ {r} : /\ client'[q] = client[q] /\ sent'[q] = sent[q] /\ serial'[q] = serial[q]
                                  /\ session'[q] = session[q]
    BY <2>1 DEF Sends, TypeOK
  <2> QED
    BY <1>1, <2>2, <2>3, <2>4 DEF Send, saved, IdleInv
<1>2. CASE Respond(r)
  BY <1>2 DEF Respond, TypeOK
<1> QED
  BY <1>1, <1>2

LEMMA LockStep ==
  ASSUME TypeOK, LockInv, NEW x \in Calls, Acquire(x) \/ Run(x)
  PROVE  LockInv'
<1>0. pc \in [Calls -> Steps] /\ Moves(x)
  BY MovesStep DEF TypeOK
<1> USE DEF LockInv
<1>1. CASE Acquire(x)
  BY <1>0, <1>1, CallPairs DEF Acquire, Moves, Goto
<1>2. CASE GetProject(x) \/ GetProjectCountForUser(x) \/ CreateProject(x)
  <2>1. lock' = lock /\ pc'[x] \notin {"user", "create", "access"}
    BY <1>0, <1>2 DEF GetProject, GetProjectCountForUser, CreateProject, Goto
  <2> QED
    BY <1>0, <2>1 DEF Moves
<1>3. CASE GetUser(x) \/ CreateUser(x) \/ CheckProjectAccess(x)
  <2>1. pc[x] \in {"user", "create", "access"}
    BY <1>3 DEF GetUser, CreateUser, CheckProjectAccess
  <2>2. \A y \in Calls \ {x} : pc[y] \notin {"user", "create", "access"}
    BY <2>1
  <2>3. pc'[x] \in {"user", "create", "access"} => lock' = lock
    <3>1. CASE GetUser(x)
      BY <1>0, <3>1, GetUserSteps DEF Goto
    <3>2. CASE CreateUser(x)
      BY <1>0, <3>2, CreateUserSteps DEF Goto
    <3>3. CASE CheckProjectAccess(x)
      BY <1>0, <3>3, CheckProjectAccessSteps DEF Goto
    <3> QED
      BY <1>3, <3>1, <3>2, <3>3
  <2> QED
    BY <1>0, <2>1, <2>2, <2>3 DEF Moves
<1> QED
  BY <1>1, <1>2, <1>3 DEF Run

LEMMA LockRequest ==
  ASSUME TypeOK, IdleInv, LockInv, NEW r \in Requests, Send(r) \/ Respond(r)
  PROVE  LockInv'
<1>1. \A y \in Calls : y[1] = r => pc'[y] \in {"start", "done"}
  BY SentOrAnswered, CallPairs
<1> QED
  BY <1>1, SentOrAnswered DEF LockInv

LEMMA IdleStep ==
  ASSUME TypeOK, IdleInv, NEW x \in Calls, Acquire(x) \/ Run(x)
  PROVE  IdleInv' /\ client[x[1]] \in Clients
<1>1. Moves(x) /\ x[1] \in Requests /\ x[2] \in Fields /\ x = <<x[1], x[2]>>
  BY MovesStep, CallPairs
<1>2. ~Idle(x[1])
  BY <1>1 DEF IdleInv, Moves
<1>3. ASSUME NEW r \in Requests, Idle(r)'
      PROVE  r # x[1] /\ Idle(r)
  BY <1>1, <1>2, <1>3 DEF Moves, Idle
<1>4. \A r \in Requests, f \in Fields : r # x[1] => <<r, f>> \in Calls \ {x}
  BY CallPairs
<1>5. IdleInv'
  BY <1>1, <1>3, <1>4 DEF IdleInv, Moves
<1> QED
  BY <1>1, <1>2, <1>5 DEF Idle, TypeOK

LEMMA IdleRequest ==
  ASSUME TypeOK, IdleInv, NEW r \in Requests, Send(r) \/ Respond(r)
  PROVE  IdleInv'
<1>1. ASSUME NEW q \in Requests, q # r, Idle(q)'
      PROVE  /\ sent'[q] = NoUser /\ session'[q] = NoUser /\ header'[q] = Unset /\ made'[q] = 0
             /\ \A f \in Fields : pc'[<<q, f>>] = "done"
  BY <1>1, SentOrAnswered, CallPairs DEF IdleInv, Idle
<1>2. CASE Send(r)
  <2>1. ~Idle(r)'
    BY <1>2, SendSteps, UsersAssumption DEF Sends, Idle, TypeOK
  <2> QED
    BY <1>1, <2>1 DEF IdleInv
<1>3. CASE Respond(r)
  <2>1. /\ sent'[r] = NoUser /\ session'[r] = NoUser /\ header'[r] = Unset /\ made'[r] = 0
        /\ \A f \in Fields : pc'[<<r, f>>] = "done"
    BY <1>3 DEF Respond, TypeOK
  <2> QED
    BY <1>1, <2>1 DEF IdleInv
<1> QED
  BY <1>2, <1>3

-----------------------------------------------------------------------------
(* Sessions *)

\* A call that creates a user is the only one that asks for it, and no call of its request has one.
LEMMA AloneCreating ==
  ASSUME LockInv, CallInv, NEW x \in Calls, pc[x] = "create"
  PROVE  /\ session[x[1]] = NoUser
         /\ \A y \in Calls : y # x => pc[y] \notin {"user", "create", "access"}
         /\ \A y \in Calls : y[1] = x[1] => pc[y] \notin {"count", "insert"}
BY DEF LockInv, CallInv

LEMMA SessionStep ==
  ASSUME TypeOK, LockInv, SessionInv, CallInv, NEW x \in Calls, Acquire(x) \/ Run(x)
  PROVE  SessionInv'
<1> DEFINE r == x[1]
<1>0. Moves(x) /\ r \in Requests
  BY MovesStep, CallPairs
<1>1. \A q \in Requests : sent'[q] = sent[q]
  BY <1>0 DEF Moves
<1>2. CASE MaySave(x) /\ UNCHANGED <<users, session, made>>
  <2>1. CASE UNCHANGED saved
    BY <1>1, <1>2, <2>1 DEF SessionInv, saved
  <2>2. CASE SaveSession(r, session[r])
    BY <1>0, <1>1, <1>2, <2>2 DEF SessionInv, SaveSession, TypeOK
  <2> QED
    BY <1>2, <2>1, <2>2 DEF MaySave
<1>3. CASE /\ CreateUser(x)
           /\ users' = users + 1
           /\ made' = [made EXCEPT ![r] = @ + 1]
           /\ session' = [session EXCEPT ![r] = users + 1]
           /\ \/ SaveSession(r, users + 1)
              \/ header' = header /\ unsaved' = unsaved \cup {r}
  <2>1. session[r] = NoUser
    BY <1>3, CreateUserSteps, AloneCreating
  <2>2. /\ made[r] = 0 /\ sent[r] = NoUser /\ header[r] \in {Unset, NoUser}
        /\ users \in Nat /\ made \in [Requests -> Nat]
    BY <1>0, <2>1 DEF SessionInv, TypeOK
  <2>3. /\ made'[r] = 1 /\ session'[r] = users + 1
        /\ header'[r] = users + 1 \/ (header'[r] = header[r] /\ r \in unsaved')
    BY <1>0, <1>3, <2>2 DEF SaveSession, TypeOK
  <2>4. /\ \A q \in Requests \ {r} : made'[q] = made[q] /\ session'[q] = session[q] /\ header'[q] = header[q]
        /\ unsaved' \ {r} = unsaved \ {r}
    BY <1>0 DEF Moves
  <2> HIDE DEF r
  <2>5. ASSUME NEW q \in Requests
        PROVE  /\ made'[q] <= 1
               /\ made'[q] # 0 => session'[q] # NoUser
               /\ sent'[q] # NoUser => session'[q] = sent'[q]
               /\ header'[q] \in {Unset, session'[q]} \/ (header'[q] = NoUser /\ sent'[q] = NoUser)
               /\ session'[q] # NoUser => session'[q] \in {sent'[q], header'[q]} \/ q \in unsaved'
    <3>1. CASE q = r
      BY <1>1, <2>2, <2>3, <3>1 DEF NoUser
    <3>2. CASE q # r
      BY <1>1, <2>4, <3>2 DEF SessionInv
    <3> QED
      BY <3>1, <3>2
  <2> QED
    BY <2>5 DEF SessionInv
<1> QED
  BY <1>2, <1>3, SessionSteps

LEMMA SessionRequest ==
  ASSUME TypeOK, IdleInv, SessionInv, NEW r \in Requests, Send(r) \/ Respond(r)
  PROVE  SessionInv'
<1>1. /\ made'[r] = 0 /\ header'[r] = Unset /\ session'[r] = sent'[r]
  <2>1. CASE Send(r)
    <3>1. session'[r] = sent'[r]
      BY <2>1, SendSteps DEF Sends, TypeOK
    <3> QED
      BY <2>1, <3>1 DEF Send, saved, IdleInv
  <2>2. CASE Respond(r)
    BY <2>2 DEF Respond, TypeOK
  <2> QED
    BY <2>1, <2>2
<1>2. ASSUME NEW q \in Requests
      PROVE  /\ made'[q] <= 1
             /\ made'[q] # 0 => session'[q] # NoUser
             /\ sent'[q] # NoUser => session'[q] = sent'[q]
             /\ header'[q] \in {Unset, session'[q]} \/ (header'[q] = NoUser /\ sent'[q] = NoUser)
             /\ session'[q] # NoUser => session'[q] \in {sent'[q], header'[q]} \/ q \in unsaved'
  <2>1. CASE q = r
    BY <1>1, <2>1
  <2>2. CASE q # r
    BY <2>2, SentOrAnswered DEF SessionInv
  <2> QED
    BY <2>1, <2>2
<1> QED
  BY <1>2 DEF SessionInv

LEMMA CallStep ==
  ASSUME TypeOK, LockInv, CallInv, NEW x \in Calls, Acquire(x) \/ Run(x)
  PROVE  CallInv'
<1> DEFINE r == x[1]
<1>0. Moves(x) /\ r \in Requests
  BY MovesStep, CallPairs
<1>1. ASSUME NEW y \in Calls
      PROVE  op'[y] = "createProject" => serial'[y[1]]
  BY <1>0 DEF Moves, CallInv
<1>2. /\ pc'[x] = "create" => session'[r] = NoUser
      /\ pc'[x] \in {"count", "insert"} =>
           op'[x] = "createProject" /\ session'[r] # NoUser
  BY <1>0, StepsTo DEF Moves, CallInv
<1>3. ASSUME NEW y \in Calls \ {x}
      PROVE  /\ pc'[y] = "create" => session'[y[1]] = NoUser
             /\ pc'[y] \in {"count", "insert"} =>
                  op'[y] = "createProject" /\ session'[y[1]] # NoUser
  <2>0. pc'[y] = pc[y] /\ op' = op /\ y[1] \in Requests
    BY <1>0, CallPairs DEF Moves
  <2>1. CASE y[1] # r
    BY <1>0, <2>0, <2>1 DEF Moves, CallInv
  <2>2. CASE y[1] = r /\ UNCHANGED session
    BY <2>0, <2>2 DEF CallInv
  <2>3. CASE y[1] = r /\ CreateUser(x)
    <3>1. pc[y] \notin {"create", "count", "insert"}
      BY <2>3, CreateUserSteps, AloneCreating
    <3> QED
      BY <2>0, <3>1
  <2> QED
    BY <2>1, <2>2, <2>3, SessionSteps
<1> QED
  BY <1>1, <1>2, <1>3 DEF CallInv

LEMMA CallRequest ==
  ASSUME TypeOK, IdleInv, CallInv, NEW r \in Requests, Send(r) \/ Respond(r)
  PROVE  CallInv'
<1>1. ASSUME NEW y \in Calls, y[1] # r
      PROVE  /\ op'[y] = "createProject" => serial'[y[1]]
             /\ pc'[y] = "create" => session'[y[1]] = NoUser
             /\ pc'[y] \in {"count", "insert"} =>
                  op'[y] = "createProject" /\ session'[y[1]] # NoUser
  BY <1>1, SentOrAnswered, CallPairs DEF CallInv
<1>2. \A y \in Calls : y[1] = r => pc'[y] \in {"start", "done"}
  BY SentOrAnswered, CallPairs
<1>3. ASSUME NEW y \in Calls, y[1] = r
      PROVE  op'[y] = "createProject" => serial'[r]
  <2>1. CASE Send(r)
    <3>1. PICK c \in Clients, m \in BOOLEAN, ops \in Mutations \cup Queries :
            /\ Sends(r, c, m, ops)
            /\ \A f \in Fields : ops[f] = "createProject" => m
      BY <2>1, SendSteps
    <3>2. op'[y] = ops[y[2]] /\ serial'[r] = m /\ y[2] \in Fields
      BY <1>3, <3>1, CallPairs DEF Sends, TypeOK
    <3> QED
      BY <3>1, <3>2
  <2>2. CASE Respond(r)
    BY <1>3, <2>2 DEF Respond, Nothing
  <2> QED
    BY <2>1, <2>2
<1> QED
  BY <1>1, <1>2, <1>3 DEF CallInv

LEMMA SerialStep ==
  ASSUME TypeOK, SerialInv, NEW x \in Calls, Acquire(x) \/ Run(x)
  PROVE  SerialInv'
<1>0. Moves(x)
  BY MovesStep
<1> SUFFICES ASSUME NEW r \in Requests, NEW f \in Fields, NEW g \in Fields,
                    serial'[r], f < g, Running(<<r, g>>)'
             PROVE  pc'[<<r, f>>] = "done"
  BY DEF SerialInv
<1>1. <<r, f>> \in Calls /\ <<r, g>> \in Calls /\ <<r, f>> # <<r, g>> /\ serial[r]
  <2>1. f # g
    BY UsersAssumption
  <2> QED
    BY <1>0, <2>1, CallPairs DEF Moves
<1>2. CASE x = <<r, g>>
  <2>1. pc'[<<r, f>>] = pc[<<r, f>>]
    BY <1>0, <1>1, <1>2 DEF Moves
  <2>2. CASE Running(x)
    BY <1>1, <1>2, <2>1, <2>2 DEF SerialInv
  <2>3. CASE ~Running(x)
    BY <1>0, <1>1, <1>2, <2>1, <2>3, CallPairs DEF Running, Moves, MayStart
  <2> QED
    BY <2>2, <2>3
<1>3. CASE x # <<r, g>>
  <2>1. Running(<<r, g>>)
    BY <1>0, <1>1, <1>3 DEF Moves, Running
  <2>2. pc[<<r, f>>] = "done"
    BY <1>1, <2>1 DEF SerialInv
  <2> QED
    BY <1>0, <1>1, <2>2 DEF Moves
<1> QED
  BY <1>2, <1>3

LEMMA SerialRequest ==
  ASSUME TypeOK, IdleInv, SerialInv, NEW r \in Requests, Send(r) \/ Respond(r)
  PROVE  SerialInv'
<1> SUFFICES ASSUME NEW q \in Requests, NEW f \in Fields, NEW g \in Fields,
                    serial'[q], f < g, Running(<<q, g>>)'
             PROVE  pc'[<<q, f>>] = "done"
  BY DEF SerialInv
<1>1. q # r
  BY SentOrAnswered DEF Running
<1> QED
  BY <1>1, SentOrAnswered, CallPairs DEF SerialInv, Running

-----------------------------------------------------------------------------
(* Cookies *)

LEMMA StraySend ==
  ASSUME TypeOK, StrayInv, NEW r \in Requests, Send(r)
  PROVE  StrayInv'
<1>1. PICK c \in Clients, m \in BOOLEAN, ops \in Mutations \cup Queries : Sends(r, c, m, ops)
  BY SendSteps
<1>2. /\ client'[r] = c /\ sent'[r] = cookie[c] /\ cookie' = cookie
      /\ \A q \in Requests \ {r} : client'[q] = client[q] /\ sent'[q] = sent[q]
      /\ mayStray \subseteq mayStray'
      /\ c \notin mayStray' => cookie[c] # NoUser \/ \A q \in Requests : client[q] # c
  BY <1>1 DEF Sends, Send, TypeOK
<1> SUFFICES ASSUME NEW q \in Requests, client'[q] \in Clients \ mayStray'
             PROVE  /\ sent'[q] = cookie[client'[q]]
                    /\ \A o \in Requests : o # q /\ client'[o] = client'[q] => cookie[client'[q]] # NoUser
  BY <1>2 DEF StrayInv
<1>3. CASE q = r
  BY <1>2, <1>3
<1>4. CASE q # r
  <2>1. /\ client'[q] = client[q] /\ client[q] \in Clients \ mayStray /\ sent'[q] = sent[q]
        /\ sent[q] = cookie[client[q]]
        /\ \A o \in Requests : o # q /\ client[o] = client[q] => cookie[client[q]] # NoUser
    BY <1>2, <1>4 DEF StrayInv
  <2> QED
    BY <1>2, <1>4, <2>1
<1> QED
  BY <1>3, <1>4

\* The cookie of a client that may not have strayed never changes the user it names.
LEMMA AnswerKeepsCookie ==
  ASSUME TypeOK, SessionInv, StrayInv, NEW r \in Requests, Respond(r)
  PROVE  /\ client[r] \in Clients
         /\ \A c \in Clients \ {client[r]} : cookie'[c] = cookie[c]
         /\ mayStray \subseteq mayStray'
         /\ client[r] \notin mayStray' =>
              cookie'[client[r]] = IF header[r] = Unset THEN cookie[client[r]] ELSE header[r]
         /\ (cookie[client[r]] # NoUser /\ sent[r] = cookie[client[r]]) => cookie' = cookie
<1> DEFINE c == client[r]
<1>1. c \in Clients
  BY DEF Respond, Idle, TypeOK
<1>2. \/ cookie' = [cookie EXCEPT ![c] = IF header[r] = Unset THEN cookie[c] ELSE header[r]]
      \/ mayStray' = mayStray \cup {c} /\ cookie' = cookie
  BY <1>1 DEF Respond, TypeOK
<1>3. ASSUME cookie[c] # NoUser, sent[r] = cookie[c]
      PROVE  header[r] \in {Unset, cookie[c]}
  BY <1>3 DEF SessionInv
<1>4. mayStray \subseteq mayStray'
  BY DEF Respond
<1> QED
  BY <1>1, <1>2, <1>3, <1>4 DEF TypeOK

LEMMA StrayRespond ==
  ASSUME TypeOK, IdleInv, SessionInv, StrayInv, NEW r \in Requests, Respond(r)
  PROVE  StrayInv'
<1>1. /\ client'[r] = NoClient /\ NoClient \notin Clients
      /\ \A q \in Requests \ {r} : client'[q] = client[q] /\ sent'[q] = sent[q]
  BY SentOrAnswered, UsersAssumption DEF Respond, TypeOK
<1>2. mayStray \subseteq mayStray'
  BY AnswerKeepsCookie
<1> SUFFICES ASSUME NEW q \in Requests, client'[q] \in Clients \ mayStray'
             PROVE  /\ sent'[q] = cookie'[client'[q]]
                    /\ \A o \in Requests : o # q /\ client'[o] = client'[q] => cookie'[client'[q]] # NoUser
  BY DEF StrayInv
<1> DEFINE c == client[q]
<1>3. q # r /\ client'[q] = c /\ c \in Clients \ mayStray /\ sent'[q] = sent[q]
  BY <1>1, <1>2
<1>4. sent[q] = cookie[c] /\ \A o \in Requests : o # q /\ client[o] = c => cookie[c] # NoUser
  BY <1>3 DEF StrayInv
<1>5. cookie'[c] = cookie[c]
  <2>1. CASE c # client[r]
    BY <1>3, <2>1, AnswerKeepsCookie
  <2>2. CASE c = client[r]
    <3>1. cookie[c] # NoUser
      BY <1>3, <1>4, <2>2
    <3>2. sent[r] = cookie[c]
      BY <1>3, <2>2 DEF StrayInv
    <3> QED
      BY <2>2, <3>1, <3>2, AnswerKeepsCookie
  <2> QED
    BY <2>1, <2>2
<1>6. ASSUME NEW o \in Requests, o # q, client'[o] = c PROVE client[o] = c
  BY <1>1, <1>3, <1>6
<1> HIDE DEF c
<1> QED
  BY <1>3, <1>4, <1>5, <1>6

LEMMA StrayStep ==
  ASSUME TypeOK, StrayInv, NEW x \in Calls, Acquire(x) \/ Run(x)
  PROVE  StrayInv'
BY MovesStep DEF Moves, StrayInv

\* Only the response to a request sent with another cookie makes a client another user.
LEMMA KeepsUserStep ==
  ASSUME TypeOK, SessionInv, [Next]_vars, NEW c \in Clients, cookie[c] # NoUser, cookie'[c] # cookie[c]
  PROVE  \E r \in Requests : client[r] = c /\ client'[r] = NoClient /\ sent[r] # cookie[c]
<1>1. PICK r \in Requests : Respond(r)
  <2>1. ASSUME NEW r \in Requests, Send(r) PROVE FALSE
    BY <2>1 DEF Send
  <2>2. ASSUME NEW x \in Calls, Acquire(x) \/ Run(x) PROVE FALSE
    BY <2>2, MovesStep DEF Moves
  <2> QED
    BY <2>1, <2>2 DEF Next, vars
<1>2. client'[r] = NoClient
  BY <1>1 DEF Respond, TypeOK
<1>3. cookie' = [cookie EXCEPT ![client[r]] = header[r]] /\ header[r] # Unset
  BY <1>1 DEF Respond
<1>4. client[r] = c /\ cookie'[c] = header[r]
  BY <1>3 DEF TypeOK
<1>5. sent[r] # cookie[c]
  <2> SUFFICES ASSUME sent[r] = cookie[c] PROVE FALSE
    OBVIOUS
  <2>1. header[r] = cookie[c]
    BY <1>3 DEF SessionInv
  <2> QED
    BY <1>4, <2>1
<1> QED
  BY <1>2, <1>4, <1>5

-----------------------------------------------------------------------------
(* Owners *)

\* The projects users created keep their owner, and a new one has the user of the request.
LEMMA OwnerSteps ==
  ASSUME TypeOK, NEW x \in Calls, client[x[1]] \in Clients, Acquire(x) \/ Run(x)
  PROVE  /\ \A p \in 1..created : owner'[p] = owner[p] /\ author'[p] = author[p]
         /\ \/ created' = created
            \/ /\ pc[x] = "insert" /\ pc'[x] = "done" /\ UNCHANGED <<users, session, saved>>
               /\ created' = created + 1
               /\ owner'[created'] = session[x[1]]
               /\ author'[created'] = client[x[1]]
<1>0. created \in Nat
  BY UsersAssumption DEF TypeOK
<1>1. CASE Acquire(x) \/ GetProject(x) \/ GetUser(x) \/ CreateUser(x) \/ GetProjectCountForUser(x)
  <2>1. UNCHANGED <<owner, created, author>>
    BY <1>1, GetUserSteps, CreateUserSteps DEF Acquire, GetProject, GetProjectCountForUser, db, ghosts
  <2> QED
    BY <2>1
<1>2. CASE CheckProjectAccess(x)
  <2>1. /\ UNCHANGED <<created, author>>
        /\ owner' = owner \/ (target[x] \in LegacyProjects /\ \E u : owner' = [owner EXCEPT ![target[x]] = u])
    BY <1>2, CheckProjectAccessSteps, UsersAssumption DEF ghosts, HasLegacyAccess
  <2>2. \A p \in 1..created : p \notin LegacyProjects
    BY <1>0, UsersAssumption
  <2> QED
    BY <2>1, <2>2 DEF TypeOK, ProjectIDs
<1>3. CASE CreateProject(x)
  <2>1. CASE UNCHANGED <<owner, created, author>>
    BY <2>1
  <2>2. CASE /\ created' = created + 1
             /\ owner' = [p \in ProjectIDs' |-> IF p = created' THEN session[x[1]] ELSE owner[p]]
             /\ author' = Append(author, client[x[1]])
    <3>1. owner'[created'] = session[x[1]] /\ \A p \in 1..created : owner'[p] = owner[p]
      BY <1>0, <2>2 DEF ProjectIDs
    <3>2. author \in Seq(Clients) /\ Len(author) = created
      BY <1>0 DEF TypeOK
    <3>3. author'[created'] = client[x[1]] /\ \A p \in 1..created : author'[p] = author[p]
      BY <2>2, <3>2, AppendProperties
    <3>4. pc[x] = "insert" /\ pc'[x] = "done" /\ UNCHANGED <<users, session, saved>>
      BY <1>3 DEF CreateProject, Goto, TypeOK
    <3> QED
      BY <2>2, <3>1, <3>3, <3>4
  <2> QED
    BY <1>3, <2>1, <2>2 DEF CreateProject
<1> QED
  BY <1>1, <1>2, <1>3 DEF Run

\* The response to a request gives the client a user, or a user it made could not be saved.
Gives(q, u) == header[q] = u \/ (q \in unsaved /\ session[q] = u)

LEMMA OwnersStep ==
  ASSUME TypeOK, IdleInv, SessionInv, LockInv, CallInv, StrayInv, OwnerInv, OwnProjects,
         NEW x \in Calls, Acquire(x) \/ Run(x)
  PROVE  OwnerInv' /\ OwnProjects'
<1> DEFINE r == x[1]
<1>0. /\ Moves(x) /\ r \in Requests /\ client[r] \in Clients /\ created \in Nat
  <2>1. Moves(x)
    BY MovesStep
  <2>2. r \in Requests
    BY CallPairs
  <2>3. client[r] \in Clients
    BY IdleStep
  <2>4. created \in Nat
    BY UsersAssumption DEF TypeOK
  <2> QED
    BY <2>1, <2>2, <2>3, <2>4
<1>1. ASSUME NEW p \in 1..created
      PROVE  /\ owner'[p] # NoUser
             /\ \/ author'[p] \in mayStray'
                \/ owner'[p] = cookie'[author'[p]]
                \/ \E q \in Requests : client'[q] = author'[p] /\ Gives(q, owner[p])'
  <2>1. owner'[p] = owner[p] /\ author'[p] = author[p] /\ owner[p] # NoUser /\ owner[p] \in UserIDs
    <3>1. p \in ProjectIDs
      BY DEF ProjectIDs
    <3> QED
      BY <1>0, <3>1, OwnerSteps DEF OwnerInv, TypeOK
  <2>2. UNCHANGED <<cookie, client, mayStray>>
    BY <1>0 DEF Moves
  <2>3. ASSUME NEW q \in Requests, Gives(q, owner[p]) PROVE Gives(q, owner[p])'
    <3>1. CASE q # r
      BY <1>0, <2>1, <2>3, <3>1 DEF Moves, Gives
    <3>2. CASE q = r
      <4>1. session[r] = owner[p] /\ session[r] # NoUser
        <5>1. owner[p] # Unset
          BY <2>1 DEF UserIDs, Unset, TypeOK
        <5> QED
          BY <2>1, <2>3, <3>2, <5>1 DEF SessionInv, Gives
      <4>2. ~CreateUser(x)
        BY <4>1, CreateUserSteps, AloneCreating
      <4>3. MaySave(x) /\ session' = session
        BY <4>2, SessionSteps
      <4>4. CASE UNCHANGED saved
        BY <2>1, <2>3, <4>3, <4>4 DEF saved, Gives
      <4>5. CASE SaveSession(r, session[r])
        <5>1. header'[r] = owner[p]
          BY <1>0, <4>1, <4>5 DEF SaveSession, TypeOK
        <5> QED
          BY <2>1, <3>2, <5>1 DEF Gives
      <4> QED
        BY <4>3, <4>4, <4>5 DEF MaySave
    <3> QED
      BY <3>1, <3>2
  <2> QED
    BY <2>1, <2>2, <2>3 DEF OwnProjects, Gives
<1>2. CASE created' = created
  BY <1>1, <1>2 DEF OwnerInv, OwnProjects, Gives
<1>3. CASE created' # created
  <2>1. /\ pc[x] = "insert" /\ UNCHANGED <<session, saved, client, cookie, mayStray>> /\ created' = created + 1
        /\ owner'[created'] = session[r] /\ author'[created'] = client[r]
    BY <1>0, <1>3, OwnerSteps DEF Moves
  <2>2. session[r] # NoUser
    BY <2>1 DEF CallInv
  <2>3. client[r] \in mayStray \/ session[r] = cookie[client[r]] \/ Gives(r, session[r])
    BY <1>0, <2>2 DEF SessionInv, StrayInv, Gives
  <2>4. client[r] \in mayStray' \/ session[r] = cookie'[client[r]] \/ (client'[r] = client[r] /\ Gives(r, session[r])')
    BY <2>1, <2>3 DEF saved, Gives
  <2> HIDE DEF r
  <2>5. \A p \in 1..created' : p = created' \/ p \in 1..created
    BY <1>0, <2>1
  <2>6. OwnerInv'
    BY <1>1, <2>1, <2>2, <2>5 DEF OwnerInv
  <2>7. ASSUME NEW p \in 1..created'
        PROVE  \/ author'[p] \in mayStray'
               \/ owner'[p] = cookie'[author'[p]]
               \/ \E q \in Requests : client'[q] = author'[p] /\ Gives(q, owner[p])'
    <3>1. CASE p = created'
      BY <1>0, <2>1, <2>4, <3>1 DEF Gives
    <3>2. CASE p \in 1..created
      BY <1>1, <3>2
    <3> QED
      BY <2>5, <3>1, <3>2
  <2> QED
    BY <2>6, <2>7 DEF OwnProjects, Gives
<1> QED
  BY <1>2, <1>3
\* A request that is sent sets no cookie yet, and the response gives the client the one it set.
LEMMA OwnersRequest ==
  ASSUME TypeOK, IdleInv, SessionInv, StrayInv, OwnerInv, OwnProjects,
         NEW r \in Requests, Send(r) \/ Respond(r)
  PROVE  OwnerInv' /\ OwnProjects'
<1>1. UNCHANGED <<owner, created, author, users>>
  BY SentOrAnswered DEF db
<1> SUFFICES ASSUME NEW p \in 1..created
             PROVE  \/ author[p] \in mayStray'
                    \/ owner[p] = cookie'[author[p]]
                    \/ \E q \in Requests : client'[q] = author[p] /\ Gives(q, owner[p])'
  BY <1>1 DEF OwnerInv, OwnProjects, Gives
<1> DEFINE c == author[p]
<1>2. owner[p] # NoUser /\ owner[p] # Unset /\ c \in Clients
  <2>1. p \in ProjectIDs
    BY DEF ProjectIDs
  <2> QED
    BY <2>1 DEF OwnerInv, TypeOK, UserIDs, Unset
<1>3. /\ \A q \in Requests \ {r} : client'[q] = client[q] /\ (Gives(q, owner[p]) => Gives(q, owner[p])')
      /\ c \in mayStray \/ owner[p] = cookie[c] \/ \E q \in Requests : client[q] = c /\ Gives(q, owner[p])
  BY <1>1, SentOrAnswered DEF OwnProjects, Gives
<1>4. CASE Send(r)
  <2>1. /\ cookie' = cookie /\ mayStray \subseteq mayStray' /\ client[r] # c
    BY <1>2, <1>4, UsersAssumption DEF Send, Idle
  <2> QED
    BY <1>2, <1>3, <2>1
<1>5. CASE Respond(r)
  <2>1. CASE c \in mayStray'
    BY <2>1
  <2>2. CASE c \notin mayStray' /\ c # client[r]
    <3>1. cookie'[c] = cookie[c] /\ c \notin mayStray
      BY <1>2, <1>5, <2>2, AnswerKeepsCookie
    <3> QED
      BY <1>3, <2>2, <3>1
  <2>3. CASE c \notin mayStray' /\ c = client[r]
    <3>1. cookie'[c] = (IF header[r] = Unset THEN cookie[c] ELSE header[r]) /\ c \notin mayStray
      BY <1>5, <2>3, AnswerKeepsCookie
    <3>2. CASE owner[p] = cookie[c]
      <4>1. sent[r] = cookie[c]
        BY <1>2, <2>3, <3>1 DEF StrayInv
      <4>2. cookie' = cookie
        BY <1>2, <1>5, <2>3, <3>2, <4>1, AnswerKeepsCookie
      <4> QED
        BY <3>2, <4>2
    <3>3. CASE \E q \in Requests : client[q] = c /\ Gives(q, owner[p])
      <4>1. PICK q \in Requests : client[q] = c /\ Gives(q, owner[p])
        BY <3>3
      <4>2. CASE q = r
        <5>1. r \notin unsaved
          BY <1>5, <2>3 DEF Respond
        <5> QED
          BY <1>2, <3>1, <4>1, <4>2, <5>1 DEF Gives
      <4>3. CASE q # r
        BY <1>3, <4>1, <4>3
      <4> QED
        BY <4>2, <4>3
    <3> QED
      BY <1>3, <3>1, <3>2, <3>3
  <2> QED
    BY <2>1, <2>2, <2>3
<1> QED
  BY <1>4, <1>5

-----------------------------------------------------------------------------
(* The limit on projects *)

\* The fields of a mutation run one at a time: one call of a request inserts a project.
LEMMA OneInserts ==
  ASSUME CallInv, SerialInv, NEW x \in Calls, NEW y \in Calls, x[1] = y[1],
         pc[x] = "insert", pc[y] = "insert"
  PROVE  x = y
<1>1. serial[x[1]]
  BY DEF CallInv
<1>2. x = <<x[1], x[2]>> /\ y = <<x[1], y[2]>> /\ x[1] \in Requests /\ x[2] \in Fields /\ y[2] \in Fields
  BY CallPairs
<1>3. ~(x[2] < y[2]) /\ ~(y[2] < x[2])
  BY <1>1, <1>2 DEF SerialInv, Running
<1>4. x[2] = y[2]
  BY <1>2, <1>3, UsersAssumption
<1> QED
  BY <1>2, <1>4

LEMMA FiniteProjects ==
  ASSUME TypeOK, NEW u
  PROVE  /\ Created(u) = {p \in 1..created : owner[p] = u}
         /\ IsFiniteSet(Created(u)) /\ Cardinality(Created(u)) \in Nat
         /\ IsFiniteSet(ProjectsOf(u)) /\ Cardinality(ProjectsOf(u)) \in Nat
         /\ Cardinality(Created(u)) <= Cardinality(ProjectsOf(u))
         /\ IsFiniteSet(Inserting(u)) /\ Cardinality(Inserting(u)) \in Nat
         /\ Cardinality(Inserting(u)) <= Cardinality(Requests)
<1>0. created \in Nat
  BY UsersAssumption DEF TypeOK
<1>1. IsFiniteSet(1..created)
  BY <1>0, FS_Interval
<1>2. IsFiniteSet(ProjectIDs)
  BY <1>1, FS_Union, UsersAssumption DEF ProjectIDs
<1>3. IsFiniteSet(ProjectsOf(u))
  BY <1>2, FS_Subset DEF ProjectsOf
<1>4. Created(u) \subseteq ProjectsOf(u) /\ Inserting(u) \subseteq Requests
  BY DEF Created, Inserting
<1>5. Created(u) = {p \in 1..created : owner[p] = u}
  BY DEF Created, ProjectsOf, ProjectIDs
<1> QED
  BY <1>3, <1>4, <1>5, FS_Subset, FS_CardinalityType, UsersAssumption

LEMMA RoomType == Room \in Nat /\ Cardinality(Requests) \in Nat
BY FS_CardinalityType, UsersAssumption DEF Room

\* What leaves no more projects and insertions than there were.
LEMMA LimitKept ==
  ASSUME TypeOK, TypeOK', NEW u, Cardinality(Created(u)) + Cardinality(Inserting(u)) <= Room,
         Created(u)' = Created(u), Inserting(u)' \subseteq Inserting(u)
  PROVE  (Cardinality(Created(u)) + Cardinality(Inserting(u)) <= Room)'
<1>1. /\ IsFiniteSet(Inserting(u)) /\ Cardinality(Inserting(u)) \in Nat
      /\ Cardinality(Created(u)) \in Nat
  BY FiniteProjects
<1>2. Cardinality(Inserting(u)') \in Nat /\ Cardinality(Inserting(u)') <= Cardinality(Inserting(u))
  BY <1>1, FS_Subset, FS_CardinalityType
<1> QED
  BY <1>1, <1>2, RoomType DEF Room

LEMMA LimitRequest ==
  ASSUME TypeOK, TypeOK', IdleInv, LimitInv, NEW r \in Requests, Send(r) \/ Respond(r)
  PROVE  LimitInv'
<1>1. UNCHANGED <<users, owner, created>>
  BY SentOrAnswered DEF db
<1>2. ASSUME NEW u \in 1..users
      PROVE  (Cardinality(Created(u)) + Cardinality(Inserting(u)) <= Room)'
  <2>1. Created(u)' = Created(u)
    BY <1>1 DEF Created, ProjectsOf, ProjectIDs
  <2>2. ASSUME NEW q \in Inserting(u)' PROVE q \in Inserting(u)
    <3>1. PICK f \in Fields : pc'[<<q, f>>] = "insert"
      BY DEF Inserting
    <3>2. q \in Requests /\ session'[q] = u
      BY DEF Inserting
    <3>3. q # r
      BY <3>1, SentOrAnswered
    <3> QED
      BY <3>1, <3>2, <3>3, SentOrAnswered, CallPairs DEF Inserting
  <2> QED
    BY <2>1, <2>2, LimitKept DEF LimitInv
<1> QED
  BY <1>1, <1>2 DEF LimitInv
\* Which requests are about to insert a project after a step.
LEMMA InsertingNext ==
  ASSUME TypeOK, LockInv, CallInv, NEW x \in Calls, Acquire(x) \/ Run(x),
         NEW u, NEW q \in Inserting(u)'
  PROVE  q \in Inserting(u) \/ (q = x[1] /\ pc'[x] = "insert" /\ u = session[x[1]])
<1>0. Moves(x)
  BY MovesStep
<1>1. PICK f \in Fields : pc'[<<q, f>>] = "insert"
  BY DEF Inserting
<1>2. q \in Requests /\ session'[q] = u /\ <<q, f>> \in Calls /\ <<q, f>>[1] = q
  BY CallPairs DEF Inserting
<1>3. CASE x = <<q, f>>
  BY <1>1, <1>2, <1>3, StepsTo
<1>4. CASE x # <<q, f>>
  <2>1. pc[<<q, f>>] = "insert"
    BY <1>0, <1>1, <1>2, <1>4 DEF Moves
  <2>2. session'[q] = session[q]
    <3>1. CASE q # x[1]
      BY <1>0, <1>2, <3>1 DEF Moves
    <3>2. CASE q = x[1]
      <4>1. ~CreateUser(x)
        BY <1>2, <2>1, <3>2, CreateUserSteps, AloneCreating
      <4> QED
        BY <4>1, SessionSteps
    <3> QED
      BY <3>1, <3>2
  <2> QED
    BY <1>2, <2>1, <2>2 DEF Inserting
<1> QED
  BY <1>3, <1>4

LEMMA LimitStep ==
  ASSUME TypeOK, TypeOK', IdleInv, LockInv, CallInv, SerialInv, LimitInv,
         NEW x \in Calls, Acquire(x) \/ Run(x)
  PROVE  LimitInv'
<1> DEFINE r == x[1]
<1>0. Moves(x) /\ r \in Requests /\ client[r] \in Clients /\ created \in Nat
  <2>1. Moves(x)
    BY MovesStep
  <2>2. r \in Requests
    BY CallPairs
  <2>3. client[r] \in Clients
    BY IdleStep
  <2>4. created \in Nat
    BY UsersAssumption DEF TypeOK
  <2> QED
    BY <2>1, <2>2, <2>3, <2>4
<1> SUFFICES ASSUME NEW u \in 1..users'
             PROVE  (Cardinality(Created(u)) + Cardinality(Inserting(u)) <= Room)'
  BY DEF LimitInv
<1>1. CASE u \notin 1..users
  <2>1. CreateUser(x) /\ users' = users + 1 /\ u = users + 1 /\ users \in Nat
    BY <1>1, SessionSteps DEF TypeOK
  <2>2. created' = created /\ owner' = owner
    BY <2>1, CreateUserSteps
  <2>3. Created(u)' = {}
    <3>1. \A p \in 1..created : p \in ProjectIDs
      BY DEF ProjectIDs
    <3>2. \A p \in 1..created : owner[p] # u
      BY <2>1, <3>1 DEF TypeOK, UserIDs
    <3>3. Created(u)' = {p \in 1..created' : owner'[p] = u}
      BY DEF Created, ProjectsOf, ProjectIDs
    <3> QED
      BY <2>2, <3>2, <3>3
  <2>4. Inserting(u)' = {}
    <3>1. ASSUME NEW q \in Inserting(u)' PROVE FALSE
      <4>1. pc'[x] # "insert"
        BY <2>1, StepsTo, CreateUserSteps
      <4>2. q \in Requests /\ session[q] = u
        BY <4>1, InsertingNext DEF Inserting
      <4> QED
        BY <2>1, <4>2 DEF TypeOK, UserIDs
    <3> QED
      BY <3>1
  <2> QED
    BY <2>3, <2>4, FS_EmptySet, RoomType DEF Room
<1>2. CASE u \in 1..users /\ created' = created /\ ~(pc'[x] = "insert" /\ u = session[r])
  <2>1. Created(u)' = Created(u)
    <3>1. Created(u)' = {p \in 1..created' : owner'[p] = u}
      BY FiniteProjects DEF Created, ProjectsOf, ProjectIDs
    <3>2. \A p \in 1..created : owner'[p] = owner[p]
      BY <1>0, OwnerSteps
    <3> QED
      BY <1>2, <3>1, <3>2, FiniteProjects
  <2>2. Inserting(u)' \subseteq Inserting(u)
    BY <1>2, InsertingNext
  <2> QED
    BY <1>2, <2>1, <2>2, LimitKept DEF LimitInv
<1>3. CASE pc'[x] = "insert" /\ u = session[r]
  <2>1. Cardinality(ProjectsOf(u)) < MaxProjectsLimit
    BY <1>3, StepsTo
  <2>2. created' = created /\ \A p \in 1..created : owner'[p] = owner[p]
    BY <1>0, <1>3, OwnerSteps
  <2>3. Created(u)' = Created(u)
    <3>1. Created(u)' = {p \in 1..created' : owner'[p] = u}
      BY DEF Created, ProjectsOf, ProjectIDs
    <3> QED
      BY <2>2, <3>1, FiniteProjects
  <2>4. Inserting(u)' \subseteq Requests
    BY DEF Inserting
  <2>5. Cardinality(Inserting(u)') \in Nat /\ Cardinality(Inserting(u)') <= Cardinality(Requests)
    BY <2>4, FS_Subset, FS_CardinalityType, UsersAssumption
  <2>6. /\ Cardinality(Created(u)) \in Nat /\ Cardinality(ProjectsOf(u)) \in Nat
        /\ Cardinality(Created(u)) <= Cardinality(ProjectsOf(u))
    BY FiniteProjects
  <2> QED
    BY <2>1, <2>3, <2>5, <2>6, RoomType, UsersAssumption DEF Room
<1>4. CASE created' # created /\ u \in 1..users
  <2>1. /\ pc[x] = "insert" /\ pc'[x] = "done" /\ UNCHANGED <<users, session>>
        /\ created' = created + 1 /\ owner'[created'] = session[r]
        /\ \A p \in 1..created : owner'[p] = owner[p]
    BY <1>0, <1>4, OwnerSteps
  <2>2. Created(u)' = {p \in 1..created' : owner'[p] = u}
    BY DEF Created, ProjectsOf, ProjectIDs
  <2>3. \A p \in 1..created' : p = created' \/ p \in 1..created
    BY <1>0, <2>1
  <2>4. created' \in 1..created' /\ created' \notin 1..created /\ 1..created \subseteq 1..created'
    BY <1>0, <2>1
  <2>5. Inserting(u)' \subseteq Inserting(u)
    BY <2>1, InsertingNext
  <2>6. CASE u # session[r]
    <3>1. Created(u)' = Created(u)
      BY <2>1, <2>2, <2>3, <2>4, <2>6, FiniteProjects
    <3> QED
      BY <1>4, <2>5, <3>1, LimitKept DEF LimitInv
  <2>7. CASE u = session[r]
    <3>1. Created(u)' = Created(u) \cup {created'} /\ created' \notin Created(u)
      BY <2>1, <2>2, <2>3, <2>4, <2>7, FiniteProjects
    <3>2. r \in Inserting(u)
      BY <1>0, <2>1, <2>7, CallPairs DEF Inserting
    <3>3. r \notin Inserting(u)'
      <4> SUFFICES ASSUME NEW f \in Fields, pc'[<<r, f>>] = "insert" PROVE FALSE
        BY DEF Inserting
      <4>1. <<r, f>> \in Calls /\ <<r, f>>[1] = r /\ <<r, f>> # x
        BY <1>0, <2>1, CallPairs
      <4>2. pc[<<r, f>>] = "insert"
        BY <1>0, <4>1 DEF Moves
      <4> QED
        BY <2>1, <4>1, <4>2, OneInserts
    <3> HIDE DEF r
    <3>4. /\ IsFiniteSet(Created(u)) /\ Cardinality(Created(u)) \in Nat
          /\ IsFiniteSet(Inserting(u)) /\ Cardinality(Inserting(u)) \in Nat
      BY FiniteProjects
    <3>5. Cardinality(Created(u)') = Cardinality(Created(u)) + 1
      BY <3>1, <3>4, FS_AddElement
    <3>6. Inserting(u)' \subseteq Inserting(u) \ {r}
      BY <2>5, <3>3
    <3>7. IsFiniteSet(Inserting(u) \ {r}) /\ Cardinality(Inserting(u) \ {r}) = Cardinality(Inserting(u)) - 1
      BY <3>2, <3>4, FS_RemoveElement
    <3>8. Cardinality(Inserting(u)') \in Nat /\ Cardinality(Inserting(u)') <= Cardinality(Inserting(u)) - 1
      BY <3>6, <3>7, FS_Subset, FS_CardinalityType
    <3>9. Cardinality(Created(u)) + Cardinality(Inserting(u)) <= Room
      BY <1>4 DEF LimitInv
    <3> QED
      BY <3>4, <3>5, <3>8, <3>9, RoomType DEF Room
  <2> QED
    BY <2>6, <2>7
<1> QED
  BY <1>1, <1>2, <1>3, <1>4

-----------------------------------------------------------------------------
(* The invariant *)

LEMMA UsersInit == Init => UsersInv
<1> SUFFICES ASSUME Init PROVE UsersInv
  OBVIOUS
<1>1. TypeOK
  <2>1. ProjectIDs = LegacyProjects /\ UserIDs = {0} /\ 1..created = {}
    BY DEF Init, ProjectIDs, UserIDs
  <2>2. author \in [1..created -> Clients]
    BY <2>1 DEF Init
  <2> QED
    BY <2>1, <2>2, UsersAssumption DEF Init, TypeOK, NoUser, Operations, Steps
<1>2. LockInv /\ CallInv /\ SerialInv
  BY DEF Init, LockInv, CallInv, SerialInv, Running, Nothing
<1>3. IdleInv
  BY CallPairs DEF Init, IdleInv
<1>4. SessionInv /\ StrayInv
  BY UsersAssumption DEF Init, SessionInv, StrayInv, NoUser
<1>5. OwnerInv /\ OwnProjects /\ LimitInv
  BY DEF Init, OwnerInv, OwnProjects, LimitInv
<1> QED
  BY <1>1, <1>2, <1>3, <1>4, <1>5 DEF UsersInv

LEMMA UsersStep == UsersInv /\ [Next]_vars => UsersInv'
<1> SUFFICES ASSUME UsersInv, [Next]_vars PROVE UsersInv'
  OBVIOUS
<1> USE DEF UsersInv
<1>1. ASSUME NEW r \in Requests, Send(r) PROVE UsersInv'
  <2>1. TypeOK'
    BY <1>1, SendType
  <2>2. LockInv' /\ IdleInv' /\ SessionInv' /\ CallInv' /\ SerialInv' /\ StrayInv'
    BY <1>1, LockRequest, IdleRequest, SessionRequest, CallRequest, SerialRequest, StraySend
  <2> QED
    BY <1>1, <2>1, <2>2, OwnersRequest, LimitRequest
<1>2. ASSUME NEW r \in Requests, Respond(r) PROVE UsersInv'
  <2>1. TypeOK'
    BY <1>2, RespondType
  <2>2. LockInv' /\ IdleInv' /\ SessionInv' /\ CallInv' /\ SerialInv' /\ StrayInv'
    BY <1>2, LockRequest, IdleRequest, SessionRequest, CallRequest, SerialRequest, StrayRespond
  <2> QED
    BY <1>2, <2>1, <2>2, OwnersRequest, LimitRequest
<1>3. ASSUME NEW x \in Calls, Acquire(x) \/ Run(x) PROVE UsersInv'
  <2>1. IdleInv' /\ client[x[1]] \in Clients
    BY <1>3, IdleStep
  <2>2. TypeOK'
    BY <1>3, <2>1, RunType
  <2>3. LockInv' /\ SessionInv' /\ CallInv' /\ SerialInv' /\ StrayInv'
    BY <1>3, LockStep, SessionStep, CallStep, SerialStep, StrayStep
  <2> QED
    BY <1>3, <2>1, <2>2, <2>3, OwnersStep, LimitStep
<1>4. CASE UNCHANGED vars
  <2>1. TypeOK' /\ LockInv' /\ IdleInv' /\ SessionInv' /\ CallInv' /\ SerialInv'
    BY <1>4 DEF vars, TypeOK, LockInv, IdleInv, SessionInv, CallInv, SerialInv, UserIDs, ProjectIDs, Idle, Running
  <2>2. StrayInv' /\ OwnerInv' /\ OwnProjects'
    BY <1>4 DEF vars, StrayInv, OwnerInv, OwnProjects
  <2>3. LimitInv'
    BY <1>4 DEF vars, LimitInv, Created, Inserting, ProjectsOf, ProjectIDs
  <2> QED
    BY <2>1, <2>2, <2>3
<1> QED
  BY <1>1, <1>2, <1>3, <1>4 DEF Next

\* The inductive invariant of users, sessions and projects, for any number of clients and requests
\* and whatever fails (src/auth/auth.go, src/middleware/sessions/sessions.go).
THEOREM UsersInvHolds == Spec => []UsersInv
BY UsersInit, UsersStep, PTL DEF Spec

\* Every variable keeps its type.
THEOREM UsersTypeCorrect == Spec => []TypeOK
<1>1. UsersInv => TypeOK
  BY DEF UsersInv
<1> QED
  BY <1>1, UsersInvHolds, PTL

\* The fields of a query run at the same time and each gets or creates the user
\* (src/auth/auth.go:61-89): the Authenticator's lock lets a request create one at most.
THEOREM OneUserCreated == Spec => []OneUserPerRequest
<1>1. UsersInv => OneUserPerRequest
  BY DEF UsersInv, SessionInv, OneUserPerRequest
<1> QED
  BY <1>1, UsersInvHolds, PTL

\* The session that is saved for every request, if saving works (src/middleware/sessions/
\* sessions.go:57), keeps the user of the cookie it was read from, so no failure makes a client
\* another user.
THEOREM UserKept == Spec => KeepsUser
<1>1. UsersInv /\ [Next]_vars =>
        [\A c \in Clients : cookie[c] # NoUser /\ cookie'[c] # cookie[c] =>
           \E r \in Requests : client[r] = c /\ client'[r] = NoClient /\ sent[r] # cookie[c]]_vars
  BY KeepsUserStep DEF UsersInv
<1> QED
  BY <1>1, UsersInvHolds, PTL DEF Spec, KeepsUser

\* A client that lost no response, sent no two requests before it had a user and whose new user a
\* save put in the response (src/auth/auth.go:61-89, src/middleware/sessions/sessions.go:57) is the
\* owner of every project it created.
THEOREM ProjectsOwned == Spec => []OwnProjects
<1>1. UsersInv => OwnProjects
  BY DEF UsersInv
<1> QED
  BY <1>1, UsersInvHolds, PTL

\* Requests that count the projects of a user before either inserts one
\* (src/controller/projects.go:52-62) exceed its limit by at most one for each of them but one.
THEOREM LimitExceededByRequests == Spec => []LimitUpToRequests
<1>1. UsersInv => LimitUpToRequests
  <2> SUFFICES ASSUME UsersInv, NEW u \in 1..users
               PROVE  Cardinality(ProjectsOf(u) \cap 1..created) <= MaxProjectsLimit - 1 + Cardinality(Requests)
    BY DEF LimitUpToRequests
  <2>1. Cardinality(Created(u)) + Cardinality(Inserting(u)) <= Room
    BY DEF UsersInv, LimitInv
  <2>2. Cardinality(Created(u)) \in Nat /\ Cardinality(Inserting(u)) \in Nat
    BY FiniteProjects DEF UsersInv
  <2> QED
    BY <2>1, <2>2, RoomType, UsersAssumption DEF Created, Room
<1> QED
  BY <1>1, UsersInvHolds, PTL
=============================================================================
