-------------------------------- MODULE Users --------------------------------
(***************************************************************************)
(* Users, their sessions and the projects they own (src/auth, src/         *)
(* middleware/sessions, src/controller/projects.go and the resolvers that  *)
(* authorise).                                                             *)
(*                                                                         *)
(* A request carries the cookie its client had when it was sent; the       *)
(* session is read from it once and kept for the request.  Each of its     *)
(* root fields is a call: the fields of a query run at the same time,      *)
(* those of a mutation one after the other.  The client has the cookie the *)
(* request set once the response arrives, which may be after the response  *)
(* to a later request, or never.                                           *)
(***************************************************************************)
EXTENDS Integers, FiniteSets, Sequences

CONSTANTS
  Clients,           \* browsers
  Requests,          \* requests that may be in progress at once
  Fields,            \* positions of the root fields of a request, 1..n
  Queries,           \* what a query may ask: functions of Fields to operations
  Mutations,         \* what a mutation may ask
  MaxProjectsLimit,  \* projects a user may create
  LegacyProjects,    \* projects from before there were users
  Secrets,           \* Secrets[c]: legacy projects c has the secret cookie of
  MaxUsers,          \* bound on the number of users
  MaxProjects,       \* bound on the number of projects created
  Faults             \* what may fail: subset of {"query", "save", "response"}

NoUser   == 0
NoClient == "no client"
Nothing  == "none"   \* a field that is not asked for

Operations == {"createProject", "projectList", "project", "updateProject", Nothing}

ASSUME UsersAssumption ==
  /\ NoClient \notin Clients
  /\ IsFiniteSet(Requests)
  /\ Fields \subseteq Nat
  /\ Queries \subseteq [Fields -> {"projectList", "project", Nothing}]
  /\ Mutations \subseteq [Fields -> {"createProject", "updateProject", Nothing}]
  /\ MaxProjectsLimit \in Nat \ {0}
  /\ LegacyProjects \cap Nat = {} /\ IsFiniteSet(LegacyProjects)
  /\ Secrets \in [Clients -> SUBSET LegacyProjects]
  /\ MaxUsers \in Nat /\ MaxProjects \in Nat

VARIABLES
  users,      \* users are numbered; this is the last one in the table
  owner,      \* projects in the table, each with its user
  created,    \* projects created are numbered too; this is the last one
  cookie,     \* the user in the cookie of each client
  client,     \* client of each request
  sent,       \* the user in the cookie a request was sent with
  session,    \* userID in the session of a request
  header,     \* the last cookie a request has set
  serial,     \* the request is a mutation
  op,         \* operation of each call
  target,     \* the project it is about
  pc,         \* its next step
  seen,       \* the owner of the project it read
  lock,       \* the call that holds the lock of the Authenticator
  author,     \* the client that created each project
  made,       \* users a request has created
  unsaved,    \* requests with a user they created, no save of which has worked
  mayStray    \* clients with a response lost or without the user it made, or with two requests at
              \* once before they had a user

db      == <<users, owner, created>>
ghosts  == <<author, made, mayStray>>
saved   == <<header, unsaved>>
request == <<client, sent, serial, op>>
vars    == <<users, owner, created, cookie, client, sent, session, header, serial, op, target, pc,
             seen, lock, author, made, unsaved, mayStray>>

Calls      == Requests \X Fields
ProjectIDs == 1..created \cup LegacyProjects
NoCall     == <<>>
NoProject  == 0
Unset      == -1

Steps == {"done", "start", "lock", "user", "create", "access", "count", "insert"}

UserIDs == 0..users

TypeOK ==
  /\ users \in Nat
  /\ owner \in [ProjectIDs -> UserIDs]
  /\ created \in 0..MaxProjects
  /\ cookie \in [Clients -> UserIDs]
  /\ client \in [Requests -> Clients \cup {NoClient}]
  /\ sent \in [Requests -> UserIDs]
  /\ session \in [Requests -> UserIDs]
  /\ header \in [Requests -> UserIDs \cup {Unset}]
  /\ serial \in [Requests -> BOOLEAN]
  /\ op \in [Calls -> Operations]
  /\ target \in [Calls -> ProjectIDs \cup {NoProject}]
  /\ pc \in [Calls -> Steps]
  /\ seen \in [Calls -> UserIDs]
  /\ lock \in Calls \cup {NoCall}
  /\ author \in [1..created -> Clients]
  /\ made \in [Requests -> Nat]
  /\ unsaved \in SUBSET Requests
  /\ mayStray \in SUBSET Clients

Init ==
  /\ users = 0
  /\ owner = [p \in LegacyProjects |-> NoUser]
  /\ created = 0
  /\ cookie = [c \in Clients |-> NoUser]
  /\ client = [r \in Requests |-> NoClient]
  /\ sent = [r \in Requests |-> NoUser]
  /\ session = [r \in Requests |-> NoUser]
  /\ header = [r \in Requests |-> Unset]
  /\ serial = [r \in Requests |-> FALSE]
  /\ op = [x \in Calls |-> Nothing]
  /\ target = [x \in Calls |-> NoProject]
  /\ pc = [x \in Calls |-> "done"]
  /\ seen = [x \in Calls |-> NoUser]
  /\ lock = NoCall
  /\ author = <<>>
  /\ made = [r \in Requests |-> 0]
  /\ unsaved = {}
  /\ mayStray = {}

Goto(x, step) == pc' = [pc EXCEPT ![x] = step]

May(fault) == fault \in Faults

-----------------------------------------------------------------------------
(* Requests and responses *)

Idle(r) == client[r] = NoClient

Authorised == {"project", "updateProject"}

\* A client sends a request with its cookie.
Send(r) ==
  /\ Idle(r)
  /\ \E c \in Clients, m \in BOOLEAN :
       \E ops \in IF m THEN Mutations ELSE Queries :
         /\ client' = [client EXCEPT ![r] = c]
         /\ sent' = [sent EXCEPT ![r] = cookie[c]]
         /\ session' = [session EXCEPT ![r] = cookie[c]]
         /\ serial' = [serial EXCEPT ![r] = m]
         /\ op' = [x \in Calls |-> IF x[1] = r THEN ops[x[2]] ELSE op[x]]
         /\ pc' = [x \in Calls |-> IF x[1] # r THEN pc[x]
                                  ELSE IF ops[x[2]] = Nothing THEN "done" ELSE "start"]
         /\ mayStray' = IF cookie[c] = NoUser /\ \E q \in Requests : client[q] = c
                          THEN mayStray \cup {c} ELSE mayStray
  /\ UNCHANGED <<db, cookie, saved, target, seen, lock, author, made>>

\* The response goes out when every field is done; the client takes the cookie it sets.
Respond(r) ==
  /\ ~Idle(r)
  /\ \A f \in Fields : pc[<<r, f>>] = "done"
  /\ client' = [client EXCEPT ![r] = NoClient]
  /\ \/ /\ cookie' = IF header[r] = Unset THEN cookie ELSE [cookie EXCEPT ![client[r]] = header[r]]
        /\ mayStray' = IF r \in unsaved THEN mayStray \cup {client[r]} ELSE mayStray
     \/ /\ May("response")
        /\ mayStray' = mayStray \cup {client[r]}
        /\ UNCHANGED cookie
  /\ sent' = [sent EXCEPT ![r] = NoUser]
  /\ session' = [session EXCEPT ![r] = NoUser]
  /\ header' = [header EXCEPT ![r] = Unset]
  /\ serial' = [serial EXCEPT ![r] = FALSE]
  /\ op' = [x \in Calls |-> IF x[1] = r THEN Nothing ELSE op[x]]
  /\ made' = [made EXCEPT ![r] = 0]
  /\ unsaved' = unsaved \ {r}
  /\ UNCHANGED <<db, target, pc, seen, lock, author>>

\* The fields of a mutation run in order.
MayStart(x) ==
  /\ pc[x] = "start"
  /\ serial[x[1]] => \A f \in Fields : f < x[2] => pc[<<x[1], f>>] = "done"

\* authorize, and the query of one project, read the project before they ask who the user is.
GetProject(x) ==
  /\ MayStart(x)
  /\ op[x] \in Authorised
  /\ \/ \E p \in ProjectIDs :
          /\ target' = [target EXCEPT ![x] = p]
          /\ seen' = [seen EXCEPT ![x] = owner[p]]
          /\ Goto(x, "lock")
     \/ /\ May("query")
        /\ Goto(x, "done")
        /\ UNCHANGED <<target, seen>>
  /\ UNCHANGED <<db, cookie, request, session, saved, lock, ghosts>>

\* The next thing a call does is ask for the user.
Asks(x) == pc[x] = "lock" \/ (MayStart(x) /\ op[x] \notin Authorised)

-----------------------------------------------------------------------------
(* The Authenticator *)

Unlock == lock' = NoCall

\* A call that is over has no project.
Forget(x) ==
  /\ target' = [target EXCEPT ![x] = NoProject]
  /\ seen' = [seen EXCEPT ![x] = NoUser]

Keep == UNCHANGED <<target, seen>>

\* Mutant of Acquire: no lock.
AcquireNothing(x) ==
  /\ Asks(x)
  /\ Goto(x, "user")
  /\ UNCHANGED <<db, cookie, request, session, saved, target, seen, lock, ghosts>>

Acquire(x) ==
  /\ Asks(x)
  /\ lock = NoCall
  /\ lock' = x
  /\ Goto(x, "user")
  /\ UNCHANGED <<db, cookie, request, session, saved, target, seen, ghosts>>

\* What follows once the user of a call is known.
WithUser(x) ==
  CASE op[x] = "createProject" -> Goto(x, "count") /\ Unlock
    [] op[x] = "projectList" -> Goto(x, "done") /\ Unlock
    [] OTHER -> Goto(x, "access") /\ UNCHANGED lock

\* The session goes into the header of the response; when encoding it fails, the header stays.
SaveSession(r, user) ==
  /\ header' = [header EXCEPT ![r] = user]
  /\ unsaved' = unsaved \ {r}

SaveFails == May("save") /\ UNCHANGED saved

\* Mutant of GetUser: access is refused without a user, and the lock kept.
GetUserLocked(x) ==
  LET user == session[x[1]] IN
  /\ pc[x] = "user"
  /\ SaveSession(x[1], user) \/ SaveFails
  /\ \/ user = NoUser /\ op[x] \in Authorised /\ Goto(x, "done") /\ Forget(x) /\ UNCHANGED lock
     \/ user = NoUser /\ op[x] \notin Authorised /\ Goto(x, "create") /\ Keep /\ UNCHANGED lock
     \/ user # NoUser /\ WithUser(x) /\ Keep
     \/ user # NoUser /\ May("query") /\ Goto(x, "done") /\ Forget(x) /\ Unlock
  /\ UNCHANGED <<db, cookie, request, session, ghosts>>

\* Mutant of GetUser: a user that cannot be read is taken for one that does not exist.
GetUserOrNew(x) ==
  LET user == session[x[1]] IN
  /\ pc[x] = "user"
  /\ SaveSession(x[1], user) \/ SaveFails
  /\ \/ user = NoUser /\ op[x] \in Authorised /\ Goto(x, "done") /\ Forget(x) /\ Unlock
     \/ user = NoUser /\ op[x] \notin Authorised /\ Goto(x, "create") /\ Keep /\ UNCHANGED lock
     \/ user # NoUser /\ WithUser(x) /\ Keep
     \/ user # NoUser /\ May("query") /\ op[x] \notin Authorised
        /\ Goto(x, "create") /\ Keep /\ UNCHANGED lock
  /\ UNCHANGED <<db, cookie, request, session, ghosts>>

\* The session is saved as soon as it is read, an error of which is ignored, and its user looked
\* up.  Without one in it, access is refused, which a query answers with the project made
\* immutable; when looking it up fails the call does, and no user is created.
GetUser(x) ==
  LET user == session[x[1]] IN
  /\ pc[x] = "user"
  /\ SaveSession(x[1], user) \/ SaveFails
  /\ \/ user = NoUser /\ op[x] \in Authorised /\ Goto(x, "done") /\ Forget(x) /\ Unlock
     \/ user = NoUser /\ op[x] \notin Authorised /\ Goto(x, "create") /\ Keep /\ UNCHANGED lock
     \/ user # NoUser /\ WithUser(x) /\ Keep
     \/ user # NoUser /\ May("query") /\ Goto(x, "done") /\ Forget(x) /\ Unlock
  /\ UNCHANGED <<db, cookie, request, session, ghosts>>

\* Mutant of CreateUser: the session is given a user that could not be inserted.
CreateUserUnchecked(x) ==
  LET r == x[1] IN
  /\ pc[x] = "create"
  /\ \E inserted \in {users < MaxUsers, ~May("query")} :
       /\ users' = IF inserted THEN users + 1 ELSE users
       /\ made' = IF inserted THEN [made EXCEPT ![r] = @ + 1] ELSE made
       /\ session' = [session EXCEPT ![r] = users + 1]
       /\ SaveSession(r, users + 1)
       /\ WithUser(x)
  /\ UNCHANGED <<owner, created, cookie, request, target, seen, author, mayStray>>

\* Mutant of CreateUser: the session is not saved.
CreateUserUnsaved(x) ==
  LET r == x[1] IN
  /\ pc[x] = "create"
  /\ \/ /\ users < MaxUsers
        /\ users' = users + 1
        /\ made' = [made EXCEPT ![r] = @ + 1]
        /\ session' = [session EXCEPT ![r] = users + 1]
        /\ WithUser(x)
     \/ /\ May("query") \/ users = MaxUsers
        /\ Goto(x, "done")
        /\ Unlock
        /\ UNCHANGED <<users, made, session>>
  /\ UNCHANGED <<owner, created, cookie, request, saved, target, seen, author, mayStray>>

\* A new user is inserted, put in the session, and the session is saved.  When only saving fails,
\* the user is in the session of this request already.
CreateUser(x) ==
  LET r == x[1] IN
  /\ pc[x] = "create"
  /\ \/ /\ users < MaxUsers
        /\ users' = users + 1
        /\ made' = [made EXCEPT ![r] = @ + 1]
        /\ session' = [session EXCEPT ![r] = users + 1]
        /\ \/ /\ SaveSession(r, users + 1)
              /\ WithUser(x)
           \/ /\ May("save")
              /\ unsaved' = unsaved \cup {r}
              /\ Goto(x, "done")
              /\ Unlock
              /\ UNCHANGED header
     \/ /\ May("query") \/ users = MaxUsers
        /\ Goto(x, "done")
        /\ Unlock
        /\ UNCHANGED <<users, made, session, saved>>
  /\ UNCHANGED <<owner, created, cookie, request, target, seen, author, mayStray>>

HasLegacyAccess(x) == target[x] \in Secrets[client[x[1]]]

\* CheckProjectAccess: the owner as it was read has access, and so does a client with the secret
\* of the project, which its user then becomes the owner of.  The session is saved once more, and
\* access denied when that fails.
CheckProjectAccess(x) ==
  LET user    == session[x[1]]
      migrate == seen[x] # user /\ HasLegacyAccess(x) IN
  /\ pc[x] = "access"
  /\ \/ /\ migrate
        /\ owner' = [owner EXCEPT ![target[x]] = user]
        /\ SaveSession(x[1], user) \/ SaveFails
     \/ /\ seen[x] = user
        /\ SaveSession(x[1], user) \/ SaveFails
        /\ UNCHANGED owner
     \/ /\ seen[x] # user
        /\ migrate => May("query")
        /\ UNCHANGED <<owner, saved>>
  /\ Unlock
  /\ Goto(x, "done")
  /\ Forget(x)
  /\ UNCHANGED <<users, created, cookie, request, session, ghosts>>

-----------------------------------------------------------------------------
(* Creating projects *)

ProjectsOf(u) == {p \in ProjectIDs : owner[p] = u}

\* Mutant of GetProjectCountForUser: one project too many.
GetProjectCountForUserLate(x) ==
  /\ pc[x] = "count"
  /\ \/ /\ Cardinality(ProjectsOf(session[x[1]])) <= MaxProjectsLimit
        /\ Goto(x, "insert")
     \/ Goto(x, "done")
  /\ UNCHANGED <<db, cookie, request, session, saved, target, seen, lock, ghosts>>

\* The limit is checked against the number of projects read here.
GetProjectCountForUser(x) ==
  LET within == Cardinality(ProjectsOf(session[x[1]])) < MaxProjectsLimit IN
  /\ pc[x] = "count"
  /\ \/ within /\ Goto(x, "insert")
     \/ (~within \/ May("query")) /\ Goto(x, "done")
  /\ UNCHANGED <<db, cookie, request, session, saved, target, seen, lock, ghosts>>

\* The project is inserted with its files, in one database transaction.
CreateProject(x) ==
  /\ pc[x] = "insert"
  /\ \/ /\ created < MaxProjects
        /\ created' = created + 1
        /\ owner' = [p \in ProjectIDs' |-> IF p = created' THEN session[x[1]] ELSE owner[p]]
        /\ author' = Append(author, client[x[1]])
     \/ /\ May("query") \/ created = MaxProjects
        /\ UNCHANGED <<owner, created, author>>
  /\ Goto(x, "done")
  /\ UNCHANGED <<users, cookie, request, session, saved, target, seen, lock, made, mayStray>>

-----------------------------------------------------------------------------
Run(x) ==
  \/ GetProject(x)
  \/ GetUser(x) \/ CreateUser(x) \/ CheckProjectAccess(x)
  \/ GetProjectCountForUser(x) \/ CreateProject(x)

Next ==
  \/ \E r \in Requests : Send(r) \/ Respond(r)
  \/ \E x \in Calls : Acquire(x) \/ Run(x)

Spec == Init /\ [][Next]_vars

\* A request takes its next step, up to its response; a sync.Mutex starves none that wait for it.
Fairness ==
  \A r \in Requests :
    SF_vars(~Idle(r) /\ (Respond(r) \/ \E f \in Fields : Acquire(<<r, f>>) \/ Run(<<r, f>>)))

FairSpec == Spec /\ Fairness

-----------------------------------------------------------------------------
(* Properties *)

\* The fields of a query ask for the user at the same time (src/auth/auth.go:61): together they
\* create one at most, so the cookie the client gets is the user of all of them.
OneUserPerRequest == \A r \in Requests : made[r] <= 1

\* A client changes user only by the response to a request that it sent with another cookie than
\* the one it has (src/middleware/sessions/sessions.go:57 tries to save the session of every
\* request): a user that cannot be read, or any other failure, never makes it a new user.
KeepsUser ==
  [][\A c \in Clients : cookie[c] # NoUser /\ cookie'[c] # cookie[c] =>
       \E r \in Requests : client[r] = c /\ client'[r] = NoClient /\ sent[r] # cookie[c]]_vars

\* The user of a client owns every project the client created, or does once the response to its
\* request arrives (src/auth/auth.go:69).  Except for a client that lost a response, that sent two
\* requests at once before it had a user, or whose new user no save of a request could put in the
\* response: an error of src/middleware/sessions/sessions.go:57 is ignored, so a later field of
\* that request creates a project for a user the client never gets.
OwnProjects ==
  \A p \in 1..created :
    LET c == author[p] IN
    c \in mayStray \/ owner[p] = cookie[c]
      \/ \E r \in Requests : client[r] = c /\ (header[r] = owner[p] \/ (r \in unsaved /\ session[r] = owner[p]))

\* The number of projects is read before a project is inserted (src/controller/projects.go:53):
\* a user has no more projects than the limit and one for each other request in progress.
LimitUpToRequests ==
  \A u \in 1..users :
    Cardinality(ProjectsOf(u) \cap 1..created) <= MaxProjectsLimit - 1 + Cardinality(Requests)

\* Every request is answered, whatever fails: the lock is given back on every path.
EveryRequestAnswered == \A r \in Requests : []<>Idle(r)
=============================================================================
