------------------------------ MODULE Response ------------------------------
(***************************************************************************)
(* How one GraphQL request becomes a response: the generated executor      *)
(* (src/generated.go) runs the resolvers of the fields it asks for and     *)
(* spreads the nulls, and the error middleware (src/middleware/errors/     *)
(* errors.go) rewrites the errors.                                         *)
(*                                                                         *)
(* A node is a place in the data of the response: a field, or an element   *)
(* of a list.  Its path is a sequence of field names and positions, its    *)
(* pos the field names only, which is what a selection depends on.  What   *)
(* resolvers return is arbitrary.                                          *)
(***************************************************************************)
EXTENDS Schema, Integers, Sequences, SequencesExt

CONSTANTS
  Operations,  \* operations: an object to start at; for each pos the fields selected, and in what object
  MaxItems,    \* bound on the elements of a list of objects
  MaxErrors    \* bound on the errors of a request

IsObject(type) == type.named \in DOMAIN FieldTypes

\* What validation leaves: fields the object has, each of them once, with a selection for an object.
Valid(o) ==
  /\ o.root \in {"Query", "Mutation"}
  /\ o.object \in [DOMAIN o.select -> STRING]
  /\ <<>> \in DOMAIN o.select /\ o.object[<<>>] = o.root
  /\ \A pos \in DOMAIN o.select :
       /\ pos \in Seq(STRING) /\ o.select[pos] \in Seq(STRING) /\ IsInjective(o.select[pos])
       /\ o.object[pos] \in DOMAIN FieldTypes
       /\ \A f \in ToSet(o.select[pos]) :
            LET type == FieldTypes[o.object[pos]][f] IN
            /\ f \in DOMAIN FieldTypes[o.object[pos]]
            /\ IsObject(type) =>
                 Append(pos, f) \in DOMAIN o.select /\ o.object[Append(pos, f)] = type.named

ASSUME ResponseAssumption ==
  /\ MaxItems \in Nat /\ MaxErrors \in Nat
  /\ \A o \in Operations : Valid(o)

VARIABLES
  operation,  \* what the request asks for
  nodes,      \* the nodes opened so far
  errors,     \* the errors of the request, in the order they were added
  sent,       \* the response has been sent
  response    \* its errors

vars == <<operation, nodes, errors, sent, response>>

Rejected == [root |-> "none", object |-> <<>>, select |-> <<>>]   \* a request that is not valid GraphQL

ResolverErrors == {"user", "authorization", "server"}
Kinds          == ResolverErrors \cup {"graphql"}
Messages       == {"own", "server", "graphql"}
Codes          == {"BAD_REQUEST", "AUTHORIZATION_ERROR", "INTERNAL_SERVER_ERROR", "none"}

Paths == DOMAIN nodes

TypeOK ==
  /\ operation \in Operations \cup {Rejected}
  /\ \A n \in Paths :
       /\ nodes[n].pos \in DOMAIN operation.select \/ nodes[n].type.named \notin DOMAIN FieldTypes
       /\ nodes[n].pc \in {"field", "open", "done"}
       /\ nodes[n].null \in BOOLEAN /\ nodes[n].nil \in BOOLEAN
  /\ \A i \in 1..Len(errors) : errors[i].kind \in Kinds
  /\ sent \in BOOLEAN
  /\ \A i \in 1..Len(response) : response[i].message \in Messages /\ response[i].code \in Codes

-----------------------------------------------------------------------------
(* Nodes *)

Node(type, pos, pc) == [type |-> type, pos |-> pos, pc |-> pc, null |-> FALSE, nil |-> FALSE]

\* The fields selected in the object at n, and the node of one of them.
FieldsOf(o, n, pos) == {Append(n, f) : f \in ToSet(o.select[pos])}

FieldNode(object, pos, f) == Node(FieldTypes[object][f], Append(pos, f), "field")

Children(n) == {c \in Paths : c # <<>> /\ Front(c) = n}

\* c is in n, or n itself.
Within(c, n) == IsPrefix(n, c)

Init ==
  /\ sent = FALSE
  /\ response = <<>>
  /\ \/ /\ operation \in Operations
        /\ nodes = [n \in {<<>>} \cup FieldsOf(operation, <<>>, <<>>) |->
                      IF n = <<>> THEN Node(Optional(operation.root), <<>>, "open")
                                  ELSE FieldNode(operation.root, <<>>, Last(n))]
        /\ errors = <<>>
     \/ /\ operation = Rejected
        /\ nodes = <<>>
        /\ \E k \in 1..MaxErrors : errors = [i \in 1..k |-> [path |-> <<>>, kind |-> "graphql"]]

ObjectOf(c) == nodes[Front(c)]

Delays(c) == Objects[ObjectOf(c).type.named].delays

Resolved(c) == Len(c) = 1 \/ Last(c) \in Delays(c)

\* Mutant of Ready: the fields of a mutation run beside each other.
ReadyAtOnce(c) == TRUE

\* An object runs its fields in order, and then the ones with a resolver of their own all at once.
Ready(c) ==
  LET sel == operation.select[ObjectOf(c).pos]
      at(f) == CHOOSE i \in 1..Len(sel) : sel[i] = f
  IN \A g \in ToSet(sel) \ Delays(c) :
       Last(c) \in Delays(c) \/ at(g) < at(Last(c)) => nodes[Append(Front(c), g)].pc = "done"

-----------------------------------------------------------------------------
(* Fields *)

Item(type) == [Optional(type.named) EXCEPT !.required = type.items]

Position(i) == ToString(i)

Elements(c, k) == {Append(c, Position(i)) : i \in 1..k}

\* Field c has a value of k objects: its elements, and the fields of each object, are opened.
Opened(c, k) ==
  LET type == nodes[c].type
      pos == nodes[c].pos
      elements == IF type.list THEN Elements(c, k) ELSE {}
      fields == UNION {FieldsOf(operation, n, pos) : n \in IF type.list THEN elements ELSE {c}}
  IN nodes' = [n \in Paths \cup elements \cup fields |->
       IF n \in Paths THEN [nodes EXCEPT ![c].pc = "open"][n]
       ELSE IF n \in elements THEN Node(Item(type), pos, "open")
       ELSE FieldNode(type.named, pos, Last(n))]

Nil(c) == nodes' = [nodes EXCEPT ![c].pc = "done", ![c].null = TRUE, ![c].nil = TRUE]

\* The field is null, with an error.
Refuse(c, path, kind) ==
  /\ Len(errors) < MaxErrors
  /\ errors' = Append(errors, [path |-> path, kind |-> kind])
  /\ Nil(c)

Calls(c) == nodes[c].pc = "field" /\ Ready(c)

\* A resolver, or the object, has a value for the field; scalars, and lists of them, are done.
Value(c) ==
  /\ Calls(c)
  /\ IF IsObject(nodes[c].type)
       THEN \E k \in IF nodes[c].type.list THEN 0..MaxItems ELSE {1} : Opened(c, k)
       ELSE nodes' = [nodes EXCEPT ![c].pc = "done"]
  /\ UNCHANGED <<operation, errors, sent, response>>

\* A field without a value is null.
NoValue(c) ==
  /\ Calls(c)
  /\ ~nodes[c].type.required
  /\ Nil(c)
  /\ UNCHANGED <<operation, errors, sent, response>>

\* Required fields that the object holds as a pointer, which may be nil.
Pointers == {"version"}

MustNotBeNull(c) ==
  /\ Calls(c)
  /\ Last(c) \in Pointers
  /\ Refuse(c, c, "server")
  /\ UNCHANGED <<operation, sent, response>>

\* Mutant of ResolverError: the null that stands for the error is reported too.
ResolverErrorTwice(c) ==
  /\ Calls(c)
  /\ Resolved(c)
  /\ \E kind \in ResolverErrors :
       errors' = errors \o <<[path |-> c, kind |-> kind], [path |-> c, kind |-> "server"]>>
  /\ Nil(c)
  /\ UNCHANGED <<operation, sent, response>>

\* A resolver returns an error, or panics, which is recovered as an error of the server.
ResolverError(c) ==
  /\ Calls(c)
  /\ Resolved(c)
  /\ \E kind \in ResolverErrors : Refuse(c, c, kind)
  /\ UNCHANGED <<operation, sent, response>>

\* Types of input that are decoded by the program, which may refuse them.
Decoded == {"UUID", "Address"}

\* Where the arguments of a field may be refused.
Inputs_(f) ==
  UNION {IF Arguments[f][a] \in DOMAIN Inputs
           THEN {<<a, k>> : k \in {k \in DOMAIN Inputs[Arguments[f][a]] :
                                     Inputs[Arguments[f][a]][k] \in Decoded}}
           ELSE {<<a>>} : a \in DOMAIN Arguments[f]}

\* The arguments are decoded before the resolver runs, up to the first that is refused; the error
\* has the path of the argument.
ArgumentError(c) ==
  /\ Calls(c)
  /\ Len(c) = 1 /\ c[1] \in DOMAIN Arguments
  /\ \E a \in Inputs_(c[1]) : Refuse(c, c \o a, "server")
  /\ UNCHANGED <<operation, sent, response>>

-----------------------------------------------------------------------------
(* Objects and lists *)

Ended(n) == nodes[n].pc = "open" /\ \A c \in Children(n) : nodes[c].pc = "done"

\* Mutant of Complete: a list keeps its null elements.
CompleteElements(n) ==
  /\ Ended(n)
  /\ nodes' = [nodes EXCEPT ![n].pc = "done", ![n].null =
       ~nodes[n].type.list /\ \E c \in Children(n) :
         nodes[c].null /\ Last(c) \in Objects[nodes[n].type.named].counts]
  /\ UNCHANGED <<operation, errors, sent, response>>

\* Mutant of Complete: an object waits for values.
CompleteValues(n) ==
  /\ Ended(n)
  /\ \A c \in Children(n) : ~nodes[c].null
  /\ nodes' = [nodes EXCEPT ![n].pc = "done"]
  /\ UNCHANGED <<operation, errors, sent, response>>

\* An object or list whose fields or elements have all ended is null when one is that it counts.
Complete(n) ==
  LET type == nodes[n].type
      invalid == {c \in Children(n) : nodes[c].null}
  IN
  /\ Ended(n)
  /\ nodes' = [nodes EXCEPT ![n].pc = "done", ![n].null =
       IF type.list THEN type.items /\ invalid # {}
       ELSE \E c \in invalid : Last(c) \in Objects[type.named].counts]
  /\ UNCHANGED <<operation, errors, sent, response>>

-----------------------------------------------------------------------------
(* The error middleware *)

\* Mutant of CodeOf: authorization errors are taken for errors of the server.
CodeOfServer(kind) == IF kind = "user" THEN "BAD_REQUEST" ELSE "INTERNAL_SERVER_ERROR"

\* Mutant of CodeOf: the kind is the code.
CodeOfKind(kind) == kind

CodeOf(kind) ==
  CASE kind = "user" -> "BAD_REQUEST"
    [] kind = "authorization" -> "AUTHORIZATION_ERROR"
    [] OTHER -> "INTERNAL_SERVER_ERROR"

MessageOf(kind) == IF kind \in {"server", "graphql"} THEN kind ELSE "own"

\* The errors share the one map of extensions of the response, which keeps the last code.
Sent ==
  LET coded == {i \in 1..Len(errors) : errors[i].kind # "graphql"}
      code == IF coded = {} THEN "none" ELSE CodeOf(errors[Max(coded)].kind)
  IN [i \in 1..Len(errors) |->
        [path |-> errors[i].path, message |-> MessageOf(errors[i].kind), code |-> code]]

Respond ==
  /\ ~sent
  /\ \A n \in Paths : nodes[n].pc = "done"
  /\ sent' = TRUE
  /\ response' = Sent
  /\ UNCHANGED <<operation, nodes, errors>>

-----------------------------------------------------------------------------
Resolve(c) == Value(c) \/ NoValue(c) \/ MustNotBeNull(c) \/ ResolverError(c) \/ ArgumentError(c)

Next ==
  \/ \E c \in Paths \ {<<>>} : Resolve(c)
  \/ \E n \in Paths : Complete(n)
  \/ Respond

Spec == Init /\ [][Next]_vars

\* The goroutines of a request run until they end.
FairSpec == Spec /\ WF_vars(Next)

-----------------------------------------------------------------------------
(* Properties *)

\* What lies between a node and one in it, with that one, may none of it be null.
Carries(n, m) ==
  \A k \in Paths : Within(m, k) /\ Within(k, n) /\ k # n => nodes[k].type.required

\* A field, object or list is null if and only if something in it had no value and nothing from
\* there up to it may be null: one project that cannot be shown takes its list with it
\* (src/generated.go:11394), and a failed field of a query the data of the whole response, but
\* never more than that.
NullReachesParents ==
  \A n \in Paths : nodes[n].pc = "done" =>
    (nodes[n].null <=> \E m \in Paths : Within(m, n) /\ nodes[m].nil /\ Carries(n, m))

\* A null where none may be has an error in it (src/generated.go:4106), whatever ran beside it, and
\* no error is reported twice.
ErrorsExplainNulls ==
  /\ \A n \in Paths : nodes[n].null /\ nodes[n].type.required =>
       \E i \in 1..Len(errors) : Within(errors[i].path, n)
  /\ operation # Rejected =>
       \A i, j \in 1..Len(errors) : i # j => errors[i].path # errors[j].path

\* The errors of a response with errors of one kind have the code of that kind; with more than one
\* kind they share one code of theirs (src/middleware/errors/errors.go:81).
CodeOfItsKind ==
  operation # Rejected => \A i \in 1..Len(response) :
    \E e \in ToSet(errors) :
      response[i].code = CASE e.kind = "user" -> "BAD_REQUEST"
                           [] e.kind = "authorization" -> "AUTHORIZATION_ERROR"
                           [] e.kind = "server" -> "INTERNAL_SERVER_ERROR"

\* The resolver of a mutation runs once everything of those before it has ended, also when they
\* failed (src/generated.go:9385): what they did is done in the order it was asked for.
MutationsInOrder ==
  [][operation.root = "Mutation" =>
       \A i, j \in 1..Len(operation.select[<<>>]) :
         LET before == <<operation.select[<<>>][i]>>
             c == <<operation.select[<<>>][j]>>
         IN i < j /\ nodes[c].pc = "field" /\ nodes'[c].pc # "field" =>
              \A n \in Paths : Within(n, before) => nodes[n].pc = "done"]_vars

\* Every request gets a response, whatever its resolvers return.
EveryRequestResponds == <>sent
=============================================================================
