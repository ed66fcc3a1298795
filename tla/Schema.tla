------------------------------- MODULE Schema -------------------------------
(***************************************************************************)
(* What the generated executor (src/generated.go) knows of each object,    *)
(* field, argument and input: the type a field function marshals to and    *)
(* whether it accepts null, what an object does with the null of a field,  *)
(* and what is decoded before a resolver runs.  Introspection is left out. *)
(***************************************************************************)
EXTENDS TLC

\* Types of fields: required is marshalN and the check of null, items the check of null elements.
Optional(t) == [named |-> t, list |-> FALSE, items |-> FALSE, required |-> FALSE]
Required(t) == [Optional(t) EXCEPT !.required = TRUE]
OptionalList(t) == [named |-> t, list |-> TRUE, items |-> TRUE, required |-> FALSE]
RequiredList(t) == [OptionalList(t) EXCEPT !.required = TRUE]
RequiredListOfOptional(t) == [RequiredList(t) EXCEPT !.items = FALSE]

-----------------------------------------------------------------------------
(* Fields of the objects *)

AccountFields ==
  [address |-> Required("Address"), deployedContracts |-> RequiredList("String"),
   state |-> Required("String")]
DeploymentSource ==
  [id |-> Required("UUID"), title |-> Required("String"), script |-> Required("String")]
DeploymentCall ==
  [arguments |-> OptionalList("String"), address |-> Required("Address"),
   blockHeight |-> Required("Int")]
DeploymentOutcome ==
  [errors |-> OptionalList("ProgramError"), events |-> OptionalList("Event"),
   logs |-> OptionalList("String")]
ContractDeploymentFields == DeploymentSource @@ DeploymentCall @@ DeploymentOutcome

ContractTemplateFields ==
  [id |-> Required("UUID"), index |-> Required("Int"), title |-> Required("String"),
   script |-> Required("String")]
EventFields == [type |-> Required("String"), values |-> RequiredList("String")]

ProjectMutations == [createProject |-> Required("Project"), updateProject |-> Required("Project")]
WholeProjectMutations ==
  [resetProjectState |-> Required("UUID"), deleteProject |-> Required("UUID")]
ContractMutations ==
  [createContractTemplate |-> Required("ContractTemplate"),
   updateContractTemplate |-> Required("ContractTemplate")]
ContractDeployMutations ==
  [deleteContractTemplate |-> Required("UUID"),
   createContractDeployment |-> Required("ContractDeployment")]
TransactionMutations ==
  [createTransactionTemplate |-> Required("TransactionTemplate"),
   updateTransactionTemplate |-> Required("TransactionTemplate")]
TransactionRunMutations ==
  [deleteTransactionTemplate |-> Required("UUID"),
   createTransactionExecution |-> Required("TransactionExecution")]
ScriptMutations ==
  [createScriptTemplate |-> Required("ScriptTemplate"),
   updateScriptTemplate |-> Required("ScriptTemplate")]
ScriptRunMutations ==
  [deleteScriptTemplate |-> Required("UUID"),
   createScriptExecution |-> Required("ScriptExecution")]
MutationFields ==
  ProjectMutations @@ WholeProjectMutations @@ ContractMutations @@ ContractDeployMutations
    @@ TransactionMutations @@ TransactionRunMutations @@ ScriptMutations @@ ScriptRunMutations

PlaygroundInfoFields ==
  [apiVersion |-> Required("Version"), cadenceVersion |-> Required("Version"),
   emulatorVersion |-> Required("Version")]
ProgramErrorFields ==
  [message |-> Required("String"), startPosition |-> Optional("ProgramPosition"),
   endPosition |-> Optional("ProgramPosition")]
ProgramPositionFields ==
  [offset |-> Required("Int"), line |-> Required("Int"), column |-> Required("Int")]

ProjectIDs ==
  [id |-> Required("UUID"), publicId |-> Required("UUID"), parentId |-> Optional("UUID")]
ProjectTexts ==
  [title |-> Optional("String"), description |-> Optional("String"),
   readme |-> Optional("String")]
ProjectSettings ==
  [seed |-> Required("Int"), version |-> Required("Version"), persist |-> Optional("Boolean")]
ProjectState ==
  [updatedAt |-> Required("String"), mutable |-> Optional("Boolean"),
   numberOfAccounts |-> Required("Int")]
ProjectAccountsAndTransactions ==
  [accounts |-> OptionalList("Account"),
   transactionTemplates |-> OptionalList("TransactionTemplate"),
   transactionExecutions |-> OptionalList("TransactionExecution")]
ProjectScripts ==
  [scriptTemplates |-> OptionalList("ScriptTemplate"),
   scriptExecutions |-> OptionalList("ScriptExecution")]
ProjectContracts ==
  [contractTemplates |-> OptionalList("ContractTemplate"),
   contractDeployments |-> OptionalList("ContractDeployment")]
ProjectFields ==
  ProjectIDs @@ ProjectTexts @@ ProjectSettings @@ ProjectState @@ ProjectAccountsAndTransactions
    @@ ProjectScripts @@ ProjectContracts

ProjectListFields == [projects |-> OptionalList("Project")]
UserQueries ==
  [playgroundInfo |-> Required("PlaygroundInfo"), projectList |-> Required("ProjectList")]
ProjectQueries == [project |-> Required("Project"), account |-> Required("Account")]
TemplateQueries ==
  [contractTemplate |-> Required("ContractTemplate"),
   transactionTemplate |-> Required("TransactionTemplate")]
ScriptQueries == [scriptTemplate |-> Required("ScriptTemplate"), flowJson |-> Required("String")]
QueryFields == UserQueries @@ ProjectQueries @@ TemplateQueries @@ ScriptQueries

ScriptCall ==
  [id |-> Required("UUID"), script |-> Required("String"), arguments |-> OptionalList("String")]
ScriptOutcome ==
  [errors |-> OptionalList("ProgramError"), value |-> Required("String"),
   logs |-> RequiredList("String")]
ScriptExecutionFields == ScriptCall @@ ScriptOutcome
ScriptTemplateFields ==
  [id |-> Required("UUID"), index |-> Required("Int"), title |-> Required("String"),
   script |-> Required("String")]
TransactionCall ==
  [id |-> Required("UUID"), script |-> Required("String"), arguments |-> OptionalList("String")]
TransactionOutcome ==
  [signers |-> RequiredList("Address"), errors |-> OptionalList("ProgramError"),
   events |-> RequiredListOfOptional("Event"), logs |-> RequiredList("String")]
TransactionExecutionFields == TransactionCall @@ TransactionOutcome
TransactionTemplateFields ==
  [id |-> Required("UUID"), index |-> Required("Int"), title |-> Required("String"),
   script |-> Required("String")]

FieldTypes ==
  [Account |-> AccountFields,
   ContractDeployment |-> ContractDeploymentFields,
   ContractTemplate |-> ContractTemplateFields,
   Event |-> EventFields,
   Mutation |-> MutationFields,
   PlaygroundInfo |-> PlaygroundInfoFields,
   ProgramError |-> ProgramErrorFields,
   ProgramPosition |-> ProgramPositionFields,
   Project |-> ProjectFields,
   ProjectList |-> ProjectListFields,
   Query |-> QueryFields,
   ScriptExecution |-> ScriptExecutionFields,
   ScriptTemplate |-> ScriptTemplateFields,
   TransactionExecution |-> TransactionExecutionFields,
   TransactionTemplate |-> TransactionTemplateFields]

-----------------------------------------------------------------------------
(* Objects: the fields whose null makes the object null, and the ones that run beside each other *)

AccountObject == [counts |-> DOMAIN AccountFields, delays |-> {}]
ContractDeploymentObject ==
  [counts |-> {"id", "title", "script", "address", "blockHeight"},
   delays |-> {}]
ContractTemplateObject == [counts |-> DOMAIN ContractTemplateFields, delays |-> {}]
EventObject == [counts |-> DOMAIN EventFields, delays |-> {}]
MutationObject == [counts |-> DOMAIN MutationFields, delays |-> {}]
PlaygroundInfoObject == [counts |-> DOMAIN PlaygroundInfoFields, delays |-> {}]
ProgramErrorObject == [counts |-> {"message"}, delays |-> {}]
ProgramPositionObject == [counts |-> DOMAIN ProgramPositionFields, delays |-> {}]
ProjectObject ==
  [counts |-> {"id", "publicId", "seed", "version", "updatedAt", "numberOfAccounts"},
   delays |-> {"updatedAt", "accounts", "transactionTemplates", "transactionExecutions",
        "scriptTemplates", "scriptExecutions", "contractTemplates",
        "contractDeployments"}]
ProjectListObject == [counts |-> {}, delays |-> {}]
QueryObject == [counts |-> DOMAIN QueryFields, delays |-> DOMAIN QueryFields]
ScriptExecutionObject == [counts |-> {"id", "script", "value", "logs"}, delays |-> {}]
ScriptTemplateObject == [counts |-> DOMAIN ScriptTemplateFields, delays |-> {}]
TransactionExecutionObject ==
  [counts |-> {"id", "script", "signers", "events", "logs"},
   delays |-> {}]
TransactionTemplateObject == [counts |-> DOMAIN TransactionTemplateFields, delays |-> {}]

Objects ==
  [Account |-> AccountObject,
   ContractDeployment |-> ContractDeploymentObject,
   ContractTemplate |-> ContractTemplateObject,
   Event |-> EventObject,
   Mutation |-> MutationObject,
   PlaygroundInfo |-> PlaygroundInfoObject,
   ProgramError |-> ProgramErrorObject,
   ProgramPosition |-> ProgramPositionObject,
   Project |-> ProjectObject,
   ProjectList |-> ProjectListObject,
   Query |-> QueryObject,
   ScriptExecution |-> ScriptExecutionObject,
   ScriptTemplate |-> ScriptTemplateObject,
   TransactionExecution |-> TransactionExecutionObject,
   TransactionTemplate |-> TransactionTemplateObject]

\* An object counts the nulls of the fields that may not be null, and of no others.
ASSUME SchemaAssumption ==
  \A o \in DOMAIN FieldTypes :
    /\ FieldTypes[o] \in [DOMAIN FieldTypes[o] ->
                           [named : STRING, list : BOOLEAN, items : BOOLEAN, required : BOOLEAN]]
    /\ Objects[o].counts = {f \in DOMAIN FieldTypes[o] : FieldTypes[o][f].required}

-----------------------------------------------------------------------------
(* Arguments and inputs *)

CreateArguments ==
  [createContractDeployment |-> [input |-> "NewContractDeployment"],
   createContractTemplate |-> [input |-> "NewContractTemplate"],
   createProject |-> [input |-> "NewProject"],
   createScriptExecution |-> [input |-> "NewScriptExecution"],
   createScriptTemplate |-> [input |-> "NewScriptTemplate"],
   createTransactionExecution |-> [input |-> "NewTransactionExecution"],
   createTransactionTemplate |-> [input |-> "NewTransactionTemplate"]]
DeleteArguments ==
  [deleteContractTemplate |-> [id |-> "UUID", projectId |-> "UUID"],
   deleteProject |-> [projectId |-> "UUID"],
   deleteScriptTemplate |-> [id |-> "UUID", projectId |-> "UUID"],
   deleteTransactionTemplate |-> [id |-> "UUID", projectId |-> "UUID"],
   resetProjectState |-> [projectId |-> "UUID"]]
UpdateArguments ==
  [updateContractTemplate |-> [input |-> "UpdateContractTemplate"],
   updateProject |-> [input |-> "UpdateProject"],
   updateScriptTemplate |-> [input |-> "UpdateScriptTemplate"],
   updateTransactionTemplate |-> [input |-> "UpdateTransactionTemplate"]]
QueryArguments ==
  [account |-> [address |-> "Address", projectId |-> "UUID"],
   contractTemplate |-> [id |-> "UUID", projectId |-> "UUID"],
   flowJson |-> [projectId |-> "UUID"],
   project |-> [id |-> "UUID"],
   scriptTemplate |-> [id |-> "UUID", projectId |-> "UUID"],
   transactionTemplate |-> [id |-> "UUID", projectId |-> "UUID"]]
Arguments == CreateArguments @@ DeleteArguments @@ UpdateArguments @@ QueryArguments

NewContractDeployment ==
  [projectId |-> "UUID", script |-> "String", address |-> "Address", arguments |-> "String"]
NewContractTemplate == [projectId |-> "UUID", title |-> "String", script |-> "String"]
NewFile == [projectId |-> "UUID", title |-> "String", script |-> "String"]
NewProject ==
  [parentId |-> "UUID", title |-> "String", description |-> "String", readme |-> "String",
   seed |-> "Int", numberOfAccounts |-> "Int",
   transactionTemplates |-> "NewProjectTransactionTemplate",
   scriptTemplates |-> "NewProjectScriptTemplate",
   contractTemplates |-> "NewProjectContractTemplate"]
NewProjectContractTemplate == [title |-> "String", script |-> "String"]
NewProjectFile == [title |-> "String", script |-> "String"]
NewProjectScriptTemplate == [title |-> "String", script |-> "String"]
NewProjectTransactionTemplate == [title |-> "String", script |-> "String"]
NewScriptExecution == [projectId |-> "UUID", script |-> "String", arguments |-> "String"]
NewScriptTemplate == [projectId |-> "UUID", title |-> "String", script |-> "String"]
NewTransactionExecution ==
  [projectId |-> "UUID", script |-> "String", signers |-> "Address", arguments |-> "String"]
NewTransactionTemplate == [projectId |-> "UUID", title |-> "String", script |-> "String"]
UpdateContractTemplate ==
  [id |-> "UUID", title |-> "String", projectId |-> "UUID", index |-> "Int",
   script |-> "String"]
UpdateFile ==
  [id |-> "UUID", title |-> "String", projectId |-> "UUID", index |-> "Int",
   script |-> "String"]
UpdateProject ==
  [id |-> "UUID", title |-> "String", description |-> "String", readme |-> "String",
   persist |-> "Boolean"]
UpdateScriptTemplate ==
  [id |-> "UUID", title |-> "String", projectId |-> "UUID", index |-> "Int",
   script |-> "String"]
UpdateTransactionTemplate ==
  [id |-> "UUID", title |-> "String", projectId |-> "UUID", index |-> "Int",
   script |-> "String"]

Inputs ==
  [NewContractDeployment |-> NewContractDeployment,
   NewContractTemplate |-> NewContractTemplate,
   NewFile |-> NewFile,
   NewProject |-> NewProject,
   NewProjectContractTemplate |-> NewProjectContractTemplate,
   NewProjectFile |-> NewProjectFile,
   NewProjectScriptTemplate |-> NewProjectScriptTemplate,
   NewProjectTransactionTemplate |-> NewProjectTransactionTemplate,
   NewScriptExecution |-> NewScriptExecution,
   NewScriptTemplate |-> NewScriptTemplate,
   NewTransactionExecution |-> NewTransactionExecution,
   NewTransactionTemplate |-> NewTransactionTemplate,
   UpdateContractTemplate |-> UpdateContractTemplate,
   UpdateFile |-> UpdateFile,
   UpdateProject |-> UpdateProject,
   UpdateScriptTemplate |-> UpdateScriptTemplate,
   UpdateTransactionTemplate |-> UpdateTransactionTemplate]
=============================================================================
