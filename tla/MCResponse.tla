----------------------------- MODULE MCResponse -----------------------------
(* Operations for TLC: a page that opens a project beside the list of projects, one that opens  *)
(* an account, and two mutations in a row.                                                      *)
EXTENDS Response

OpenProject ==
  [root |-> "Query",
   object |-> <<>> :> "Query"
           @@ <<"project">> :> "Project"
           @@ <<"project", "accounts">> :> "Account"
           @@ <<"projectList">> :> "ProjectList"
           @@ <<"projectList", "projects">> :> "Project",
   select |-> <<>> :> <<"project", "projectList">>
           @@ <<"project">> :> <<"version", "accounts">>
           @@ <<"project", "accounts">> :> <<"address">>
           @@ <<"projectList">> :> <<"projects">>
           @@ <<"projectList", "projects">> :> <<"version", "mutable">>]

OpenAccount ==
  [root |-> "Query",
   object |-> <<>> :> "Query"
           @@ <<"account">> :> "Account"
           @@ <<"playgroundInfo">> :> "PlaygroundInfo",
   select |-> <<>> :> <<"account", "flowJson", "playgroundInfo">>
           @@ <<"account">> :> <<"state", "deployedContracts">>
           @@ <<"playgroundInfo">> :> <<"apiVersion">>]

RunTransaction ==
  [root |-> "Mutation",
   object |-> <<>> :> "Mutation"
           @@ <<"createProject">> :> "Project"
           @@ <<"createProject", "transactionTemplates">> :> "TransactionTemplate"
           @@ <<"createProject", "scriptTemplates">> :> "ScriptTemplate"
           @@ <<"createTransactionExecution">> :> "TransactionExecution"
           @@ <<"createTransactionExecution", "errors">> :> "ProgramError"
           @@ <<"createTransactionExecution", "errors", "startPosition">> :> "ProgramPosition"
           @@ <<"createTransactionExecution", "events">> :> "Event",
   select |-> <<>> :> <<"createProject", "createTransactionExecution", "deleteProject">>
           @@ <<"createProject">> :> <<"transactionTemplates", "version", "scriptTemplates">>
           @@ <<"createProject", "transactionTemplates">> :> <<"id">>
           @@ <<"createProject", "scriptTemplates">> :> <<"id">>
           @@ <<"createTransactionExecution">> :> <<"errors", "events">>
           @@ <<"createTransactionExecution", "errors">> :> <<"startPosition">>
           @@ <<"createTransactionExecution", "errors", "startPosition">> :> <<"line">>
           @@ <<"createTransactionExecution", "events">> :> <<"type">>]

Asked == {OpenProject, OpenAccount, RunTransaction}
=============================================================================
