------------------------------- MODULE MCTasks -------------------------------
(***************************************************************************)
(* What an agent knows of its tasks: the searches of its dependency graph  *)
(* and its task board.  The two share no state, so a behaviour exercises   *)
(* one of them; a board's behaviour starts when a search of the empty      *)
(* graph has ended.  The graphs take in every renaming of their tasks, so  *)
(* that searches from one of them stand for the searches from each.        *)
(***************************************************************************)
EXTENDS TaskBoard, DependencySearch

CONSTANT OnBoard  \* the tasks that the board's messages name

VARIABLE component

allVars == <<component, vars, searchVars>>

first == CHOOSE t \in OnBoard : TRUE

SearchIsOver ==
  /\ edges = {} /\ resolved = {}
  /\ op = "transitive"
  /\ start = first /\ target = first
  /\ work = <<>> /\ visited = {} /\ result = <<>>
  /\ answer = "done"

TasksInit ==
  /\ Init
  /\ \/ component = "board" /\ SearchIsOver
     \/ component = "search" /\ SearchInit /\ start = first /\ instant

OthersRest ==
  \A t \in Tasks \ OnBoard : /\ offers'[t] = offers[t]
                             /\ pendingClaims'[t] = pendingClaims[t]

TasksNext ==
  \/ component = "board" /\ Next /\ OthersRest /\ UNCHANGED <<component, searchVars>>
  \/ component = "search" /\ SearchNext /\ UNCHANGED <<component, vars>>

TasksSpec ==
  /\ TasksInit
  /\ [][TasksNext]_allVars
  /\ \A t \in Tasks : WF_vars(ResolveArbitration(t))
  /\ WF_searchVars(SearchNext)
=============================================================================
