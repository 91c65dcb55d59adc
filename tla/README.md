# A TLA+ verification of borg

borg connects agents ("drones") through an IRC server: they announce tasks,
dependencies, claims and context as text messages in a channel, every agent
keeps its own picture of what was said, and a manager observes, spawns and stops
them. This directory holds TLA+ modules that model the parts of borg with state
and concurrency, TLC configurations that check them on small instances, and
proofs, checked by TLAPS, of the properties that matter most for every size.

Paths are relative to the repository; `state.go` etc. without a directory are in
`internal/agent/`. `PROJECT.json` maps every definition to the lines it models,
lists the runs, the mutants that show each property can fail, the hazards of the
code and the theorems.

## 1. The system and its parts

| Part | State | Operations | What must hold |
|---|---|---|---|
| **State store** (`state.go`) | tasks (status, owner), dependency edges with a `Resolved` flag, task per agent; one mutex | `UpdateTask` for twelve actions, `AddDependency`, `UnblockedTasks`, `TransitiveDependencies`, `Snapshot`, `Restore` | dependencies never form a cycle of waiting tasks; completion unblocks; the graph searches are exact |
| **Unblock notifier** (`coordinator.go`) | set of notified tasks | `OnTaskCompleted`, run by the reader after a `COMPLETED` | acknowledgements once per task, on current information, none left out |
| **Dispatcher** (`protocol.go`) | handler list | `handleMessage`: own messages ignored, stores updated, notifier, handlers | the stores follow the channel |
| **Agent** (`agent.go`, `lifecycle.go`) | wiring of all parts | `SendProtocolMessage` and its wrappers, heartbeat, `Shutdown` | an agent's own messages change its own stores as others' do |
| **Task board** (`taskboard.go`) | offers, pending claims, arbitration timers | `RecordOffer/Claim/Assign/Decline/Yield`, the timer's `resolveArbitration` | every window closes; least load, then earliest claim wins |
| **Persistence** (`persistence.go`) | debounce timer, state file | `MarkDirty`, `Save`, `Close`, `Load` | no marked change forgotten; the file is always a real state |
| **IRC client** (`pkg/ircclient`) | joined channels, backoff, handlers, rate limiter | `Connect` and its reconnect loop, callbacks, `Join`, `Part`, `Disconnect` | comes back to its channels; limits its attempts |
| **Manager** (`internal/manager`) | registry of agents, event hub, own copies of the stores | spawn and stop handlers, `CAPABILITIES`, health polls, events to browsers | the registry tells the truth about processes |
| **Spawner** (`internal/spawner`) | instances | `Spawn`, `PostSpawn`, `PreStop`, `Stop` for local, ssh, docker | a stop ends and kills |
| **Handoff, review, consensus** (`handoff.go`, `review.go`, `consensus.go`) | checkpoints and handoffs, reviews and gates, votes and escalations; a mutex each | one method per action, called by the dispatcher; `ResolveEscalation` | agents end with the same picture; no verdict is wasted |
| **Role engine, ACL, notifier** (`role.go`, `acl.go`, `notifier.go`) | configuration | answers to what is heard, rules for what is heard and said, notifications | what is denied leaves no trace; answers die out |
| **Context sharing** (`context_sharing.go`) | entries per component, requests; a mutex each | `Store`, `StorePayload`, `TrackRequest`, `HandleContextRequest` | a payload stands under what was asked of its sender; who asks is answered |
| **Discovery** (`discovery.go`) | an entry with an expiry per known agent | heartbeat, `CAPABILITIES`, `DISCOVER`, `Prune` | present agents are found, gone ones forgotten |
| **Federation** (`federation.go`) | links, channel mappings | `Start`, the relays of both directions, `Shutdown` | every message relayed once, none going round |
| **Rate limiter** (`pkg/ircclient/ratelimiter.go`) | tokens, time of the last refill | `Allow`, `Wait` | at most burst + rate x time messages; while goroutines wait, messages go on |
| **Event hub** (`internal/manager/hub.go`) | subscribers with bounded buffers | `Register`, `Unregister`, `Broadcast` | no send on a closed channel; an event follows the change it reports |
| **Protocol messages** (`pkg/protocol`) | none | `Parse`, `String`, sanitise | parse inverts serialise, where it can |
| Workflow engine, inspector | a map, a ring buffer | nothing calls the one, nothing reads the other to decide | not modelled, see section 7 |
| Health, metrics, dashboard, cost, configuration, logging, telemetry, commands | counters, files | read the others, or start them | decide nothing; not modelled |

How they interact:

* `go-ircevo` runs one goroutine that reads the connection. Its PRIVMSG callback
  calls the dispatcher, which updates the stores, runs the notifier (which sends)
  and then the handlers, one of which calls `MarkDirty`. This goroutine is called
  *the reader*.
* The application calls `SendProtocolMessage` and its wrappers from goroutines of
  its own. It applies the message to the local stores first and sends it after
  that, with no lock around the two: the server does not echo a message to its
  sender. Handlers of the reader call it as well, with the answers of the role
  engine, so several threads of one agent may be between the two steps at once.
* Timers run `resolveArbitration` and `Save` in goroutines of their own.
* The manager's HTTP handlers, polls and its reader share the registry.

Each store has its own mutex and each method takes it once, so a method call is
one step; what is hard is between the calls: the lock is released between
`UpdateTask` and `OnTaskCompleted`, between an update and its `MarkDirty`, between
`Snapshot` and `rename`, between sending `PART` and deleting the entry, between
`registry.Get` and `UpdateStatus`. The network loses messages and connections,
agents hear each other in different orders, processes crash, and timers race with
what they were started for. The list under `hazards` in `PROJECT.json` has these
at their lines.

## 2. The modules

| Module | Models | Uses |
|---|---|---|
| `TaskState` | operators: what one message does to a task, the edges and the resolved edges | |
| `StateStore` | one store under any sequence of messages and calls | `TaskState` |
| `DependencySearch` | the loops of `hasCycleLocked`, `TransitiveDependencies` and `extractDependenciesLocked`, element by element, against the definitions in `TaskState` | `TaskState` |
| `Coordination` | several agents: a store, a reader with the notifier and its handlers, goroutines of the application each, and the channel | `TaskState` |
| `ClaimBoard` | abstract: a task has an owner and at most one best competing claim | |
| `TaskBoard` | the board with lists of claims and timers; refines `ClaimBoard` | `TaskState`, `ClaimBoard` |
| `Persistence` | store, dirty mark, timer, saves, file, crash and restart | |
| `IrcClient` | client, server and network | |
| `Manager` | registry, handlers, processes, polls | |
| `AgentMessages` | the messages that the methods of `Agent` send | |
| `CollabStores` | operators: what a message does to board, handoffs, reviews, gates, votes and escalations | `TaskState` |
| `RoleEngine` | operators: the rules of the ACL, what a role answers, what a notifier writes | `AgentMessages` |
| `Dispatch` | several agents in a channel: dispatcher and `SendProtocolMessage` over all of these | `CollabStores`, `RoleEngine` |
| `ContextSharing` | the context stores of several agents | |
| `Discovery` | heartbeats, announcements and expiring entries, in time without bound | |
| `EventHub` | the manager's broadcasts to subscribers that come and go | |
| `Federation` | bridges between servers | |
| `TokenBucket` | abstract: credit grows with time, a message costs some of it | |
| `RateLimiter` | the limiter that refills when it is looked at; refines `TokenBucket` | `TokenBucket` |
| `Wire` | `String`, and `Parse` by turns of `tokenize`'s loop | |
| `DataLemmas` | lemmas: induction, folds, counting and sums | |
| `StateStoreProofs`, `PersistenceProofs`, `ManagerProofs` | theorems | the module they name |
| `DispatchProofs` | theorems about `Dispatch` | `Dispatch`, `DataLemmas` |
| `CoordinationProofs` | theorems about `Coordination` and `DependencySearch` | these, `DataLemmas` |
| `SharingProofs` | theorems about `ContextSharing`, `EventHub`, `Discovery` and `TaskBoard` | these, `DataLemmas` |
| `TransportProofs` | theorems about `IrcClient`, `Federation`, `RateLimiter` and `Wire` | these, `DataLemmas` |
| `MCStateStore`, `MCCoordination` | instances for TLC | `StateStore`, `Coordination` |
| `MCTasks`, `MCDispatch`, `MCSharing`, `MCTransport` | instances of two or three modules each, which share no state: a behaviour exercises the one that the variable `component` names | `TaskBoard`, `DependencySearch`; `Dispatch`, `Federation`; `ContextSharing`, `Discovery`, `EventHub`; `Wire`, `RateLimiter`, `IrcClient` |

**TaskState, StateStore.** `tasks`, `edges` and `resolved` are the task and edge maps
of `StateStore`. An edge is a pair `<<Blocked, BlockedBy>>`; `Resolved` is
membership in `resolved`. `Update(m)` is `UpdateTask`; there is one action for
each of the twelve protocol actions, with the status and owner it assigns in
`StatusAfter` and `OwnerAfter`. `HasCycle` is reachability over unresolved edges,
which is what the DFS computes (`DependencySearch` checks that it does). Display
fields (scope, percent, times, notes) are left out.

**Coordination.** An agent has threads: the goroutines of its application (`Apps`) and
the handlers that its reader runs (`"reader"`). `SendProtocolMessage` is two steps of any
of them, `ApplyOwn` and `SendOwn`; a handler may call it while the reader is in its loop
(`Handling`). The reader goes from `Receive` over `CheckUnblocked` through the loop of
`Acknowledge` to the handlers and, with `EndHandlers`, to its next message. All these
steps interleave. `Announcers` says which threads of which agents speak about a task,
`Kinds` what a thread says. Messages are delivered in one order to each agent; a
message may be lost when the sender's connection is down, and an inbox when the
receiver's breaks.

**TaskBoard, ClaimBoard.** `instant` is `claimJitter == 0`, fixed at the start.
`pendingClaims` are lists in the order of arrival, `timers` the tasks with a timer.
`ClaimBoard` keeps only the best claim; the refinement maps a list to its
`Winner`.

**Persistence.** The content of the store is the set of changes applied to it;
each change remembers the store it was made on (`base`), so a file with a change
but not its base would be a state the store never was in. Received messages are
marked, those the agent sends if they are of the four kinds that
`SendProtocolMessage` marks (`marked` remembers which); a message that says again
what the store has (`ReceiveRepeated`) is marked too, so traffic has no end. Timers
have names, which tells one that goes on from one that is replaced. `Save` is three
steps (begin, snapshot into a temporary file, rename), each save runs in its own
goroutine, `Close` runs one more in the caller. A crash loses memory, timers and
saves under way; `Start` loads the file.

**IrcClient.** Commands and events travel in two queues that are lost with the
connection. `loop` is the goroutine of `Connect`, `attempt` the backoff's counter;
`Part` is two steps because it deletes the entry after sending. The application calls
it (`AppParts`), and so does `Agent.Shutdown` for every channel that `JoinedChannels`
names, before it disconnects (`Shutdown`, `ShutdownParts`, `Disconnect`). The server is
external: it obeys, refuses, kicks and closes.

**Manager.** A request is a handler that goes through the steps of `SpawnAgent` or
`StopAgent`; its context is done when the client leaves or the handler returns. A
process is named by the request that started it. The three spawners differ in
`PreStop*` and `Stop*`: the local one waits, then kills; the ssh and docker ones
run commands whose errors are ignored and which have no deadline (`MayHang`).

**Dispatch, CollabStores, RoleEngine, AgentMessages.** An agent has two threads: the
application, and the reader with the role engine and the notifier. `Apply` is
`SendProtocolMessage` up to `updateLocalState`, `Transmit` the rest; either thread may
be between the two. `Receive` is `handleMessage`: text, own messages and denied ones
are ignored, the stores updated, and the answers of the handlers queued in one of
the orders a Go map gives. `Answer` and `Notify` send them. A task is a sequence,
because roles put names together: `"t-merge"` is `<<t, "merge">>`. Messages are not
lost here (they are in `Coordination`), and claims are decided at once (`TaskBoard`
has the windows).

**ContextSharing.** A payload is known by who sent it. `Share` and `FulfillRequest` are
`Store`, which takes its two mutexes one after the other; so does the reader, with
`Hear` and `EndHearing`, for an announcement and for a request. A request is answered
with what was read of the entry, later (`AnswerRequest`).
`StorePayload` picks any of the sender's entries, in the order of a Go map.

**Discovery.** Times are remaining times, so the state space is finite although time
goes on for ever. An agent that has started is first not yet in the channel, then a
member for the server, then joined for its own client, which is when
`announceCapabilities` finds a channel. Agents shut down, crash and come back.

**EventHub.** A call of the manager is a list of steps: stores to change and events to
broadcast, in the order of `handleIRCMessage`, `dispatchToStores` and the ends of
`SpawnAgent` and `StopAgent`. `Broadcast` is a step per client under the read lock.

**Federation.** A place is a channel of a server. `Links` are the links each bridge has;
a mapping may name another one and is skipped. Servers are taken to echo messages
to their sender, which is more than IRC servers do and what the handlers guard
against. All handlers are registered in one step; before it, events are ignored. A
handler goes through the mappings one by one: `HandleEvent` takes the event,
`RelayMessage` is one turn of the loop, which sends, and the other clients act in
between. `FederationConstants` asks that no mapping leads from a place to itself: the
code does not refuse one, and it would say everything twice.

**RateLimiter, TokenBucket.** Tokens are counted in the units that one unit of time
refills, so they are integers. The refinement maps the credit to what `refill` would
give now.

**Wire.** A body is a sequence over blank (a space or a tab), other white space, quote,
`=`, `#` and two letters. `strings.TrimSpace` cuts both kinds of white space, `String`
and `tokenize` know the first only. `String` is an operator, `tokenize` an action per
turn of its loop.

## 3. The runs

Every run ends within five minutes with two workers. `expect: pass` unless noted.

| Run | Question | Answer |
|---|---|---|
| `store` | Three tasks, all twelve actions and `AddDependency` in any order | Open dependencies stay acyclic (`NoOpenCycle`); some blocker can always run (`SomeBlockerCanRun`); a reported task stays reported until something is said about it (`UnblockedIsStable`); completing the only blocker reports the task at once (`CompletionUnblocks`) |
| `coordination` | Two agents, each with an application, one with a handler that speaks too; three tasks (each application has one of its own, the third is everybody's), four announcements, one loss | Replicas agree about a task of which one thread speaks (`StatusesAgree`); one acknowledgement per task and agent (`OneAckPerTask`); sent on information that still holds (`AckIsCurrent`); none left out (`FoundIsAcknowledged`) |
| `tasks` | All acyclic open graphs on four tasks, one resolved edge or none, searched from one of them, which stands for each; two tasks on a board, windows of up to three claims, instant and deferred | The DFS and the BFS give exactly what the definitions say (`CycleCheckIsExact`, `TransitiveIsExact`) and end (`SearchEnds`); which of several named blockers are rejected does not depend on their order (`NamingOrderIrrelevant`); timers exactly for pending claims (`TimerIffPending`); the loop finds the winner (`LoopFindsWinner`); every window closes (`ClaimsAreDecided`); the board refines `ClaimBoard` (`ImplementsClaimBoard`) |
| `board_first_claim` | violation of `FirstClaimWins`, with offers and claims only | With instant arbitration each claim is the first of a new list: after an offer n1 claims the task and has it, then n2 claims it and has it |
| `persistence` | Two changes of any kind, received or sent, among messages without end that change nothing; one crash, one I/O error, two saves of the timer that may overlap and one of `Close` | No marked change is forgotten (`NoChangeForgotten`); the file is a real state, even when saves overlap (`FileIsConsistent`); it never loses a change (`DiskNeverForgets`); marked changes reach it, unless the timer is replaced for ever (`ChangesReachDisk`) |
| `persistence_close` | violation of `CloseFlushes` | A save of the timer that is under way renames after the one of `Close` |
| `joined_channels` | violation of `JoinedIsCurrent` | With everything handled, `JoinedChannels` differs from the channels the client is in |
| `manager` | One nick, three overlapping requests, each spawner, one fault | `stopped` agents are dead; a spawned agent can be stopped; stops of local agents end, and those of any agent once the client has left |
| `dispatch` | Three agents with all seven roles between them, rules and notifications; two messages of the applications out of nineteen, and all answers to them; one text, two bridges on both ends of a channel, a third server, a mapping by a link that is not there | What rules deny leaves no trace in any store and does not go out: what others say, what the agent's application tries to and what its own role would answer (`DeniedLeavesNoTrace`); once all is quiet no review with a reviewer is pending (`ReviewsAreSettled`) and agents without rules agree (`StoresAgree`); it does become quiet (`ReactionsEnd`); a text is relayed at most once by a mapping (`RelayedOnce`), and at least once (`UsersAreHeard`) |
| `sharing` | Three agents, two components, three messages; two agents, ttl 4, delay 1; two observers with a buffer of one, two calls, seven actions | No payload under a foreign entry (`NoForeignPayload`); pending means unanswered (`PendingMeansUnanswered`); joined agents find each other (`JoinedAreFound`), gone ones are forgotten (`GoneAreForgotten`); no send on a closed channel (`NoSendOnClosed`); events follow changes and only a full buffer of its own costs a subscriber one (`EventsFollowChanges`) |
| `payload_component` | violation of `PayloadsFollowRequests`: two agents, two components, four messages | A payload goes to any component its sender shared, not to the one that was requested |
| `transport` | All messages with values of up to three and two symbols; three goroutines that send for ever, burst 2; a client with one configured channel and one that is joined, two calls of `Join` and `Part` for either, then `Shutdown`; one kick, one refusal, two broken connections, two failed attempts, limit two | `Parse` inverts `String` exactly for the values that can survive (`RoundTripIsExact`); the limiter is a token bucket, and while goroutines wait messages go on (`ImplementsTokenBucket`); the client overlooks a channel only when its JOIN crossed a `Part`, and names others only after a broken connection (`ChannelsKnown`); attempts are limited (`AttemptsAreLimited`); it comes back (`ComesBack`) |

**Bounds.** They are constants with a name (`MaxBlockers`, `MaxSends`, `MaxLosses`,
`MaxPending`, `MaxChanges`, `MaxCrashes`, `MaxFailures`, `MaxCalls`, `MaxKicks`,
`MaxRefusals`, `MaxDrops`, `MaxFaults`, `MaxResolved`, `MaxNamed`, `MaxShares`,
`MaxJobs`, `MaxFirst`, `MaxSecond`, `LongEnough`) and are guards of
the actions they bound. Three tasks are the least with a cycle that a check of
direct edges misses; four the least on which a DFS meets a node twice on
different paths and goes on; the graphs take in every renaming, so one task to search
from is enough. Four announcements are enough to block a task, complete
its blocker, and let another agent interfere twice. Two changes, with repeated
messages besides, let one fall before, into or after each of two saves that overlap, and
one after a restart; `persistence_close` has four. Three requests let a spawn
and two stops, or two spawns and a stop, overlap. Two messages of the applications
let two requests, or a request and a verdict, cross; the answers to them, which are
not bounded, reach three steps further. Three context messages are an announcement, a
payload and a request in any order and from anyone. A ttl of four units with a delay
of one lets an announcement be lost, delayed and late by one unit without lapsing;
an agent sends by hand only when nothing of its own is under way. Two calls of the
manager, of two goroutines, already fill a buffer of one. Three symbols are a value with a
quote before, behind or around something. Every property has a mutant, a
plausible slip in one definition, that TLC finds within the same bounds.

`CHECK_DEADLOCK FALSE` is set where the system may stop: a finished search, a client
whose loop has given up, a manager that has served its bounded requests.

**Fairness.** `Coordination`: the reader's goroutine and a thread inside
`SendProtocolMessage` keep running; nobody has to announce anything. `TaskBoard`: a
timer that was started fires (`time.AfterFunc`, never stopped by the code).
`Persistence`: goroutines run, and a timer that nobody replaces fires; since
`MarkDirty` replaces a timer by one with another name, weak fairness on its firing
claims nothing under unending traffic, and `ChangesReachDisk` says so in its first
disjunct. `IrcClient`: the server answers, callbacks and the loop run, a
sleep ends. `Manager`: a handler that has begun goes on, but not while it waits for an ssh or
docker command (`MayHang`), which ends for certain only with the request's context; the
waits of the local spawner have deadlines.
Nothing is assumed of applications, users, failures or crashes. `DependencySearch`:
the loops run. `Dispatch`: readers and calls under way go on. `Federation`: a client
hands on its events and its handlers return. `RateLimiter`: clocks run, and a goroutine
whose sleep is over gets to look; that it then finds a token is not assumed, nor
promised: one goroutine may lose every race. In `Discovery` the
assumption is part of time itself: no unit passes over a message that is due or a
timer that has fired; the code has no such guarantee, and the properties hold as far
as it does.

## 4. What is proved

The proofs hold for every set of tasks and nicks, every number of changes, claims,
messages, crashes and so on. No proof uses fairness.

*DataLemmas.* The induction theorems of the library take a predicate as a parameter,
which the provers cannot instantiate. `NatSetInduction` is induction for a *set* of
numbers: if a set has 0 and with each number its successor and lacks *n*, then moving its
members up by one maps `0..n` into `1..n` without meeting, and that contradicts what
`FiniteSetTheorems` says of cardinalities. From it come the folds and recursive functions
of the community modules over lists of any length, the number of messages of a kind
behind a position of a queue (`CountAfter`, with what `Append` and `Tail` do to it), and a
sum over agents (`Total`, the cardinality of a set of units), with what one more or one
less does to it.

*StateStoreProofs.* `TypeCorrect`; `OpenGraphAcyclic`
(`Spec => []NoOpenCycle`) and from it `WaitingNeverDeadlocks`
(`Spec => []SomeBlockerCanRun`). Acyclicity is stated without paths: there is
no nonempty set of tasks in which everyone waits for a member, so no induction
over path lengths is needed. The lemma that carries the proof, `NewEdgesKeepAcyclic`:
edges from one task to blockers from which it cannot be reached close no cycle.
`NextCases` reduces the twelve actions to "a message was applied" or "an edge was
added". `NoOpenCycle` is inductive together with `TypeOK`. `UnblockingIsStable` and
`CompletionsUnblock` are the two action properties (`Spec => UnblockedIsStable`,
`Spec => CompletionUnblocks`), from the same case split.

*CoordinationProofs.* `CoordinationTypes`; `AcksAreUnique` (`OneAckPerTask`),
`FoundAreAcknowledged` (`FoundIsAcknowledged`), `AcksAreCurrent` (`AckIsCurrent`) and
`AgentsAgree` (`StatusesAgree`). `AckInv`: an agent's `notified` set is exactly what it
has acknowledged. `AgreeInv` is what makes agreement inductive: while nothing is
lost, for a task of which one thread of one agent speaks there is a value *V*, what the
channel has said about it, such that this agent's own entry is *V*, or *V* after the
message that the thread has applied and not sent yet, whatever its other threads do; reading its inbox to the end leads every other agent's
entry to *V* (`Leads`); the agent itself hears only acknowledgements about the
task; and nobody knows of it before the channel does.
With empty inboxes everybody has *V*.

About `DependencySearch`, for finitely many tasks (the hypothesis
`IsFiniteSet(Tasks)`): `CycleCheckExact` (`SearchSpec => []CycleCheckIsExact`) and
`TransitiveExact` (`SearchSpec => []TransitiveIsExact`): the depth-first and the
breadth-first loop, when they end, have computed what `HasCycle` and the reachable set
are defined to be. The invariant, `SearchInv`: what was visited or waits is reachable
from the start, and what a visited node waits for was visited or waits; with an empty
stack the visited nodes are therefore closed under the edges, which is all that
reachability without paths asks for. `NamesInAnyOrder`
(`SearchSpec => []NamingOrderIrrelevant`): adding named blockers one by one, in any
order, with a cycle check before each, gives the edges that the definition gives for the
set. The step is `BlockersOneByOne`, which rests on `ClosesCycle`: edges out of a task
change nothing about which nodes reach this task; the induction over the names is over
the length of a prefix.

*PersistenceProofs.* `FileConsistency` (`Spec => []FileIsConsistent`) without any
assumption: the store, the file and every snapshot under way are closed under
`base`. `NothingForgotten` (`Spec => []NoChangeForgotten`) and `DiskGrows`
(`Spec => DiskNeverForgets`), also for any mixture of marked and unmarked messages and
any number of saves under way; the properties themselves end with the first overlap of
two saves, which the code does not exclude (`overlap`). The invariant behind them,
`GrowthInv`: while the agent is up, nothing failed and nothing overlapped, at most one
save is under way, the file is within its snapshot and this within the store, and every
marked change that is not in the file has a save ahead of it.

*ManagerProofs.* `StoppedAgentsAreDead` (`StoppedIsDead`) and
`SpawnedAgentsAreStoppable` (`SpawnedIsStoppable`), for any number of overlapping
requests. `SpawnInv`: what is registered under a nick, or was found there by a stop,
was spawned for that nick, and a record keeps an instance once it has one. `DeadInv`:
while nothing has failed and no client has left, a request's context is done only when
the request is over, PIDs are known, and the process of a stop that is past its kill is
dead; only with the last can `UpdateStatus`, which comes after it, be seen to tell the
truth.

*DispatchProofs.* For any finite set of agents, any roles, rules and notifications, and
any number of messages.

- `DenialsLeaveNoTrace` (`Spec => []DeniedLeavesNoTrace`). `AllTraceless` is the part about
  stores, over positions of the lists: each record, claim, owner and status of every store
  was put there by a message of a kind that the rules let in from its author. Every way
  to a store (a message heard, the application's own, an answer of a role) goes through the
  rules first, and so does every message but a notification on its way out.
- `QuietStoresAgree` (`Spec => []StoresAgree`), from three invariants that hold while
  messages are under way. `KeysAgree`: a vote or a gate result with one writing thread has
  a value that every agent without rules has or will have when its inbox, and what that
  thread is about to send, are read. `EscalationsAgree`: what is escalated for one is
  escalated, or on its way, for all. `TotalsAgree`: reviews stored, in the inbox and about
  to be sent are as many for each agent.
- `ReviewsEndSettled` (`Spec => []ReviewsAreSettled`). `RequestsCovered`: wherever one
  starts to count in an agent's inbox, requests that a reviewer answers are no more than
  its verdicts behind that point and those it owes (`Owed`: requests it has not read,
  answers it has ready, the one it is sending). `ReviewsPaid`: the pending reviews of a
  pull request that an agent sees are no more than the sum, over all reviewers it hears, of
  the verdicts still to come beyond those for requests it has not seen (`Credit`). In a
  quiet channel that sum is 0. It does not matter which pending request a verdict goes to,
  which is why the property holds although `RecordComplete` does not look at the type.

*SharingProofs.* Four components that share no state.

- `PayloadsAreTheirSenders` (`CtxSpec => []NoForeignPayload`). The invariant is
  inductive together with the types of entries and messages: an announcement replaces
  the entry without its payload (`StoredKeeps`), and `StorePayload` writes only where
  the entry is the sender's (`StorePayloadEntry`).
- `RequestsAreAnswered` (`CtxSpec => []PendingMeansUnanswered`). `AnswerInv` follows an
  open request through the channel: whoever announced the component last has the
  request still to hear or its answer to send, or an announcement is on its way to the
  one that waits (`Unheard`, `Tracking`); and what anybody knows, everybody knows or
  is about to hear (`Spread`). An agent that answers sends past its own store and keeps
  the request pending, so the property is about what it still may be waiting for.
- `BroadcastsMeetOpenChannels` (`HubSpec => []NoSendOnClosed`). `LockInv` is what the
  read-write lock gives: whoever a broadcast has still to visit is registered, a
  goroutine with somebody to visit holds the lock, and what is registered is not closed.
- `SubscribersFollowTheManager` (`HubSpec => []EventsFollowChanges`). `HubInv` adds that
  in what a goroutine has still to do every change comes before the event that reports
  it (`Ordered`), and an account of every event owed to a subscriber: received,
  dropped, or held by a broadcast that has still to visit it (`Accounts`).
- `GoneAgentsAreForgotten` (`DiscSpec => []GoneAreForgotten`). What a gone agent has on
  the wire is at least as old as its end (`WireFades`), so entries made of it expire
  within a ttl and a delay of that (`EntriesExpire`), and a heartbeat prunes them
  (`EntriesGo`).
- `JoinedAgentsAreFound` (`DiscSpec => []JoinedAreFound`), if `Interval + Delay <= Ttl`,
  that is, if an announcement is replaced by the next before it lapses. With the code's
  interval of half the ttl this allows a delay of half the ttl. `JoinInv` has two
  announcements of each agent: the last, which may still be under way, and the one
  before it, which must have arrived and must last until the last arrives.
- `BoardTypeCorrect`, `TimersMatchClaims` (`TimerIffPending`) and `BoardRefines`
  (`Spec => ImplementsClaimBoard`) of the task board. The inductive invariant adds to
  these that an instant board keeps no claims and that a window with claims has a winner.
  The refinement rests on `WinnerOfAppend`: appending a claim changes the winner exactly
  if the new load is smaller, which is what the abstract board does with its one claim.
  It is a safety refinement: the fairness of `TaskBoard` is not used.
- `LoopIsRight` (`Spec => []LoopFindsWinner`): the loop of `resolveArbitration`, a fold
  over the claims in their order, ends with the claim that `Winner` defines, for a list of
  any length.

*TransportProofs.* Four components, again without common state.

- `AttemptsStayLimited` (`AttemptsAreLimited`) and `ChannelsAreKnown` (`ChannelsKnown`)
  of the IRC client. `Counted`: each call of `Reconnect` was counted by the backoff
  before. `InIsKnown`, `OutIsKnown`: for a channel that the client is or is not in, what
  the commands and events in the two queues will make of the client's entry once they are
  handled, where an entry that a call of `Part` is about to delete does not count;
  `ChannelsKnown` is what they say when both queues are empty and `Part` is not between
  its steps. Any channel may be parted at any time, by the application or by `Shutdown`.
- `TextsAreRelayedOnce` (`FedSpec => []RelayedOnce`), for any bridges and mappings. A text
  without the prefix is in a client's queue at most once and only where it was said
  (`Originals`); a mapping with the text in a queue on one of its sides has not relayed
  it (`NotYet`), nor has one that the handler's loop has still to come to (`UnderWay`).
- `LimiterIsABucket`: the initial state and every step of the limiter are those of
  `TokenBucket`, for every burst of at least one and every rate. It is the safety part
  of `ImplementsTokenBucket`; that messages go on is left to TLC.
- `RoundTripsAreExact` (`WireSpec => []RoundTripIsExact`), for values and payloads of any
  length (a message has at most two keys and two tags). `String` writes four parts, each
  empty or a blank with a key and its value or a tag behind it, and `Layout` says where
  the trimmed body has them. Trimming may shear the message itself: an unquoted value at
  the end of the line loses the white space at its own end (`Shorn`), so the layout is
  that of the message that `arrived`, which is the one that was sent unless the latter
  `EndsBare`. Whatever a turn of the loop reads is a value that survives
  (`AnyTurn`), so one that does not is never given back, whatever stands behind it, a
  piece of a value that looks like another key included; and if all survive, the parts
  behind which `tokenize` stands were read as they were written (`ReadSoFar`).

The assumptions about constants are the named `ASSUME`s of the modules, which TLC
evaluates in every run.

Proof attempts corrected the models and the properties. In `ContextSharing` two arms of the case
distinction in `Hear` overlapped, so that TLC looked at only one of them. In
`Federation` a handler relayed by all mappings in one step, which hid that others act
between two of its sends. In `Dispatch` two conditions turned out to be needed that the
small instance did not show: an agent whose application and whose role check the same
gate counts as two checkers (`OneChecker`), because its own two threads may pass each
other; and a review has a reviewer only if both sides' rules let the request and the
verdict through and the request names a pull request (`HasReviewer`), because a verdict
without one settles any review of its task.

Only model-checked:

- liveness, which is out of the prover's reach: `ClaimsAreDecided`, `ChangesReachDisk`,
  `ComesBack`, `StopsEnd`, `SearchEnds`, `ReactionsEnd`, `UsersAreHeard`, and that
  messages go on while goroutines wait for tokens.

The type invariants are proved and in no run.

## 5. What modelling showed

Besides the four violations above, the models have these behaviours, which no
document of the repository contradicts outright and no run states:

* `SendProtocolMessage` marks the state dirty for four of the twelve actions that
  change it (`agent.go:392`), the handler for received messages for all. A `CLAIM`
  or `OFFER` of the agent's own is saved only with the next marked change.
* The acknowledgement names the task that was just completed as the one that
  unblocked, whether or not the acknowledged task waited for it (`coordinator.go`).
* After `Disconnect`, or a cancelled `Connect`, the loop takes the closed connection
  for a broken one and reconnects (`connection.go:304`).
* An agent started by the local spawner from the HTTP handler is started with the
  request's context and killed when the handler returns (`server.go:119`,
  `local.go:37`).
* Spawning a nick twice leaves the first process without a record; a stop that
  overlaps a new spawn marks the new agent stopped; a health answer that arrives
  after a stop marks the dead agent online (`registry.go:117`).
* ssh and docker errors while stopping are ignored (`ssh.go:103`, `docker.go:80`).
* A `BLOCKED` recorded after its blocker's `COMPLETED` waits for a task that is done,
  until that is completed once more (`state.go:185`); a task that is blocked and
  unblocked a second time is not acknowledged again, because `notified` is never
  cleared (`coordinator.go:60`).
* A verdict goes to the latest pending request of the task and pull request, whatever
  its type (`review.go:105`). A monitoring request is answered by a gate, so it stays
  pending, and takes a verdict meant for another; a verdict without a pull request goes to
  any pending review of the task. The merge coordinator starts on any approval.
* Agents that check the same gate in crossing messages end with different results;
  crossing `HANDOFF` and `ACCEPT` leave different owners; the owner in the state
  store and the one on the board may differ.
* Notifications, acknowledgements and answers to context and discovery requests are
  sent past the outbound access rules (`agent.go:376` is on another path).
* An answer to a context request that was made from an entry read earlier may replace a
  newer announcement, and takes the entry over in the name of whoever answered. The one
  who answers keeps the request pending in its own store (`context_sharing.go:266`).
* An application and a role of the same agent that speak about the same task may apply
  their messages in one order and send them in the other; the agent's store then differs
  from everybody else's until something more is said (`agent.go:386`).
* `ASSIGN` and `HANDOFF` with an empty `to` make a task assigned to nobody
  (`agent.go:591`, `state.go:123`).
* Traffic without a pause of five seconds postpones the save for as long as it lasts, and
  a save that takes longer than that is overlapped by the next (`persistence.go:110`).
* A stop of an ssh or docker agent waits for its command for as long as the client does
  (`ssh.go:84`, `docker.go:79`).
* A goroutine that waits for a token reserves none, and others may take it every time
  (`ratelimiter.go:66`).
* The first announcement of the heartbeat is lost when the JOIN is not echoed yet; a
  ttl below two seconds makes entries lapse between announcements; an agent without
  capabilities has no heartbeat and never prunes (`agent.go:208`).
* What the agent of a bridge says itself is not relayed; what is relayed is no protocol
  message any more, because of its prefix; nothing goes from one remote server
  to another; when a link cannot connect, those before it stay connected; the
  handlers stay registered after `Shutdown`.
* There is no escape character: a value with a blank and a quote, or one that starts
  with a quote, does not survive; a payload loses white space at its ends, and so does an
  unquoted value at the end of a message, when it is white space other than a space or
  a tab (`parser.go:15`).
* An `agent_update` carries a record copied before `Broadcast`; of two that cross, the
  older copy may arrive last (`manager.go:235`).
* A burst of 0 is accepted (the flag's help calls it "use default", `loader.go:133`), and
  then nothing is ever sent.

## 6. Plan

Modelled are the stores, the dispatcher with everything it calls, discovery, context
sharing, federation, persistence, the IRC client with its limiter, the wire format,
the manager's registry and its events. What is left, in this order:

1. **Several boards with open windows on one channel**: when do agents that hear claims
   in different orders see the same owner.
2. **Handler registration** in `connection.go` and `protocol.go`: `handlerMu` is held
   while handlers run. No handler registers another one today.

## 7. Not modelled

* The *workflow engine*: `initProtocol` creates it and nothing in the repository but its
  tests calls it, so there is no behaviour of the system to state.
* The *inspector*'s ring buffer, *health*, *metrics*, *dashboard*, *cost*: they record and
  show what the others do and decide nothing.
* *Subscriptions* to contexts, and methods without a caller outside tests (`SetRules`,
  `RemoveRulesForEvent`, `RemoveRulesForChannel`, `TimedOutRequests`, `Reset`).
* The *sanitiser*: regular expressions over free text.
* *Configuration, logging, telemetry, commands, HTML*: files, flags and output.
* What the manager's own copies of the stores contain: they are the agents' stores,
  fed by the same operators; `EventHub` has when they change.
