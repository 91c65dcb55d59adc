--------------------------- MODULE ContextSharing ----------------------------
(***************************************************************************)
(* The ContextStores of several agents in one channel (internal/agent/     *)
(* context_sharing.go): announcements (CONTEXT), payloads                  *)
(* (SHARING-CONTEXT) and requests for them (REQUEST-CONTEXT), which every  *)
(* agent that knows the component answers.  Entries and requests have a    *)
(* mutex each and no call holds both, so the application and the reader    *)
(* interleave between them.                                                *)
(*                                                                         *)
(* Project and status of an entry are data, and so is what a payload says; *)
(* an entry remembers the nick of the message that brought its payload.    *)
(* Subscriptions only pass entries on to callbacks.                        *)
(***************************************************************************)
EXTENDS Naturals, Sequences, FiniteSets

CONSTANTS Sharers,     \* the agents
          Components,  \* what contexts are about
          NoSharer,    \* no payload, nobody
          MaxShares    \* the most messages the applications send

ASSUME ContextConstants == NoSharer \notin Sharers /\ MaxShares \in Nat

VARIABLES entries,   \* cs.entries: per component, who shared it and its payload
          strays,    \* the agents whose payload is stored under "_payload_"+nick
          requests,  \* cs.requests
          sharing,   \* the message an application has stored and not yet sent
          storing,   \* the agents whose application is still in Store
          hearing,   \* the agents whose reader has half handled its first message
          answers,   \* what HandleContextRequest still has to send
          unread,    \* what the server has relayed and was not handled yet
          shares

ctxVars ==
  <<entries, strays, requests, sharing, storing, hearing, answers, unread, shares>>

NoEntry   == [by |-> NoSharer, payload |-> NoSharer]
NoMessage == [action |-> "none"]

Context(n, c)        == [action |-> "CONTEXT", nick |-> n, component |-> c]
SharingContext(n)    == [action |-> "SHARING-CONTEXT", nick |-> n]
RequestContext(n, c) == [action |-> "REQUEST-CONTEXT", nick |-> n, component |-> c]

CtxInit ==
  /\ entries = [a \in Sharers |-> [c \in Components |-> NoEntry]]
  /\ strays = [a \in Sharers |-> {}]
  /\ requests = [a \in Sharers |-> <<>>]
  /\ sharing = [a \in Sharers |-> NoMessage]
  /\ storing = {}
  /\ hearing = {}
  /\ answers = [a \in Sharers |-> <<>>]
  /\ unread = [a \in Sharers |-> <<>>]
  /\ shares = 0

-----------------------------------------------------------------------------
\* Mutant of Stored: an entry that is announced again keeps its payload.
StoredWithPayload(es, m) == [es EXCEPT ![m.component].by = m.nick]

\* Store, the entry: a new one, without payload, replaces what there was.
Stored(es, m) ==
  [es EXCEPT ![m.component] = [by |-> m.nick, payload |-> NoSharer]]

\* Mutant of Fulfilled: the loop ends at the first pending request.
FulfilledOnce(rs, c) ==
  LET open == {i \in DOMAIN rs : rs[i].component = c /\ ~rs[i].fulfilled}
  IN  [i \in DOMAIN rs |->
         IF i \in open /\ \A j \in open : i <= j
         THEN [rs[i] EXCEPT !.fulfilled = TRUE] ELSE rs[i]]

\* FulfillRequest: all pending requests for the component.
Fulfilled(rs, c) ==
  [i \in DOMAIN rs |->
     IF rs[i].component = c THEN [rs[i] EXCEPT !.fulfilled = TRUE] ELSE rs[i]]

\* TrackRequest.
Tracked(rs, m) ==
  Append(rs, [component |-> m.component, by |-> m.nick, fulfilled |-> FALSE])

\* StorePayload: the payload goes to some entry its sender shared, in the order
\* of a Go map: one of its components, or the key "_payload_"+nick, which is made
\* when there is no other.
StorePayload(a, m) ==
  LET shared == {c \in Components : entries[a][c].by = m.nick}
  IN  \/ /\ shared = {} \/ m.nick \in strays[a]
         /\ strays' = [strays EXCEPT ![a] = @ \cup {m.nick}]
         /\ UNCHANGED entries
      \/ \E c \in shared : /\ entries' = [entries EXCEPT ![a][c].payload = m.nick]
                           /\ UNCHANGED strays

Deliver(a, m) ==
  unread' = [b \in Sharers |-> IF b = a THEN unread[b] ELSE Append(unread[b], m)]

-----------------------------------------------------------------------------
\* ShareContext: updateLocalState calls Store, which releases cs.mu before it
\* takes reqMu.
Share(a, c) ==
  /\ shares < MaxShares /\ sharing[a] = NoMessage
  /\ entries' = [entries EXCEPT ![a] = Stored(@, Context(a, c))]
  /\ sharing' = [sharing EXCEPT ![a] = Context(a, c)]
  /\ storing' = storing \cup {a}
  /\ shares' = shares + 1
  /\ UNCHANGED <<strays, requests, hearing, answers, unread>>

FulfillRequest(a) ==
  /\ a \in storing
  /\ requests' = [requests EXCEPT ![a] = Fulfilled(@, sharing[a].component)]
  /\ storing' = storing \ {a}
  /\ UNCHANGED <<entries, strays, sharing, hearing, answers, unread, shares>>

\* A SHARING-CONTEXT of the application: its own store first.
SharePayload(a) ==
  /\ shares < MaxShares /\ sharing[a] = NoMessage
  /\ StorePayload(a, SharingContext(a))
  /\ sharing' = [sharing EXCEPT ![a] = SharingContext(a)]
  /\ shares' = shares + 1
  /\ UNCHANGED <<requests, storing, hearing, answers, unread>>

\* RequestContext changes none of the agent's own stores.
Request(a, c) ==
  /\ shares < MaxShares /\ sharing[a] = NoMessage
  /\ sharing' = [sharing EXCEPT ![a] = RequestContext(a, c)]
  /\ shares' = shares + 1
  /\ UNCHANGED <<entries, strays, requests, storing, hearing, answers, unread>>

\* SendMessage, once the agent's own stores are up to date.
Sent(a) ==
  /\ sharing[a] # NoMessage /\ a \notin storing
  /\ Deliver(a, sharing[a])
  /\ sharing' = [sharing EXCEPT ![a] = NoMessage]
  /\ UNCHANGED <<entries, strays, requests, storing, hearing, answers, shares>>

\* handleMessage of a CONTEXT or a REQUEST-CONTEXT, up to the first mutex it takes:
\* the entry of Store, or TrackRequest.
Hear(a) ==
  /\ unread[a] # <<>> /\ answers[a] = <<>> /\ a \notin hearing
  /\ LET m == Head(unread[a])
     IN  \/ /\ m.action = "CONTEXT"
            /\ entries' = [entries EXCEPT ![a] = Stored(@, m)]
            /\ UNCHANGED requests
         \/ /\ m.action = "REQUEST-CONTEXT"
            /\ requests' = [requests EXCEPT ![a] = Tracked(@, m)]
            /\ UNCHANGED entries
  /\ hearing' = hearing \cup {a}
  /\ UNCHANGED <<strays, sharing, storing, answers, unread, shares>>

\* The second: FulfillRequest, or HandleContextRequest, which reads the entry once
\* and sends what it read later.
EndHearing(a) ==
  /\ a \in hearing
  /\ LET m == Head(unread[a])
     IN  \/ /\ m.action = "CONTEXT"
            /\ requests' = [requests EXCEPT ![a] = Fulfilled(@, m.component)]
            /\ UNCHANGED answers
         \/ /\ m.action = "REQUEST-CONTEXT"
            /\ LET e == entries[a][m.component]
               IN  answers' = [answers EXCEPT ![a] =
                     CASE e = NoEntry -> <<>>
                       [] e # NoEntry /\ e.payload = NoSharer -> <<Context(a, m.component)>>
                       [] OTHER -> <<Context(a, m.component), SharingContext(a)>>]
            /\ UNCHANGED requests
  /\ hearing' = hearing \ {a}
  /\ unread' = [unread EXCEPT ![a] = Tail(@)]
  /\ UNCHANGED <<entries, strays, sharing, storing, shares>>

\* handleMessage of a SHARING-CONTEXT.
HearPayload(a) ==
  /\ unread[a] # <<>> /\ answers[a] = <<>>
  /\ Head(unread[a]).action = "SHARING-CONTEXT"
  /\ StorePayload(a, Head(unread[a]))
  /\ unread' = [unread EXCEPT ![a] = Tail(@)]
  /\ UNCHANGED <<requests, sharing, storing, hearing, answers, shares>>

\* HandleContextRequest sends: directly, past the agent's own store.
AnswerRequest(a) ==
  /\ answers[a] # <<>>
  /\ Deliver(a, Head(answers[a]))
  /\ answers' = [answers EXCEPT ![a] = Tail(@)]
  /\ UNCHANGED <<entries, strays, requests, sharing, storing, hearing, shares>>

CtxNext ==
  \E a \in Sharers :
    \/ \E c \in Components : Share(a, c) \/ Request(a, c)
    \/ SharePayload(a)
    \/ FulfillRequest(a)
    \/ Sent(a)
    \/ Hear(a) \/ EndHearing(a) \/ HearPayload(a)
    \/ AnswerRequest(a)

CtxSpec == CtxInit /\ [][CtxNext]_ctxVars

-----------------------------------------------------------------------------
\* The SharedBy of an entry sent its payload: an announcement by another agent, or
\* an answer that relays the entry, takes it over and drops the payload its former
\* owner sent, however payloads, announcements and answers of several agents cross.
NoForeignPayload ==
  \A a \in Sharers, c \in Components :
    entries[a][c].payload \in {NoSharer, entries[a][c].by}

\* Agent a stores a payload that n sent.
PayloadStored(a, n) ==
  \/ HearPayload(a) /\ n = Head(unread[a]).nick
  \/ SharePayload(a) /\ n = a

\* What context_sharing.go:84-85 says of StorePayload: the payload goes to the most
\* recently requested component, if its sender has shared that.
PayloadsFollowRequests ==
  [][\A a, n \in Sharers : PayloadStored(a, n) /\ requests[a] # <<>> =>
       LET r == requests[a][Len(requests[a])]
       IN  r.by # n /\ entries[a][r.component].by = n
             => entries'[a][r.component].payload = n]_ctxVars

\* When everything is read, the requester knows a component that anybody knows,
\* and a request is pending at an agent only where nobody but the agent itself or
\* the requester is known to share the component.  So an answer, or an
\* announcement that crosses the request, fulfils it at everybody who hears it; an
\* agent that answers sends past its own store and keeps the request pending.
PendingMeansUnanswered ==
  (\A a \in Sharers : unread[a] = <<>> /\ answers[a] = <<>> /\ sharing[a] = NoMessage) =>
    \A a \in Sharers : \A i \in DOMAIN requests[a] :
      LET r == requests[a][i]
          knowing == {b \in Sharers : entries[b][r.component] # NoEntry}
      IN  /\ knowing # {} => r.by \in knowing
          /\ ~r.fulfilled => entries[a][r.component].by \in {NoSharer, a, r.by}
=============================================================================
