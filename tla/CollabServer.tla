---------------------------- MODULE CollabServer ----------------------------
(***************************************************************************)
(* The shared document of one project (collab-server/src/server.ts), its   *)
(* snapshot and relay in Redis, and the editor pages connected to it.      *)
(*                                                                         *)
(* A Yjs document is the set of edits it has integrated, and merging is    *)
(* union.  y-websocket (getYDoc, closeConn, the sync protocol) and Redis   *)
(* are external.  One step of a server is one callback of its event loop:  *)
(* it runs to the next await, and the commands it has sent are pending.    *)
(***************************************************************************)
EXTENDS Naturals, Sequences, FiniteSets

CONSTANTS
  Instances,    \* server processes
  Editors,      \* editor pages
  Edits,        \* every edit is made once
  Documents,    \* Y.Doc objects; one nobody refers to may be made again
  NoInstance, NoDoc,
  Faults,       \* kinds of fault that may happen, each at most once
  MaxFaults,    \* bound on the faults that happen
  MaxCalls,     \* bound on the commands pending on a Redis connection when
                \* a page connects or leaves or the interval ticks
  HastyLeave    \* BOOLEAN: the last page may leave before its GET is answered

FaultKinds == {"crash", "get", "set"}

ASSUME NullsDiffer == NoInstance \notin Instances /\ NoDoc \notin Documents
ASSUME FaultsType == Faults \subseteq FaultKinds
ASSUME HastyLeaveType == HastyLeave \in BOOLEAN
ASSUME BoundsType == {MaxCalls, MaxFaults} \subseteq Nat

VARIABLES
  stored,    \* value of the key yjs:doc:{docName}
  subs,      \* instances subscribed to yjs:updates:{docName}
  state,     \* state[i]: is the process up, shutting down, or down
  doc,       \* doc[i]: entry of y-websocket's docs
  active,    \* active[i]: entry of activeDocs
  count,     \* count[i]: entry of connectionCounts, 0 where there is none
  relayed,   \* relayed[i]: is the name in subscribedDocs
  calls,     \* calls[i]: commands pending on persistence_redis
  subCalls,  \* subCalls[i]: commands pending on subClient
  outbox,    \* outbox[i]: updates published on pubClient, not yet executed
  inbox,     \* inbox[i]: updates on their way to subClient
  contents,  \* contents[d]: what document d has integrated
  hooked,    \* documents with the publishing handler
  open,      \* open[e]: is the page open
  at,        \* at[e]: the instance its socket is connected to
  text,      \* text[e]: its own Y.Doc
  made,      \* edits made so far
  accepted,  \* edits a restored document integrated, no crash undid them
  happened   \* faults that have happened

redisVars == <<stored, subs>>
trackVars == <<doc, active, count, relayed>>
wireVars == <<subCalls, outbox, inbox>>
objectVars == <<contents, hooked>>
editorVars == <<open, at, text, made>>
vars == <<redisVars, state, trackVars, calls, wireVars, objectVars, editorVars,
          accepted, happened>>

Commands ==
  [op : {"get"}, doc : Documents]
    \cup [op : {"write", "save"}, doc : Documents, state : SUBSET Edits]

Init ==
  /\ stored = {} /\ subs = {}
  /\ state = [i \in Instances |-> "up"]
  /\ doc = [i \in Instances |-> NoDoc]
  /\ active = [i \in Instances |-> NoDoc]
  /\ count = [i \in Instances |-> 0]
  /\ relayed = [i \in Instances |-> FALSE]
  /\ calls = [i \in Instances |-> <<>>]
  /\ subCalls = [i \in Instances |-> <<>>]
  /\ outbox = [i \in Instances |-> {}]
  /\ inbox = [i \in Instances |-> {}]
  /\ contents = [d \in Documents |-> {}]
  /\ hooked = {}
  /\ open = [e \in Editors |-> FALSE]
  /\ at = [e \in Editors |-> NoInstance]
  /\ text = [e \in Editors |-> {}]
  /\ made = {} /\ accepted = {} /\ happened = {}

Fault(kind) ==
  /\ kind \in Faults \ happened /\ Cardinality(happened) < MaxFaults
  /\ happened' = happened \cup {kind}

Room(i) == Len(calls[i]) < MaxCalls /\ Len(subCalls[i]) < MaxCalls

Call(i, command) == calls' = [calls EXCEPT ![i] = Append(@, command)]

Encoded(op, d) == [op |-> op, doc |-> d, state |-> contents[d]]

CalledFor(i) == {calls[i][k].doc : k \in DOMAIN calls[i]}

\* bindState of the live document still waits for its GET.
Restoring(i) == \E k \in DOMAIN calls[i] : calls[i][k] = [op |-> "get", doc |-> doc[i]]

---------------------------------------------------------------------------
(* Connections.                                                            *)

Unused == Documents \ UNION {{doc[i], active[i]} \cup CalledFor(i) : i \in Instances}

\* getYDoc: the entry of docs, or a new empty document that bindState fills.
GetYDoc(i) ==
  \/ /\ doc[i] # NoDoc
     /\ UNCHANGED <<doc, calls, contents>>
  \/ /\ doc[i] = NoDoc /\ Unused # {}
     /\ LET d == CHOOSE x \in Unused : TRUE IN
          /\ doc' = [doc EXCEPT ![i] = d]
          /\ contents' = [contents EXCEPT ![d] = {}]
          /\ Call(i, [op |-> "get", doc |-> d])

\* The publishing handler is added to the document that docs then holds.
EnsureDocRelay(i) ==
  \/ /\ relayed[i]
     /\ hooked' = hooked \ ({doc'[i]} \ {doc[i]})
     /\ UNCHANGED <<relayed, subCalls>>
  \/ /\ ~relayed[i]
     /\ relayed' = [relayed EXCEPT ![i] = TRUE]
     /\ subCalls' = [subCalls EXCEPT ![i] = Append(@, "subscribe")]
     /\ hooked' = hooked \cup {doc'[i]}

Connect(e, i) ==
  /\ state[i] = "up" /\ open[e] /\ at[e] = NoInstance /\ Room(i)
  /\ at' = [at EXCEPT ![e] = i]
  /\ GetYDoc(i)
  /\ EnsureDocRelay(i)
  /\ UNCHANGED <<redisVars, state, active, count, outbox, inbox, open, text, made, accepted, happened>>

\* closeConn: the last connection takes the document out of docs and writes it.
CloseConn(i, others) ==
  \/ others # {} /\ UNCHANGED <<doc, calls>>
  \/ /\ others = {} /\ Room(i)
     /\ HastyLeave \/ ~Restoring(i)
     /\ doc' = [doc EXCEPT ![i] = NoDoc]
     /\ Call(i, Encoded("write", doc[i]))

Disconnect(e) ==
  /\ at[e] # NoInstance
  /\ at' = [at EXCEPT ![e] = NoInstance]
  /\ CloseConn(at[e], {f \in Editors \ {e} : at[f] = at[e]})
  /\ UNCHANGED <<redisVars, state, active, count, relayed, wireVars, objectVars,
                 made, accepted, happened>>

\* The socket is lost: the page keeps its document, the provider reconnects.
LoseSocket(e) == Disconnect(e) /\ UNCHANGED <<open, text>>

OpenPage(e) ==
  /\ ~open[e]
  /\ open' = [open EXCEPT ![e] = TRUE]
  /\ UNCHANGED <<redisVars, state, trackVars, calls, wireVars, objectVars, at, text, made, accepted, happened>>

\* The effect's cleanup: provider.destroy() and ydoc.destroy().
ClosePage(e) ==
  /\ open[e]
  /\ open' = [open EXCEPT ![e] = FALSE]
  /\ text' = [text EXCEPT ![e] = {}]
  /\ \/ Disconnect(e)
     \/ /\ at[e] = NoInstance
        /\ UNCHANGED <<redisVars, state, trackVars, calls, wireVars, objectVars, at, made, accepted, happened>>

---------------------------------------------------------------------------
(* Edits.                                                                  *)

MakeEdit(e, u) ==
  /\ open[e] /\ u \notin made
  /\ text' = [text EXCEPT ![e] = @ \cup {u}]
  /\ made' = made \cup {u}
  /\ UNCHANGED <<redisVars, state, trackVars, calls, wireVars, objectVars, open, at, accepted, happened>>

\* Y.applyUpdate with another origin than the relay: what is new is published.
Integrate(i, d, edits) ==
  /\ contents' = [contents EXCEPT ![d] = @ \cup edits]
  /\ outbox' = [outbox EXCEPT ![i] =
       @ \cup (IF d \in hooked THEN edits \ contents[d] ELSE {})]

ToServer(e) ==
  LET i == at[e] IN
  /\ i # NoInstance
  /\ ~(text[e] \subseteq contents[doc[i]])
  /\ Integrate(i, doc[i], text[e])
  /\ accepted' = accepted \cup
       (IF state[i] = "up" /\ ~Restoring(i) THEN text[e] ELSE {})
  /\ UNCHANGED <<redisVars, state, trackVars, calls, subCalls, inbox, hooked,
                 editorVars, happened>>

\* The answer to the page's first sync message, and every later broadcast.
FromServer(e) ==
  /\ at[e] # NoInstance
  /\ ~(contents[doc[at[e]]] \subseteq text[e])
  /\ text' = [text EXCEPT ![e] = @ \cup contents[doc[at[e]]]]
  /\ UNCHANGED <<redisVars, state, trackVars, calls, wireVars, objectVars, open, at,
                 made, accepted, happened>>

---------------------------------------------------------------------------
(* Replies on persistence_redis.  A connection executes its commands in    *)
(* order; that and the continuation of the caller are one step.            *)

Reply(i, op) ==
  /\ calls[i] # <<>> /\ Head(calls[i]).op = op
  /\ calls' = [calls EXCEPT ![i] = Tail(@)]

\* Mutant: a failed GET leaves the document out of activeDocs.
BindStateOrForget(i) ==
  LET d == Head(calls[i]).doc IN
  /\ Reply(i, "get")
  /\ \/ /\ Integrate(i, d, stored)
        /\ count' = [count EXCEPT ![i] = @ + 1]
        /\ accepted' = accepted \cup
             (IF state[i] = "up" /\ doc[i] = d THEN contents'[d] ELSE {})
        /\ active' = [active EXCEPT ![i] = d]
        /\ UNCHANGED happened
     \/ /\ Fault("get")
        /\ UNCHANGED <<contents, outbox, count, accepted, active>>
  /\ UNCHANGED <<redisVars, state, doc, relayed, subCalls, inbox, hooked, editorVars>>

\* Mutant: the snapshot is read and not applied.
BindStateFresh(i) ==
  LET d == Head(calls[i]).doc IN
  /\ Reply(i, "get")
  /\ count' = [count EXCEPT ![i] = @ + 1]
  /\ active' = [active EXCEPT ![i] = d]
  /\ UNCHANGED <<redisVars, state, doc, relayed, wireVars, objectVars, editorVars,
                 accepted, happened>>

\* A failed GET is logged, and the document goes on without its snapshot.
BindState(i) ==
  LET d == Head(calls[i]).doc IN
  /\ Reply(i, "get")
  /\ active' = [active EXCEPT ![i] = d]
  /\ \/ /\ Integrate(i, d, stored)
        /\ count' = [count EXCEPT ![i] = @ + 1]
        /\ accepted' = accepted \cup
             (IF state[i] = "up" /\ doc[i] = d THEN contents'[d] ELSE {})
        /\ UNCHANGED happened
     \/ /\ Fault("get")
        /\ UNCHANGED <<contents, outbox, count, accepted>>
  /\ UNCHANGED <<redisVars, state, doc, relayed, subCalls, inbox, hooked, editorVars>>

\* Mutant: the entry of connectionCounts is decremented and never deleted.
ForgetDocDecremented(i) ==
  /\ count' = [count EXCEPT ![i] = @ - 1]
  /\ active' = [active EXCEPT ![i] = NoDoc]
  /\ relayed' = [relayed EXCEPT ![i] = FALSE]
  /\ subCalls' = [subCalls EXCEPT ![i] =
       IF relayed[i] THEN Append(@, "unsubscribe") ELSE @]

\* Mutant: the relay is left subscribed.
ForgetDocSubscribed(i) ==
  /\ count' = [count EXCEPT ![i] = 0]
  /\ active' = [active EXCEPT ![i] = NoDoc]
  /\ UNCHANGED <<relayed, subCalls>>

\* The last document of the name is written: its entries are deleted.
ForgetDoc(i) ==
  /\ count' = [count EXCEPT ![i] = 0]
  /\ active' = [active EXCEPT ![i] = NoDoc]
  /\ relayed' = [relayed EXCEPT ![i] = FALSE]
  /\ subCalls' = [subCalls EXCEPT ![i] =
       IF relayed[i] THEN Append(@, "unsubscribe") ELSE @]

\* A failed SET is logged; activeDocs loses an entry nothing counts.
WriteState(i) ==
  /\ Reply(i, "write")
  /\ \/ /\ stored' = Head(calls[i]).state
        /\ \/ count[i] <= 1 /\ ForgetDoc(i)
           \/ /\ count[i] > 1
              /\ count' = [count EXCEPT ![i] = @ - 1]
              /\ UNCHANGED <<active, relayed, subCalls>>
        /\ UNCHANGED happened
     \/ /\ Fault("set")
        /\ active' = [active EXCEPT ![i] = IF count[i] = 0 THEN NoDoc ELSE @]
        /\ UNCHANGED <<stored, count, relayed, subCalls>>
  /\ UNCHANGED <<subs, state, doc, outbox, inbox, objectVars, editorVars, accepted>>

Saved(i) ==
  /\ Reply(i, "save")
  /\ \/ stored' = Head(calls[i]).state /\ UNCHANGED happened
     \/ Fault("set") /\ UNCHANGED stored
  /\ UNCHANGED <<subs, state, trackVars, wireVars, objectVars, editorVars, accepted>>

---------------------------------------------------------------------------
(* The interval, the relay, and the process.                               *)

\* A tick of setInterval: what activeDocs holds is encoded and sent.
PeriodicSave(i) ==
  /\ active[i] # NoDoc /\ Room(i)
  /\ Call(i, Encoded("save", active[i]))
  /\ UNCHANGED <<redisVars, state, trackVars, wireVars, objectVars, editorVars,
                 accepted, happened>>

SubReply(i) ==
  /\ subCalls[i] # <<>>
  /\ subs' = IF Head(subCalls[i]) = "subscribe" THEN subs \cup {i} ELSE subs \ {i}
  /\ subCalls' = [subCalls EXCEPT ![i] = Tail(@)]
  /\ UNCHANGED <<stored, state, trackVars, calls, outbox, inbox, objectVars,
                 editorVars, accepted, happened>>

\* Redis passes a published update to who is subscribed now, sender included.
Publish(i, u) ==
  /\ u \in outbox[i]
  /\ outbox' = [outbox EXCEPT ![i] = @ \ {u}]
  /\ inbox' = [j \in Instances |-> inbox[j] \cup (IF j \in subs THEN {u} ELSE {})]
  /\ UNCHANGED <<redisVars, state, trackVars, calls, subCalls, objectVars, editorVars,
                 accepted, happened>>

\* The message handler; origin RELAY_ORIGIN, so nothing is published again.
\* The update arrives, or is lost: delivery is at most once, and the handler
\* takes a message that is a string for one byte per character.
Receive(i, u) ==
  /\ u \in inbox[i]
  /\ inbox' = [inbox EXCEPT ![i] = @ \ {u}]
  /\ \/ doc[i] # NoDoc /\ contents' = [contents EXCEPT ![doc[i]] = @ \cup {u}]
     \/ UNCHANGED contents
  /\ UNCHANGED <<redisVars, state, trackVars, calls, subCalls, outbox, hooked,
                 editorVars, accepted, happened>>

\* Mutant: the process exits without flushing.
ShutdownAtOnce(i) ==
  /\ state[i] = "up"
  /\ state' = [state EXCEPT ![i] = "stopping"]
  /\ UNCHANGED <<redisVars, trackVars, calls, wireVars, objectVars, editorVars,
                 accepted, happened>>

\* shutdown: no new connections, activeDocs is flushed.
Shutdown(i) ==
  /\ state[i] = "up"
  /\ state' = [state EXCEPT ![i] = "stopping"]
  /\ \/ active[i] # NoDoc /\ Call(i, Encoded("save", active[i]))
     \/ active[i] = NoDoc /\ UNCHANGED calls
  /\ UNCHANGED <<redisVars, trackVars, wireVars, objectVars, editorVars, accepted,
                 happened>>

Down(i) ==
  /\ state' = [state EXCEPT ![i] = "down"]
  /\ doc' = [doc EXCEPT ![i] = NoDoc]
  /\ active' = [active EXCEPT ![i] = NoDoc]
  /\ count' = [count EXCEPT ![i] = 0]
  /\ relayed' = [relayed EXCEPT ![i] = FALSE]
  /\ calls' = [calls EXCEPT ![i] = <<>>]
  /\ subCalls' = [subCalls EXCEPT ![i] = <<>>]
  /\ outbox' = [outbox EXCEPT ![i] = {}]
  /\ inbox' = [inbox EXCEPT ![i] = {}]
  /\ subs' = subs \ {i}
  /\ at' = [e \in Editors |-> IF at[e] = i THEN NoInstance ELSE at[e]]
  /\ UNCHANGED <<stored, objectVars, open, text, made>>

\* quit() waits for what is pending, then process.exit(0).
Exit(i) ==
  /\ state[i] = "stopping" /\ calls[i] = <<>> /\ outbox[i] = {}
  /\ Down(i)
  /\ UNCHANGED <<accepted, happened>>

\* What is pending is lost; commands that were still executed are steps before.
Crash(i) ==
  /\ state[i] # "down" /\ Fault("crash")
  /\ Down(i)
  /\ accepted' = accepted \cap stored

Restart(i) ==
  /\ state[i] = "down"
  /\ state' = [state EXCEPT ![i] = "up"]
  /\ UNCHANGED <<redisVars, trackVars, calls, wireVars, objectVars, editorVars,
                 accepted, happened>>

Next ==
  \/ \E e \in Editors :
       \/ OpenPage(e) \/ ClosePage(e) \/ LoseSocket(e)
       \/ ToServer(e) \/ FromServer(e)
       \/ \E i \in Instances : Connect(e, i)
       \/ \E u \in Edits : MakeEdit(e, u)
  \/ \E i \in Instances :
       \/ BindState(i) \/ WriteState(i) \/ Saved(i)
       \/ PeriodicSave(i) \/ SubReply(i)
       \/ Shutdown(i) \/ Exit(i) \/ Crash(i) \/ Restart(i)
       \/ \E u \in Edits : Publish(i, u) \/ Receive(i, u)

Spec == Init /\ [][Next]_vars

---------------------------------------------------------------------------
(* Properties.                                                             *)

TypeOK ==
  /\ stored \subseteq Edits /\ made \subseteq Edits /\ accepted \subseteq Edits
  /\ subs \subseteq Instances
  /\ state \in [Instances -> {"up", "stopping", "down"}]
  /\ doc \in [Instances -> Documents \cup {NoDoc}]
  /\ active \in [Instances -> Documents \cup {NoDoc}]
  /\ count \in [Instances -> Nat]
  /\ relayed \in [Instances -> BOOLEAN]
  /\ calls \in [Instances -> Seq(Commands)]
  /\ subCalls \in [Instances -> Seq({"subscribe", "unsubscribe"})]
  /\ outbox \in [Instances -> SUBSET Edits] /\ inbox \in [Instances -> SUBSET Edits]
  /\ contents \in [Documents -> SUBSET Edits]
  /\ hooked \subseteq Documents
  /\ open \in [Editors -> BOOLEAN]
  /\ at \in [Editors -> Instances \cup {NoInstance}]
  /\ text \in [Editors -> SUBSET Edits]
  /\ happened \subseteq Faults

RedisAnswers == happened \cap {"get", "set"} = {}

\* What the Redis snapshot holds is never lost from it again, although three
\* places write it (writeState, the interval, the flush), a document may be
\* written while its successor is being restored, and the process may crash.
StoredOnlyGrows == [][RedisAnswers' => stored \subseteq stored']_vars

Kept(i) ==
  (IF doc[i] = NoDoc THEN {} ELSE contents[doc[i]])
    \cup UNION {calls[i][k].state :
                  k \in {n \in DOMAIN calls[i] : calls[i][n].op # "get"}}

\* An edit that a restored document integrated is in the live document, in a
\* SET under way, or in Redis: through the last disconnect, the next connect
\* and a graceful shutdown.  A crash may undo what was not in Redis.
EditsKept ==
  RedisAnswers => accepted \subseteq stored \cup UNION {Kept(i) : i \in Instances}

\* The interval and the shutdown flush reach every restored live document:
\* writeState of an older document never takes it out of activeDocs, failed
\* calls included.
LiveDocIsActive ==
  \A i \in Instances :
    doc[i] # NoDoc /\ ~Restoring(i) => active[i] = doc[i]

\* When the last page has left and all calls are answered nothing of the
\* document is left behind: no entry, no count, no subscription.
NothingLeaks ==
  \A i \in Instances :
    RedisAnswers /\ doc[i] = NoDoc /\ calls[i] = <<>> /\ subCalls[i] = <<>> =>
      active[i] = NoDoc /\ count[i] = 0 /\ ~relayed[i] /\ i \notin subs

Quiet ==
  /\ \A i \in Instances :
       /\ calls[i] = <<>> /\ subCalls[i] = <<>>
       /\ outbox[i] = {} /\ inbox[i] = {}
  /\ \A e \in Editors : at[e] # NoInstance /\ text[e] = contents[doc[at[e]]]

\* docs/ARCHITECTURE.md on several instances: "All instances subscribe and
\* re-broadcast to their local WebSocket clients".  When every page is
\* connected and nothing is under way, all pages show the same.
EditorsAgree ==
  Quiet => \A e, f \in Editors : text[e] = text[f]

=============================================================================
