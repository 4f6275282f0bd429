---------------------------- MODULE CollabProofs ----------------------------
(***************************************************************************)
(* Proofs about CollabServer, for any number of pages, edits and pending   *)
(* calls.                                                                  *)
(*                                                                         *)
(* The argument: the commands of one connection are answered in order, and *)
(* a document is read before it is written. So the GET of the live         *)
(* document comes after every GET and SET of its predecessors, GET and     *)
(* writeState alternate, and what is pending tells the count. With one     *)
(* server, whose pages wait for the GET before they leave, what is written *)
(* grows from each pending SET to the next, and a document that is being   *)
(* restored will have read the last one.                                   *)
(***************************************************************************)
EXTENDS CollabServer, TLAPS

Get(d) == [op |-> "get", doc |-> d]

\* A page is connected to a document.
ConnectedHaveDoc == \A e \in Editors : at[e] # NoInstance => doc[at[e]] # NoDoc

\* The GET of the live document is behind all GETs and writes, if any is pending.
GetsTrail ==
  \A i \in Instances : doc[i] # NoDoc =>
    \A k \in DOMAIN calls[i] : calls[i][k].op # "save" =>
      \E l \in DOMAIN calls[i] : k <= l /\ calls[i][l] = Get(doc[i])

LiveDocs == TypeOK /\ ConnectedHaveDoc /\ GetsTrail /\ LiveDocIsActive

---------------------------------------------------------------------------
(* What is left behind.                                                    *)

\* subscribedDocs is ahead of the subscription by what is pending.
RelayInStep ==
  \A i \in Instances :
    IF subCalls[i] = <<>> THEN i \in subs <=> relayed[i]
    ELSE subCalls[i][Len(subCalls[i])] = "subscribe" <=> relayed[i]

\* The commands of kind op that are pending at i.
Pending(i, op) == {k \in DOMAIN calls[i] : calls[i][k].op = op}

\* Between two GETs there is a write, between two writes a GET.
Alternate(i) ==
  /\ \A k, l \in Pending(i, "get") : k < l => \E m \in Pending(i, "write") : k < m /\ m < l
  /\ \A k, l \in Pending(i, "write") : k < l => \E m \in Pending(i, "get") : k < m /\ m < l
  /\ doc[i] = NoDoc => \A k \in Pending(i, "get") : \E l \in Pending(i, "write") : k < l

\* The count is what the next GET or write will find.
CountInStep(i) ==
  /\ \A k \in Pending(i, "get") : (\A l \in Pending(i, "write") : k < l) => count[i] = 0
  /\ \A k \in Pending(i, "write") : (\A l \in Pending(i, "get") : k < l) => count[i] = 1
  /\ Pending(i, "get") = {} /\ Pending(i, "write") = {} =>
       /\ doc[i] = NoDoc => active[i] = NoDoc /\ count[i] = 0 /\ ~relayed[i]
       /\ doc[i] # NoDoc => count[i] = 1

Tidy ==
  /\ LiveDocs /\ RelayInStep
  /\ RedisAnswers => \A i \in Instances : Alternate(i) /\ CountInStep(i)

---------------------------------------------------------------------------
(* What is kept, with one server.                                          *)

OneServer == (\E i : Instances = {i}) /\ ~HastyLeave

Sets(i) == {k \in DOMAIN calls[i] : calls[i][k].op # "get"}

\* All of s is in Redis or in a SET before place n.
Written(i, s, n) == s \subseteq stored \/ \E k \in Sets(i) : k < n /\ s \subseteq calls[i][k].state

\* The only GET under way is that of the live document.
OneGet(i) ==
  /\ \A k \in Pending(i, "get") : doc[i] # NoDoc /\ calls[i][k] = Get(doc[i])
  /\ \A k, l \in Pending(i, "get") : k = l
  /\ Restoring(i) => active[i] # doc[i]

\* Nothing is written that lacks what was written, or will be, before it.
Growing(i) ==
  /\ \A k \in Sets(i) : stored \subseteq calls[i][k].state
  /\ \A k, l \in Sets(i) : k < l => calls[i][k].state \subseteq calls[i][l].state
  /\ \A d \in {doc[i], active[i]} \ {NoDoc} : (d = doc[i] /\ Restoring(i)) \/
       (stored \subseteq contents[d] /\ \A k \in Sets(i) : calls[i][k].state \subseteq contents[d])

\* The predecessor adds nothing to what the live document will read.
PredecessorWritten(i) ==
  /\ doc[i] = NoDoc /\ active[i] # NoDoc => Written(i, contents[active[i]], Len(calls[i]) + 1)
  /\ \A g \in Pending(i, "get") :
       /\ active[i] # NoDoc => Written(i, contents[active[i]], g)
       /\ \A k \in Sets(i) : g < k => Written(i, calls[i][k].state, g)

\* Where the accepted edits are; a server that stops counts on the flush.
AcceptedKept(i) ==
  \A u \in accepted :
    \/ u \in stored
    \/ \E k \in Sets(i) : u \in calls[i][k].state
    \/ state[i] = "up" /\ doc[i] # NoDoc /\ ~Restoring(i) /\ u \in contents[doc[i]]

KeptAt(i) == OneGet(i) /\ Growing(i) /\ PredecessorWritten(i) /\ AcceptedKept(i)

Kepts == LiveDocs /\ (RedisAnswers => \A i \in Instances : KeptAt(i))

---------------------------------------------------------------------------
(* Types.                                                                  *)

USE NullsDiffer, FaultsType, HastyLeaveType, BoundsType

\* What Append does to length, domain and places.
LEMMA Appended ==
  ASSUME NEW S, NEW s \in Seq(S), NEW x \in S
  PROVE  /\ Append(s, x) \in Seq(S) /\ Len(Append(s, x)) = Len(s) + 1
         /\ DOMAIN Append(s, x) = 1 .. Len(s) + 1 /\ DOMAIN s = 1 .. Len(s) /\ Len(s) \in Nat
         /\ \A k \in DOMAIN s : Append(s, x)[k] = s[k]
         /\ Append(s, x)[Len(s) + 1] = x
  OBVIOUS

\* What Tail does to length, domain and places.
LEMMA Tailed ==
  ASSUME NEW S, NEW s \in Seq(S), s # <<>>
  PROVE  /\ Tail(s) \in Seq(S) /\ Len(Tail(s)) = Len(s) - 1 /\ Len(s) \in Nat \ {0}
         /\ DOMAIN Tail(s) = 1 .. Len(s) - 1 /\ DOMAIN s = 1 .. Len(s)
         /\ \A k \in DOMAIN Tail(s) : Tail(s)[k] = s[k + 1]
         /\ Head(s) = s[1] /\ Head(s) \in S
  OBVIOUS


\* The commands a server sends are commands.
LEMMA CommandsMade ==
  ASSUME TypeOK, NEW d \in Documents, NEW op \in {"write", "save"}
  PROVE  Encoded(op, d) \in Commands /\ Get(d) \in Commands
BY DEF TypeOK, Encoded, Get, Commands

\* The document a page is connected to: the live one, or a new one.
LEMMA GotYDoc ==
  ASSUME NEW i, GetYDoc(i)
  PROVE  \/ doc[i] # NoDoc /\ UNCHANGED <<doc, calls, contents>>
         \/ /\ doc[i] = NoDoc
            /\ \E d \in Unused :
                 /\ doc' = [doc EXCEPT ![i] = d]
                 /\ contents' = [contents EXCEPT ![d] = {}]
                 /\ Call(i, Get(d))
<1>1. CASE doc[i] = NoDoc /\ Unused # {}
  <2> DEFINE d == CHOOSE x \in Unused : TRUE
  <2>1. d \in Unused BY <1>1
  <2> QED BY <1>1, <2>1, NullsDiffer DEF GetYDoc, Get
<1> QED BY <1>1 DEF GetYDoc

\* ensureDocRelay keeps the types.
LEMMA TypesRelay ==
  ASSUME TypeOK, NEW i \in Instances, EnsureDocRelay(i), doc'[i] \in Documents
  PROVE  /\ hooked' \subseteq Documents /\ relayed' \in [Instances -> BOOLEAN]
         /\ subCalls' \in [Instances -> Seq({"subscribe", "unsubscribe"})]
<1>1. Append(subCalls[i], "subscribe") \in Seq({"subscribe", "unsubscribe"})
  BY Appended DEF TypeOK
<1>2. CASE relayed[i] BY <1>2 DEF TypeOK, EnsureDocRelay
<1>3. CASE ~relayed[i]
  <2>1. hooked' \subseteq Documents BY <1>3 DEF TypeOK, EnsureDocRelay
  <2>3. relayed' \in [Instances -> BOOLEAN] BY <1>3 DEF TypeOK, EnsureDocRelay
  <2>2. subCalls' \in [Instances -> Seq({"subscribe", "unsubscribe"})]
    <3>1. subCalls' = [subCalls EXCEPT ![i] = Append(subCalls[i], "subscribe")]
      BY <1>3 DEF EnsureDocRelay
    <3> QED BY <1>1, <3>1 DEF TypeOK
  <2> QED BY <2>1, <2>2, <2>3
<1> QED BY <1>2, <1>3

\* A connection keeps the types, and has a document.
LEMMA TypesConnect ==
  ASSUME TypeOK, NEW e \in Editors, NEW i \in Instances, Connect(e, i)
  PROVE  TypeOK' /\ doc'[i] \in Documents
<1>1. CASE doc[i] # NoDoc /\ UNCHANGED <<doc, calls, contents>>
  <2>1. doc[i] \in Documents BY <1>1 DEF TypeOK
  <2>2. /\ hooked' \subseteq Documents /\ relayed' \in [Instances -> BOOLEAN]
        /\ subCalls' \in [Instances -> Seq({"subscribe", "unsubscribe"})]
    BY <1>1, <2>1, TypesRelay DEF Connect
  <2> QED BY <1>1, <2>1, <2>2 DEF TypeOK, Connect, redisVars
<1>2. CASE \E d \in Unused : /\ doc' = [doc EXCEPT ![i] = d]
                             /\ contents' = [contents EXCEPT ![d] = {}]
                             /\ Call(i, Get(d))
  <2>1. PICK d \in Documents : /\ doc' = [doc EXCEPT ![i] = d]
                               /\ contents' = [contents EXCEPT ![d] = {}]
                               /\ Call(i, Get(d))
    BY <1>2 DEF Unused
  <2>2. calls' \in [Instances -> Seq(Commands)]
    <3>1. Append(calls[i], Get(d)) \in Seq(Commands)
      BY Appended, CommandsMade DEF TypeOK
    <3> QED BY <2>1, <3>1 DEF Call, TypeOK
  <2>3. doc' \in [Instances -> Documents \cup {NoDoc}] /\ doc'[i] = d BY <2>1 DEF TypeOK
  <2>4. contents' \in [Documents -> SUBSET Edits] BY <2>1 DEF TypeOK
  <2>5. /\ hooked' \subseteq Documents /\ relayed' \in [Instances -> BOOLEAN]
        /\ subCalls' \in [Instances -> Seq({"subscribe", "unsubscribe"})]
    BY <2>3, TypesRelay DEF Connect
  <2>6. at' \in [Editors -> Instances \cup {NoInstance}] BY DEF TypeOK, Connect
  <2> QED BY <2>1, <2>2, <2>3, <2>4, <2>5, <2>6 DEF TypeOK, Connect, redisVars
<1> QED BY <1>1, <1>2, GotYDoc DEF Connect

\* closeConn keeps the types.
LEMMA TypesDisconnect ==
  ASSUME TypeOK, ConnectedHaveDoc, NEW e \in Editors, Disconnect(e)
  PROVE  /\ doc' \in [Instances -> Documents \cup {NoDoc}]
         /\ calls' \in [Instances -> Seq(Commands)]
         /\ at' \in [Editors -> Instances \cup {NoInstance}]
<1>1. at[e] \in Instances /\ doc[at[e]] \in Documents
  BY DEF TypeOK, Disconnect, ConnectedHaveDoc
<1>2. calls' \in [Instances -> Seq(Commands)]
  <2>1. CASE UNCHANGED calls BY <2>1 DEF TypeOK
  <2>2. CASE Call(at[e], Encoded("write", doc[at[e]]))
    <3>1. Append(calls[at[e]], Encoded("write", doc[at[e]])) \in Seq(Commands)
      BY <1>1, CommandsMade, Appended DEF TypeOK
    <3> QED BY <1>1, <2>2, <3>1 DEF TypeOK, Call
  <2> QED BY <2>1, <2>2 DEF Disconnect, CloseConn
<1> QED BY <1>1, <1>2 DEF TypeOK, Disconnect, CloseConn

\* A page that leaves keeps the types.
LEMMA TypesLeave ==
  ASSUME TypeOK, ConnectedHaveDoc, NEW e \in Editors, ClosePage(e) \/ LoseSocket(e)
  PROVE  TypeOK'
<1>1. CASE Disconnect(e)
  BY <1>1, TypesDisconnect
  DEF TypeOK, Disconnect, ClosePage, LoseSocket, redisVars, trackVars, wireVars, objectVars
<1>2. CASE ClosePage(e) /\ ~Disconnect(e)
  BY <1>2 DEF TypeOK, ClosePage, redisVars, trackVars, wireVars, objectVars
<1> QED BY <1>1, <1>2 DEF LoseSocket

\* What the pages do to their texts keeps the types.
LEMMA TypesPages ==
  ASSUME TypeOK, ConnectedHaveDoc, NEW e \in Editors,
         \/ OpenPage(e) \/ ToServer(e) \/ FromServer(e)
         \/ \E u \in Edits : MakeEdit(e, u)
  PROVE  TypeOK'
<1> USE DEF redisVars, trackVars, wireVars, objectVars, editorVars
<1>1. CASE OpenPage(e) BY <1>1 DEF TypeOK, OpenPage
<1>2. CASE \E u \in Edits : MakeEdit(e, u) BY <1>2 DEF TypeOK, MakeEdit
<1>3. CASE ToServer(e)
  <2>1. at[e] \in Instances /\ doc[at[e]] \in Documents
    BY <1>3 DEF TypeOK, ToServer, ConnectedHaveDoc
  <2> QED BY <1>3, <2>1 DEF TypeOK, ToServer, Integrate
<1>4. CASE FromServer(e)
  <2>1. at[e] \in Instances /\ doc[at[e]] \in Documents
    BY <1>4 DEF TypeOK, FromServer, ConnectedHaveDoc
  <2> QED BY <1>4, <2>1 DEF TypeOK, FromServer
<1> QED BY <1>1, <1>2, <1>3, <1>4

\* A reply takes the first command.
LEMMA Replied ==
  ASSUME TypeOK, NEW i \in Instances, NEW op, Reply(i, op)
  PROVE  /\ calls' \in [Instances -> Seq(Commands)]
         /\ Head(calls[i]) \in Commands /\ Head(calls[i]).op = op
         /\ Head(calls[i]).doc \in Documents
         /\ op # "get" => Head(calls[i]).state \subseteq Edits
<1>1. calls[i] \in Seq(Commands) /\ calls[i] # <<>> BY DEF TypeOK, Reply
<1>2. Tail(calls[i]) \in Seq(Commands) /\ Head(calls[i]) \in Commands BY <1>1, Tailed
<1> QED BY <1>2 DEF TypeOK, Reply, Commands

\* A reply on persistence_redis keeps the types.
LEMMA TypesReply ==
  ASSUME TypeOK, NEW i \in Instances, BindState(i) \/ WriteState(i) \/ Saved(i)
  PROVE  TypeOK'
<1> USE DEF redisVars, trackVars, wireVars, objectVars, editorVars
<1>1. CASE BindState(i)
  <2>1. calls' \in [Instances -> Seq(Commands)] /\ Head(calls[i]).doc \in Documents
    BY <1>1, Replied DEF BindState
  <2>2. ASSUME Integrate(i, Head(calls[i]).doc, stored)
        PROVE  /\ accepted' \subseteq Edits /\ happened' \subseteq Faults
               /\ contents' \in [Documents -> SUBSET Edits]
               /\ outbox' \in [Instances -> SUBSET Edits]
    <3>1. contents' \in [Documents -> SUBSET Edits] BY <2>1, <2>2 DEF TypeOK, Integrate
    <3>2. outbox' \in [Instances -> SUBSET Edits]
      <4>1. (IF Head(calls[i]).doc \in hooked THEN stored \ contents[Head(calls[i]).doc] ELSE {})
              \subseteq Edits
        BY DEF TypeOK
      <4> QED BY <2>2, <4>1 DEF TypeOK, Integrate
    <3>3. accepted' \subseteq Edits /\ happened' \subseteq Faults
      BY <1>1, <2>1, <3>1 DEF TypeOK, BindState, Fault
    <3> QED BY <3>1, <3>2, <3>3
  <2>3. ASSUME UNCHANGED <<contents, outbox, count, accepted>> /\ Fault("get")
        PROVE  /\ accepted' \subseteq Edits /\ happened' \subseteq Faults
               /\ contents' \in [Documents -> SUBSET Edits]
               /\ outbox' \in [Instances -> SUBSET Edits]
    BY <2>3 DEF TypeOK, Fault
  <2>4. /\ active' \in [Instances -> Documents \cup {NoDoc}]
        /\ count' \in [Instances -> Nat]
    BY <1>1, <2>1 DEF TypeOK, BindState
  <2>5. /\ accepted' \subseteq Edits /\ happened' \subseteq Faults
        /\ contents' \in [Documents -> SUBSET Edits]
        /\ outbox' \in [Instances -> SUBSET Edits]
    BY <1>1, <2>2, <2>3 DEF BindState
  <2> QED BY <1>1, <2>1, <2>4, <2>5 DEF TypeOK, BindState
<1>2. CASE WriteState(i)
  <2>1. calls' \in [Instances -> Seq(Commands)] /\ Head(calls[i]).state \subseteq Edits
    BY <1>2, Replied DEF WriteState
  <2>2. stored' \subseteq Edits /\ happened' \subseteq Faults
    BY <1>2, <2>1 DEF TypeOK, WriteState, Fault
  <2>3. /\ count' \in [Instances -> Nat] /\ relayed' \in [Instances -> BOOLEAN]
        /\ active' \in [Instances -> Documents \cup {NoDoc}]
        /\ subCalls' \in [Instances -> Seq({"subscribe", "unsubscribe"})]
    <3>1. CASE ForgetDoc(i)
      <4>1. Append(subCalls[i], "unsubscribe") \in Seq({"subscribe", "unsubscribe"})
        BY Appended DEF TypeOK
      <4> QED BY <3>1, <4>1 DEF TypeOK, ForgetDoc
    <3>2. CASE count[i] > 1 /\ count' = [count EXCEPT ![i] = @ - 1]
               /\ UNCHANGED <<active, relayed, subCalls>>
      BY <3>2 DEF TypeOK
    <3>3. CASE /\ active' = [active EXCEPT ![i] = IF count[i] = 0 THEN NoDoc ELSE @]
               /\ UNCHANGED <<stored, count, relayed, subCalls>>
      BY <3>3 DEF TypeOK
    <3> QED BY <1>2, <3>1, <3>2, <3>3 DEF WriteState
  <2> QED BY <1>2, <2>1, <2>2, <2>3 DEF TypeOK, WriteState
<1>3. CASE Saved(i)
  <2>1. calls' \in [Instances -> Seq(Commands)] /\ Head(calls[i]).state \subseteq Edits
    BY <1>3, Replied DEF Saved
  <2> QED BY <1>3, <2>1 DEF TypeOK, Saved, Fault
<1> QED BY <1>1, <1>2, <1>3

\* The interval, the relay and the process keep the types.
LEMMA TypesServer ==
  ASSUME TypeOK, NEW i \in Instances,
         \/ PeriodicSave(i) \/ SubReply(i) \/ Shutdown(i)
         \/ Exit(i) \/ Crash(i) \/ Restart(i)
         \/ \E u \in Edits : Publish(i, u) \/ Receive(i, u)
  PROVE  TypeOK'
<1> USE DEF redisVars, trackVars, wireVars, objectVars, editorVars
<1>1. CASE PeriodicSave(i) \/ Shutdown(i)
  <2>1. calls' \in [Instances -> Seq(Commands)]
    <3>1. CASE active[i] # NoDoc /\ Call(i, Encoded("save", active[i]))
      <4>1. active[i] \in Documents BY <3>1 DEF TypeOK
      <4>2. Append(calls[i], Encoded("save", active[i])) \in Seq(Commands)
        BY <4>1, CommandsMade, Appended DEF TypeOK
      <4> QED BY <3>1, <4>2 DEF TypeOK, Call
    <3>2. CASE UNCHANGED calls BY <3>2 DEF TypeOK
    <3> QED BY <1>1, <3>1, <3>2 DEF PeriodicSave, Shutdown
  <2> QED BY <1>1, <2>1 DEF TypeOK, PeriodicSave, Shutdown
<1>2. CASE SubReply(i)
  <2>1. subCalls' \in [Instances -> Seq({"subscribe", "unsubscribe"})]
    BY <1>2, Tailed DEF TypeOK, SubReply
  <2> QED BY <1>2, <2>1 DEF TypeOK, SubReply
<1>3. CASE Exit(i) \/ Crash(i)
  <2>1. Down(i) BY <1>3 DEF Exit, Crash
  <2>2. accepted' \subseteq Edits /\ happened' \subseteq Faults
    BY <1>3 DEF TypeOK, Exit, Crash, Fault
  <2>3. /\ calls' \in [Instances -> Seq(Commands)]
        /\ subCalls' \in [Instances -> Seq({"subscribe", "unsubscribe"})]
    BY <2>1 DEF TypeOK, Down
  <2> QED BY <2>1, <2>2, <2>3 DEF TypeOK, Down
<1>4. CASE Restart(i) BY <1>4 DEF TypeOK, Restart
<1>5. CASE \E u \in Edits : Publish(i, u) BY <1>5 DEF TypeOK, Publish
<1>6. CASE \E u \in Edits : Receive(i, u)
  <2>1. PICK u \in Edits : Receive(i, u) BY <1>6
  <2>2. contents' \in [Documents -> SUBSET Edits]
    <3>1. CASE doc[i] # NoDoc /\ contents' = [contents EXCEPT ![doc[i]] = @ \cup {u}]
      <4>1. doc[i] \in Documents BY <3>1 DEF TypeOK
      <4> QED BY <3>1, <4>1 DEF TypeOK
    <3>2. CASE UNCHANGED contents BY <3>2 DEF TypeOK
    <3> QED BY <2>1, <3>1, <3>2 DEF Receive
  <2> QED BY <2>1, <2>2 DEF TypeOK, Receive
<1> QED BY <1>1, <1>2, <1>3, <1>4, <1>5, <1>6

\* Every step keeps the types.
LEMMA TypesStay ==
  ASSUME TypeOK, ConnectedHaveDoc, [Next]_vars
  PROVE  TypeOK'
<1>1. CASE Next
  <2>1. CASE \E e \in Editors :
               \/ OpenPage(e) \/ ClosePage(e) \/ LoseSocket(e)
               \/ ToServer(e) \/ FromServer(e)
               \/ \E i \in Instances : Connect(e, i)
               \/ \E u \in Edits : MakeEdit(e, u)
    BY <2>1, TypesConnect, TypesLeave, TypesPages
  <2>2. CASE \E i \in Instances :
               \/ BindState(i) \/ WriteState(i) \/ Saved(i)
               \/ PeriodicSave(i) \/ SubReply(i)
               \/ Shutdown(i) \/ Exit(i) \/ Crash(i) \/ Restart(i)
               \/ \E u \in Edits : Publish(i, u) \/ Receive(i, u)
    BY <2>2, TypesReply, TypesServer
  <2> QED BY <1>1, <2>1, <2>2 DEF Next
<1>2. CASE UNCHANGED vars
  BY <1>2 DEF TypeOK, vars, redisVars, trackVars, wireVars, objectVars, editorVars
<1> QED BY <1>1, <1>2

---------------------------------------------------------------------------
(* The live document is in activeDocs.                                     *)

\* A command is sent: the GET of a new document, the last write of the live
\* one, or a save.
LEMMA LiveCalled ==
  ASSUME LiveDocs, TypeOK', NEW i \in Instances, NEW c \in Commands, Call(i, c),
         active' = active, \A j \in Instances \ {i} : doc'[j] = doc[j],
         \/ c.op = "save" /\ doc'[i] = doc[i]
         \/ doc'[i] = NoDoc
         \/ c = Get(doc'[i])
  PROVE  GetsTrail' /\ LiveDocIsActive'
<1>1. /\ \A j \in Instances \ {i} : calls'[j] = calls[j]
      /\ calls'[i] = Append(calls[i], c)
  BY DEF Call, LiveDocs, TypeOK
<1>2. calls[i] \in Seq(Commands) BY DEF LiveDocs, TypeOK
<1>3. /\ DOMAIN calls[i] = 1 .. Len(calls[i]) /\ Len(calls[i]) \in Nat
      /\ DOMAIN calls'[i] = 1 .. Len(calls[i]) + 1
      /\ \A k \in DOMAIN calls[i] : calls'[i][k] = calls[i][k]
      /\ calls'[i][Len(calls[i]) + 1] = c
  BY <1>1, <1>2, Appended
<1>4. GetsTrail'
  <2> SUFFICES ASSUME NEW j \in Instances, doc'[j] # NoDoc,
                      NEW k \in DOMAIN calls'[j], calls'[j][k].op # "save"
               PROVE  \E l \in DOMAIN calls'[j] : k <= l /\ calls'[j][l] = Get(doc'[j])
    BY DEF GetsTrail, Get
  <2>1. CASE j # i BY <1>1, <2>1 DEF LiveDocs, GetsTrail
  <2>2. CASE j = i /\ c = Get(doc'[i]) BY <1>3, <2>2
  <2>3. CASE j = i /\ c.op = "save" /\ doc'[i] = doc[i]
    <3>1. k \in DOMAIN calls[i] /\ calls[i][k].op # "save" BY <1>3, <2>3
    <3>2. PICK l \in DOMAIN calls[i] : k <= l /\ calls[i][l] = Get(doc[i])
      BY <2>3, <3>1 DEF LiveDocs, GetsTrail
    <3> QED BY <1>3, <2>3, <3>2
  <2> QED BY <2>1, <2>2, <2>3
<1>5. LiveDocIsActive'
  <2> SUFFICES ASSUME NEW j \in Instances, doc'[j] # NoDoc, ~Restoring(j)'
               PROVE  active'[j] = doc'[j]
    BY DEF LiveDocIsActive
  <2>1. CASE j # i
    BY <1>1, <2>1 DEF LiveDocs, LiveDocIsActive, Restoring
  <2>2. CASE j = i
    <3>1. c # Get(doc'[i]) BY <1>3, <2>2 DEF Restoring, Get
    <3>2. doc'[i] = doc[i] BY <2>2, <3>1
    <3>3. ~Restoring(i) BY <1>3, <2>2, <3>2 DEF Restoring
    <3> QED BY <2>2, <3>2, <3>3 DEF LiveDocs, LiveDocIsActive
  <2> QED BY <2>1, <2>2
<1> QED BY <1>4, <1>5

\* A command is answered: a GET makes its document active, and only what no
\* document is live behind is taken out.
LEMMA LiveReplied ==
  ASSUME LiveDocs, NEW i \in Instances, doc' = doc,
         \A j \in Instances \ {i} : active'[j] = active[j],
         \/ Reply(i, "get") /\ active'[i] = Head(calls[i]).doc
         \/ Reply(i, "write")
         \/ Reply(i, "save") /\ active'[i] = active[i]
  PROVE  GetsTrail' /\ LiveDocIsActive'
<1>1. /\ \A j \in Instances \ {i} : calls'[j] = calls[j]
      /\ calls'[i] = Tail(calls[i])
  BY DEF Reply, LiveDocs, TypeOK
<1>2. calls[i] \in Seq(Commands) /\ calls[i] # <<>> BY DEF LiveDocs, TypeOK, Reply
<1>3. /\ DOMAIN calls[i] = 1 .. Len(calls[i]) /\ Len(calls[i]) \in Nat \ {0}
      /\ DOMAIN calls'[i] = 1 .. Len(calls[i]) - 1
      /\ \A k \in DOMAIN calls'[i] : calls'[i][k] = calls[i][k + 1]
      /\ Head(calls[i]) = calls[i][1]
  BY <1>1, <1>2, Tailed
<1>4. GetsTrail'
  <2> SUFFICES ASSUME NEW j \in Instances, doc'[j] # NoDoc,
                      NEW k \in DOMAIN calls'[j], calls'[j][k].op # "save"
               PROVE  \E l \in DOMAIN calls'[j] : k <= l /\ calls'[j][l] = Get(doc'[j])
    BY DEF GetsTrail, Get
  <2>1. CASE j # i BY <1>1, <2>1 DEF LiveDocs, GetsTrail
  <2>2. CASE j = i
    <3>1. k + 1 \in DOMAIN calls[i] /\ calls[i][k + 1].op # "save" BY <1>3, <2>2
    <3>2. PICK l \in DOMAIN calls[i] : k + 1 <= l /\ calls[i][l] = Get(doc[i])
      BY <2>2, <3>1 DEF LiveDocs, GetsTrail
    <3>3. l - 1 \in DOMAIN calls'[i] /\ k <= l - 1 /\ calls'[i][l - 1] = Get(doc'[i])
      BY <1>3, <2>2, <3>2
    <3> QED BY <2>2, <3>3
  <2> QED BY <2>1, <2>2
<1>5. LiveDocIsActive'
  <2> SUFFICES ASSUME NEW j \in Instances, doc'[j] # NoDoc, ~Restoring(j)'
               PROVE  active'[j] = doc'[j]
    BY DEF LiveDocIsActive
  <2>1. CASE j # i
    BY <1>1, <2>1 DEF LiveDocs, LiveDocIsActive, Restoring
  <2>2. CASE j = i
    <3>1. \A l \in DOMAIN calls[i] : calls[i][l] = Get(doc[i]) => l = 1
      <4> SUFFICES ASSUME NEW l \in DOMAIN calls[i], calls[i][l] = Get(doc[i]), l # 1
                   PROVE  FALSE
        OBVIOUS
      <4>1. l - 1 \in DOMAIN calls'[i] /\ (l - 1) + 1 = l BY <1>3
      <4>2. calls'[i][l - 1] = Get(doc'[i]) BY <1>3, <4>1
      <4> QED BY <2>2, <4>1, <4>2 DEF Restoring, Get
    <3>2. CASE Reply(i, "save")
      <4>1. ~Restoring(i) BY <1>3, <3>1, <3>2 DEF Restoring, Reply, Get
      <4> QED BY <2>2, <3>2, <4>1 DEF LiveDocs, LiveDocIsActive, Reply
    <3>3. CASE ~Reply(i, "save")
      <4>1. 1 \in DOMAIN calls[i] /\ calls[i][1].op # "save" BY <1>3, <3>3 DEF Reply
      <4>2. calls[i][1] = Get(doc[i])
        BY <1>3, <2>2, <3>1, <4>1 DEF LiveDocs, GetsTrail
      <4> QED BY <1>3, <2>2, <3>3, <4>2 DEF Reply, Get
    <3> QED BY <3>2, <3>3
  <2> QED BY <2>1, <2>2
<1> QED BY <1>4, <1>5

\* Nothing a document is kept in is changed.
LEMMA LiveSame ==
  ASSUME LiveDocs, UNCHANGED <<doc, active, calls, at>>
  PROVE  ConnectedHaveDoc' /\ GetsTrail' /\ LiveDocIsActive'
BY DEF LiveDocs, ConnectedHaveDoc, GetsTrail, LiveDocIsActive, Restoring, Get

\* A new connection keeps the invariant.
LEMMA LiveConnect ==
  ASSUME LiveDocs, NEW e \in Editors, NEW i \in Instances, Connect(e, i)
  PROVE  ConnectedHaveDoc' /\ GetsTrail' /\ LiveDocIsActive'
<1>1. TypeOK' /\ doc'[i] \in Documents BY TypesConnect DEF LiveDocs
<1>2. (\A j \in Instances \ {i} : doc'[j] = doc[j]) /\ active' = active
  <2>1. doc' = doc \/ \E d \in Unused : doc' = [doc EXCEPT ![i] = d]
    BY GotYDoc DEF Connect
  <2> QED BY <2>1 DEF Connect, LiveDocs, TypeOK
<1>3. ConnectedHaveDoc'
  <2>1. \A f \in Editors \ {e} : at'[f] = at[f] BY DEF Connect, LiveDocs, TypeOK
  <2>2. at'[e] = i BY DEF Connect, LiveDocs, TypeOK
  <2>3. \A f \in Editors : at'[f] \in Instances \cup {NoInstance} BY <1>1 DEF TypeOK
  <2> QED BY <1>1, <1>2, <2>1, <2>2, <2>3, NullsDiffer DEF LiveDocs, ConnectedHaveDoc
<1>4. CASE UNCHANGED <<doc, calls>>
  <2>1. GetsTrail' BY <1>4 DEF LiveDocs, GetsTrail, Get
  <2>2. LiveDocIsActive' BY <1>2, <1>4 DEF LiveDocs, LiveDocIsActive, Restoring
  <2> QED BY <1>3, <2>1, <2>2
<1>5. CASE \E d \in Unused : doc' = [doc EXCEPT ![i] = d] /\ Call(i, Get(d))
  <2>1. PICK d \in Documents : doc' = [doc EXCEPT ![i] = d] /\ Call(i, Get(d))
    BY <1>5 DEF Unused
  <2>2. doc'[i] = d BY <2>1 DEF LiveDocs, TypeOK
  <2>3. Get(d) \in Commands BY CommandsMade DEF LiveDocs
  <2> QED BY <1>1, <1>2, <1>3, <2>1, <2>2, <2>3, LiveCalled
<1> QED BY <1>3, <1>4, <1>5, GotYDoc DEF Connect

\* A lost connection keeps the invariant.
LEMMA LiveDisconnect ==
  ASSUME LiveDocs, TypeOK', NEW e \in Editors, Disconnect(e)
  PROVE  ConnectedHaveDoc' /\ GetsTrail' /\ LiveDocIsActive'
<1> DEFINE i == at[e]
           others == {f \in Editors \ {e} : at[f] = i}
<1>1. i \in Instances /\ doc[i] \in Documents
  BY DEF LiveDocs, TypeOK, Disconnect, ConnectedHaveDoc
<1>2. /\ at'[e] = NoInstance /\ active' = active
      /\ \A f \in Editors \ {e} : at'[f] = at[f]
  BY DEF LiveDocs, TypeOK, Disconnect, trackVars
<1>3. CASE others # {} /\ UNCHANGED <<doc, calls>>
  BY <1>2, <1>3 DEF LiveDocs, ConnectedHaveDoc, GetsTrail, LiveDocIsActive, Restoring, Get
<1>4. CASE /\ others = {} /\ doc' = [doc EXCEPT ![i] = NoDoc]
           /\ Call(i, Encoded("write", doc[i]))
  <2>1. /\ doc'[i] = NoDoc
        /\ \A j \in Instances \ {i} : doc'[j] = doc[j]
    BY <1>1, <1>4 DEF LiveDocs, TypeOK
  <2>2. Encoded("write", doc[i]) \in Commands BY <1>1, CommandsMade DEF LiveDocs
  <2>3. GetsTrail' /\ LiveDocIsActive' BY <1>1, <1>2, <1>4, <2>1, <2>2, LiveCalled
  <2>4. \A f \in Editors : at[f] \in Instances \cup {NoInstance} BY DEF LiveDocs, TypeOK
  <2>5. ConnectedHaveDoc'
    BY <1>2, <1>4, <2>1, <2>4 DEF LiveDocs, ConnectedHaveDoc
  <2> QED BY <2>3, <2>5
<1> QED BY <1>3, <1>4 DEF Disconnect, CloseConn

\* The end of a process keeps the invariant.
LEMMA LiveDown ==
  ASSUME LiveDocs, NEW i \in Instances, Down(i)
  PROVE  ConnectedHaveDoc' /\ GetsTrail' /\ LiveDocIsActive'
<1>1. /\ doc'[i] = NoDoc
      /\ \A j \in Instances \ {i} : /\ doc'[j] = doc[j] /\ active'[j] = active[j]
                                    /\ calls'[j] = calls[j]
  BY DEF LiveDocs, TypeOK, Down
<1>2. \A e \in Editors : at'[e] # NoInstance => at'[e] = at[e] /\ at[e] \in Instances \ {i}
  BY DEF LiveDocs, TypeOK, Down
<1>3. ConnectedHaveDoc' BY <1>1, <1>2 DEF LiveDocs, ConnectedHaveDoc
<1>4. GetsTrail' /\ LiveDocIsActive'
  BY <1>1 DEF LiveDocs, GetsTrail, LiveDocIsActive, Restoring, Get
<1> QED BY <1>3, <1>4

\* Every step keeps the invariant of the live documents.
LEMMA LiveStays ==
  ASSUME LiveDocs, [Next]_vars
  PROVE  LiveDocs'
<1> USE DEF redisVars, trackVars, wireVars, objectVars, editorVars
<1>1. TypeOK' BY TypesStay DEF LiveDocs
<1> SUFFICES ConnectedHaveDoc' /\ GetsTrail' /\ LiveDocIsActive' BY <1>1 DEF LiveDocs
<1>2. CASE UNCHANGED <<doc, active, calls, at>> BY <1>2, LiveSame
<1>3. ASSUME NEW e \in Editors,
             \/ OpenPage(e) \/ ClosePage(e) \/ LoseSocket(e)
             \/ ToServer(e) \/ FromServer(e)
             \/ \E i \in Instances : Connect(e, i)
             \/ \E u \in Edits : MakeEdit(e, u)
      PROVE  ConnectedHaveDoc' /\ GetsTrail' /\ LiveDocIsActive'
  <2>1. CASE Disconnect(e) BY <1>1, <2>1, LiveDisconnect
  <2>2. CASE \E i \in Instances : Connect(e, i) BY <2>2, LiveConnect
  <2>3. CASE ~Disconnect(e) /\ ~\E i \in Instances : Connect(e, i)
    BY <1>2, <1>3, <2>3 DEF OpenPage, ClosePage, LoseSocket, ToServer, FromServer, MakeEdit
  <2> QED BY <2>1, <2>2, <2>3
<1>4. ASSUME NEW i \in Instances,
             \/ BindState(i) \/ WriteState(i) \/ Saved(i)
             \/ PeriodicSave(i) \/ SubReply(i)
             \/ Shutdown(i) \/ Exit(i) \/ Crash(i) \/ Restart(i)
             \/ \E u \in Edits : Publish(i, u) \/ Receive(i, u)
      PROVE  ConnectedHaveDoc' /\ GetsTrail' /\ LiveDocIsActive'
  <2>1. CASE BindState(i) \/ WriteState(i) \/ Saved(i)
    <3>1. /\ \A j \in Instances \ {i} : active'[j] = active[j]
          /\ doc' = doc /\ at' = at
          /\ \/ Reply(i, "get") /\ active'[i] = Head(calls[i]).doc
             \/ Reply(i, "write")
             \/ Reply(i, "save") /\ active'[i] = active[i]
      BY <2>1 DEF BindState, WriteState, ForgetDoc, Saved, LiveDocs, TypeOK
    <3>2. ConnectedHaveDoc' BY <3>1 DEF LiveDocs, ConnectedHaveDoc
    <3> QED BY <3>1, <3>2, LiveReplied
  <2>2. CASE (PeriodicSave(i) \/ Shutdown(i)) /\ ~UNCHANGED calls
    <3>1. /\ active[i] \in Documents /\ Call(i, Encoded("save", active[i]))
          /\ doc' = doc /\ active' = active /\ at' = at
      BY <2>2 DEF PeriodicSave, Shutdown, LiveDocs, TypeOK
    <3>2. Encoded("save", active[i]) \in Commands /\ Encoded("save", active[i]).op = "save"
      BY <3>1, CommandsMade DEF LiveDocs, Encoded
    <3>3. ConnectedHaveDoc' BY <3>1 DEF LiveDocs, ConnectedHaveDoc
    <3> QED BY <1>1, <3>1, <3>2, <3>3, LiveCalled
  <2>3. CASE Exit(i) \/ Crash(i) BY <2>3, LiveDown DEF Exit, Crash
  <2>4. CASE (PeriodicSave(i) \/ Shutdown(i)) /\ UNCHANGED calls
    BY <1>2, <2>4 DEF PeriodicSave, Shutdown
  <2>5. CASE SubReply(i) \/ Restart(i) \/ \E u \in Edits : Publish(i, u) \/ Receive(i, u)
    BY <1>2, <2>5 DEF SubReply, Restart, Publish, Receive
  <2> QED BY <1>4, <2>1, <2>2, <2>3, <2>4, <2>5
<1> QED BY <1>2, <1>3, <1>4 DEF Next, vars

\* It holds initially.
LEMMA LiveStarts == Init => LiveDocs
<1> SUFFICES ASSUME Init PROVE LiveDocs OBVIOUS
<1>1. \A i \in Instances : calls[i] = <<>> /\ subCalls[i] = <<>> BY DEF Init
<1>2. TypeOK
  <2>1. calls \in [Instances -> Seq(Commands)] BY DEF Init
  <2>2. subCalls \in [Instances -> Seq({"subscribe", "unsubscribe"})] BY DEF Init
  <2> QED BY <2>1, <2>2 DEF Init, TypeOK
<1>3. ConnectedHaveDoc /\ GetsTrail /\ LiveDocIsActive
  BY DEF Init, ConnectedHaveDoc, GetsTrail, LiveDocIsActive
<1> QED BY <1>2, <1>3 DEF LiveDocs

\* Hence it always holds.
LEMMA LiveHolds == Spec => []LiveDocs
BY LiveStarts, LiveStays, PTL DEF Spec

\* TypeOK: every variable keeps its type, whatever faults happen.
THEOREM CollabTypesCorrect == Spec => []TypeOK
<1>1. LiveDocs => TypeOK BY DEF LiveDocs
<1> QED BY <1>1, LiveHolds, PTL

\* LiveDocIsActive: on every server a live document that has been restored is
\* the one the interval and the shutdown flush save; an older document's
\* writeState, a failed GET or SET and a page that leaves early do not change that.
THEOREM LiveDocStaysActive == Spec => []LiveDocIsActive
<1>1. LiveDocs => LiveDocIsActive BY DEF LiveDocs
<1> QED BY <1>1, LiveHolds, PTL

\* A call that failed once stays on record.
LEMMA FaultsAreKept == ASSUME [Next]_vars PROVE RedisAnswers' => RedisAnswers
BY DEF RedisAnswers, Next, vars, redisVars, trackVars, wireVars, objectVars, editorVars,
   OpenPage, ClosePage, LoseSocket, Disconnect, ToServer, FromServer, Connect, MakeEdit,
   BindState, WriteState, Saved, PeriodicSave, SubReply, Shutdown, Exit, Crash, Restart,
   Publish, Receive, Fault

---------------------------------------------------------------------------
(* Nothing leaks.                                                          *)

\* A command that is sent is pending behind the others.
LEMMA PendingCalled ==
  ASSUME TypeOK, NEW i \in Instances, NEW c \in Commands, Call(i, c)
  PROVE  /\ \A op : Pending(i, op)' =
              Pending(i, op) \cup (IF c.op = op THEN {Len(calls[i]) + 1} ELSE {})
         /\ \A op : Pending(i, op) \subseteq 1 .. Len(calls[i])
         /\ Len(calls[i]) \in Nat
<1>1. calls[i] \in Seq(Commands) BY DEF TypeOK
<1>2. calls'[i] = Append(calls[i], c) BY DEF Call, TypeOK
<1>3. /\ DOMAIN calls[i] = 1 .. Len(calls[i]) /\ Len(calls[i]) \in Nat
      /\ DOMAIN calls'[i] = 1 .. Len(calls[i]) + 1
      /\ \A k \in DOMAIN calls[i] : calls'[i][k] = calls[i][k]
      /\ calls'[i][Len(calls[i]) + 1] = c
  BY <1>1, <1>2, Appended
<1> QED BY <1>3 DEF Pending

\* A command that is answered was the first; the others move up.
LEMMA PendingReplied ==
  ASSUME TypeOK, NEW i \in Instances, NEW answered, Reply(i, answered)
  PROVE  /\ \A op : Pending(i, op)' = {k \in 1 .. Len(calls[i]) - 1 : k + 1 \in Pending(i, op)}
         /\ \A op : Pending(i, op) \subseteq 1 .. Len(calls[i])
         /\ \A op : 1 \in Pending(i, op) <=> op = answered
         /\ Len(calls[i]) \in Nat \ {0}
<1>1. calls[i] \in Seq(Commands) /\ calls[i] # <<>> /\ calls'[i] = Tail(calls[i])
  BY DEF TypeOK, Reply
<1>2. /\ DOMAIN calls[i] = 1 .. Len(calls[i]) /\ Len(calls[i]) \in Nat \ {0}
      /\ DOMAIN calls'[i] = 1 .. Len(calls[i]) - 1
      /\ \A k \in DOMAIN calls'[i] : calls'[i][k] = calls[i][k + 1]
      /\ Head(calls[i]) = calls[i][1]
  BY <1>1, Tailed
<1>3. \A op : Pending(i, op)' = {k \in 1 .. Len(calls[i]) - 1 : k + 1 \in Pending(i, op)}
  BY <1>2 DEF Pending
<1>4. \A op : 1 \in Pending(i, op) <=> op = answered
  BY <1>2 DEF Pending, Reply
<1> QED BY <1>2, <1>3, <1>4 DEF Pending

\* A write of the live document is behind its GET.
LEMMA WriteFollowsGet ==
  ASSUME LiveDocs, NEW i \in Instances, doc[i] # NoDoc
  PROVE  \A k \in Pending(i, "write") : \E l \in Pending(i, "get") : k < l
<1> SUFFICES ASSUME NEW k \in Pending(i, "write")
             PROVE  \E l \in Pending(i, "get") : k < l
  OBVIOUS
<1>1. k \in DOMAIN calls[i] /\ calls[i][k].op = "write" BY DEF Pending
<1>2. PICK l \in DOMAIN calls[i] : k <= l /\ calls[i][l] = Get(doc[i])
  BY <1>1 DEF LiveDocs, GetsTrail
<1>3. k # l /\ l \in Pending(i, "get") BY <1>1, <1>2 DEF Get, Pending
<1>4. k \in Nat /\ l \in Nat
  <2>1. DOMAIN calls[i] = 1 .. Len(calls[i]) BY DEF LiveDocs, TypeOK
  <2> QED BY <1>1, <1>2, <2>1
<1> QED BY <1>2, <1>3, <1>4

\* A command that is sent keeps the alternation and the count.
LEMMA AlternateCalled ==
  ASSUME LiveDocs, NEW i \in Instances, Alternate(i), CountInStep(i),
         NEW c \in Commands, Call(i, c), count'[i] = count[i],
         \/ /\ c.op = "save" /\ doc'[i] = doc[i]
            /\ active'[i] = active[i] /\ relayed'[i] = relayed[i]
         \/ c.op = "write" /\ doc[i] # NoDoc /\ doc'[i] = NoDoc
         \/ c.op = "get" /\ doc[i] = NoDoc /\ doc'[i] # NoDoc
  PROVE  Alternate(i)' /\ CountInStep(i)'
<1> DEFINE n == Len(calls[i]) + 1
           G == Pending(i, "get")
           W == Pending(i, "write")
<1>1. /\ Pending(i, "get")' = G \cup (IF c.op = "get" THEN {n} ELSE {})
      /\ Pending(i, "write")' = W \cup (IF c.op = "write" THEN {n} ELSE {})
      /\ G \subseteq 1 .. n - 1 /\ W \subseteq 1 .. n - 1 /\ n \in Nat
  BY PendingCalled DEF LiveDocs
<1>2. doc[i] # NoDoc => \A k \in W : \E l \in G : k < l BY WriteFollowsGet
<1>3. CASE c.op = "save" BY <1>1, <1>3 DEF Alternate, CountInStep
<1>4. CASE c.op = "write"
  <2>1. /\ Pending(i, "get")' = G /\ Pending(i, "write")' = W \cup {n}
        /\ \A k \in G \cup W : k \in Nat /\ k < n
    BY <1>1, <1>4
  <2>2. Alternate(i)' BY <1>2, <1>4, <2>1 DEF Alternate
  <2>3. ASSUME NEW k \in W \cup {n}, \A l \in G : k < l PROVE count'[i] = 1
    <3>1. CASE k \in W BY <2>3, <3>1 DEF CountInStep
    <3>2. CASE k = n
      <4>1. G = {} BY <2>1, <2>3, <3>2
      <4>2. W = {} BY <1>2, <1>4, <4>1
      <4> QED BY <1>4, <4>1, <4>2 DEF CountInStep
    <3> QED BY <3>1, <3>2
  <2> QED BY <1>4, <2>1, <2>2, <2>3 DEF CountInStep
<1>5. CASE c.op = "get"
  <2>1. /\ Pending(i, "get")' = G \cup {n} /\ Pending(i, "write")' = W
        /\ \A k \in G \cup W : k \in Nat /\ k < n
    BY <1>1, <1>5
  <2>2. doc[i] = NoDoc /\ \A k \in G : \E l \in W : k < l BY <1>5 DEF Alternate
  <2>3. Alternate(i)' BY <1>5, <2>1, <2>2 DEF Alternate
  <2>4. ASSUME NEW k \in G \cup {n}, \A l \in W : k < l PROVE count'[i] = 0
    <3>1. CASE k \in G BY <2>4, <3>1 DEF CountInStep
    <3>2. CASE k = n
      <4>1. W = {} BY <2>1, <2>4, <3>2
      <4>2. G = {} BY <2>2, <4>1
      <4> QED BY <2>2, <4>1, <4>2 DEF CountInStep
    <3> QED BY <3>1, <3>2
  <2> QED BY <1>5, <2>1, <2>3, <2>4 DEF CountInStep
<1> QED BY <1>3, <1>4, <1>5

\* So does one that is answered.
LEMMA AlternateReplied ==
  ASSUME LiveDocs, NEW i \in Instances, Alternate(i), CountInStep(i), doc'[i] = doc[i],
         \/ Reply(i, "get") /\ count'[i] = count[i] + 1
         \/ Reply(i, "write") /\ (count[i] <= 1 => ForgetDoc(i))
         \/ Reply(i, "save") /\ UNCHANGED <<active[i], count[i], relayed[i]>>
  PROVE  Alternate(i)' /\ CountInStep(i)'
<1> DEFINE G == Pending(i, "get")
           W == Pending(i, "write")
           n == Len(calls[i]) - 1
<1>1. /\ Pending(i, "get")' = {k \in 1 .. n : k + 1 \in G}
      /\ Pending(i, "write")' = {k \in 1 .. n : k + 1 \in W}
      /\ G \subseteq 1 .. n + 1 /\ W \subseteq 1 .. n + 1 /\ n \in Nat
  BY PendingReplied DEF LiveDocs
<1> DEFINE GG == Pending(i, "get")'
           WW == Pending(i, "write")'
<1>7. /\ \A k \in GG : k \in Nat /\ k + 1 \in G
      /\ \A k \in WW : k \in Nat /\ k + 1 \in W
  BY <1>1
<1>8. /\ \A k \in G : k \in Nat /\ (k # 1 => k > 1 /\ k - 1 \in GG)
      /\ \A k \in W : k \in Nat /\ (k # 1 => k > 1 /\ k - 1 \in WW)
  <2> HIDE DEF n
  <2>1. \A k \in 1 .. n + 1 : k \in Nat /\ (k # 1 => k > 1 /\ k - 1 \in 1 .. n /\ (k - 1) + 1 = k)
    BY <1>1
  <2>2. ASSUME NEW k \in G PROVE k \in Nat /\ (k # 1 => k > 1 /\ k - 1 \in GG)
    BY <1>1, <2>1, <2>2
  <2>3. ASSUME NEW k \in W PROVE k \in Nat /\ (k # 1 => k > 1 /\ k - 1 \in WW)
    BY <1>1, <2>1, <2>3
  <2> QED BY <2>2, <2>3
<1>2. /\ Reply(i, "get") => 1 \in G /\ 1 \notin W
      /\ Reply(i, "write") => 1 \notin G /\ 1 \in W
      /\ Reply(i, "save") => 1 \notin G /\ 1 \notin W
  BY PendingReplied DEF LiveDocs
<1>3. Alternate(i)'
  <2>1. ASSUME NEW k \in GG, NEW l \in GG, k < l
        PROVE  \E m \in WW : k < m /\ m < l
    <3>1. PICK m \in W : k + 1 < m /\ m < l + 1 BY <1>7, <2>1 DEF Alternate
    <3>2. m - 1 \in WW /\ k < m - 1 /\ m - 1 < l BY <1>7, <1>8, <3>1
    <3> QED BY <3>2
  <2>2. ASSUME NEW k \in WW, NEW l \in WW, k < l
        PROVE  \E m \in GG : k < m /\ m < l
    <3>1. PICK m \in G : k + 1 < m /\ m < l + 1 BY <1>7, <2>2 DEF Alternate
    <3>2. m - 1 \in GG /\ k < m - 1 /\ m - 1 < l BY <1>7, <1>8, <3>1
    <3> QED BY <3>2
  <2>3. ASSUME doc'[i] = NoDoc, NEW k \in GG PROVE \E l \in WW : k < l
    <3>1. PICK l \in W : k + 1 < l BY <1>7, <2>3 DEF Alternate
    <3>2. l - 1 \in WW /\ k < l - 1 BY <1>7, <1>8, <3>1
    <3> QED BY <3>2
  <2> QED BY <2>1, <2>2, <2>3 DEF Alternate
<1>4. CASE Reply(i, "get")
  <2>1. count[i] = 0 /\ count'[i] = 1 BY <1>1, <1>2, <1>4 DEF CountInStep
  <2>2. ASSUME NEW k \in GG PROVE \E l \in WW : l < k
    <3>1. 1 \in G /\ k + 1 \in G /\ 1 < k + 1
      <4>1. k # 0 BY <1>1, <2>2
      <4> QED BY <1>2, <1>4, <1>7, <2>2, <4>1
    <3>3. PICK m \in W : 1 < m /\ m < k + 1 BY <3>1 DEF Alternate
    <3>2. m - 1 \in WW /\ m - 1 < k BY <1>7, <1>8, <3>3
    <3> QED BY <3>2
  <2>3. \A k \in GG : ~\A l \in WW : k < l BY <1>7, <2>2
  <2>4. GG = {} /\ WW = {} => doc'[i] # NoDoc
    <3>1. doc[i] = NoDoc => \E l \in W : 1 < l BY <1>2, <1>4 DEF Alternate
    <3> QED BY <1>8, <3>1
  <2> QED BY <1>3, <2>1, <2>3, <2>4 DEF CountInStep
<1>5. CASE Reply(i, "write")
  <2>1. count[i] = 1 /\ ForgetDoc(i) BY <1>1, <1>2, <1>5 DEF CountInStep
  <2>2. count'[i] = 0 /\ active'[i] = NoDoc /\ ~relayed'[i]
    BY <2>1 DEF ForgetDoc, LiveDocs, TypeOK
  <2>3. doc[i] # NoDoc => \A k \in W : \E l \in G : k < l BY WriteFollowsGet
  <2>4. ASSUME NEW k \in WW PROVE \E l \in GG : l < k
    <3>1. 1 \in W /\ k + 1 \in W /\ 1 < k + 1
      <4>1. k # 0 BY <1>1, <2>4
      <4> QED BY <1>2, <1>5, <1>7, <2>4, <4>1
    <3>3. PICK m \in G : 1 < m /\ m < k + 1 BY <3>1 DEF Alternate
    <3>2. m - 1 \in GG /\ m - 1 < k BY <1>7, <1>8, <3>3
    <3> QED BY <3>2
  <2>5. \A k \in WW : ~\A l \in GG : k < l BY <1>7, <2>4
  <2>6. GG = {} /\ WW = {} => doc'[i] = NoDoc
    <3>1. doc[i] # NoDoc => \E l \in G : 1 < l BY <1>2, <1>5, <2>3
    <3> QED BY <1>8, <3>1
  <2> QED BY <1>3, <2>2, <2>5, <2>6 DEF CountInStep
<1>6. CASE Reply(i, "save") /\ UNCHANGED <<active[i], count[i], relayed[i]>>
  <2>1. ASSUME NEW k \in GG, \A l \in WW : k < l PROVE count'[i] = 0
    <3>1. \A l \in W : k + 1 < l BY <1>2, <1>6, <1>7, <1>8, <2>1
    <3> QED BY <1>6, <1>7, <3>1 DEF CountInStep
  <2>2. ASSUME NEW k \in WW, \A l \in GG : k < l PROVE count'[i] = 1
    <3>1. \A l \in G : k + 1 < l BY <1>2, <1>6, <1>7, <1>8, <2>2
    <3> QED BY <1>6, <1>7, <3>1 DEF CountInStep
  <2>3. GG = {} /\ WW = {} => G = {} /\ W = {} BY <1>2, <1>6, <1>8
  <2> QED BY <1>3, <1>6, <2>1, <2>2, <2>3 DEF CountInStep
<1> QED BY <1>3, <1>4, <1>5, <1>6

\* What is pending on subClient.
LEMMA RelayStays ==
  ASSUME LiveDocs, RelayInStep, [Next]_vars
  PROVE  RelayInStep'
<1> USE DEF redisVars, trackVars, wireVars, objectVars, editorVars
<1> DEFINE Goal(j) == IF subCalls'[j] = <<>> THEN j \in subs' <=> relayed'[j]
                      ELSE subCalls'[j][Len(subCalls'[j])] = "subscribe" <=> relayed'[j]
<1> SUFFICES ASSUME NEW j \in Instances PROVE Goal(j) BY DEF RelayInStep
<1>1. CASE UNCHANGED <<subs, subCalls, relayed>> BY <1>1 DEF RelayInStep
<1>2. ASSUME NEW e \in Editors, NEW i \in Instances, Connect(e, i) PROVE Goal(j)
  <2>1. CASE UNCHANGED <<subCalls, relayed>> BY <1>1, <1>2, <2>1 DEF Connect
  <2>2. CASE /\ relayed' = [relayed EXCEPT ![i] = TRUE] /\ UNCHANGED subs
             /\ subCalls' = [subCalls EXCEPT ![i] = Append(@, "subscribe")]
    <3>1. CASE j # i BY <2>2, <3>1 DEF RelayInStep, LiveDocs, TypeOK
    <3>2. CASE j = i
      <4>1. subCalls'[i] = Append(subCalls[i], "subscribe") /\ relayed'[i]
        BY <2>2 DEF LiveDocs, TypeOK
      <4>2. subCalls'[i][Len(subCalls'[i])] = "subscribe" /\ subCalls'[i] # <<>>
        <5>1. subCalls[i] \in Seq({"subscribe", "unsubscribe"}) BY DEF LiveDocs, TypeOK
        <5>2. /\ Len(subCalls'[i]) = Len(subCalls[i]) + 1 /\ Len(subCalls[i]) \in Nat
              /\ subCalls'[i][Len(subCalls[i]) + 1] = "subscribe"
          BY <4>1, <5>1, Appended
        <5> QED BY <5>2
      <4> QED BY <3>2, <4>1, <4>2
    <3> QED BY <3>1, <3>2
  <2> QED BY <1>2, <2>1, <2>2 DEF Connect, EnsureDocRelay
<1>3. ASSUME NEW i \in Instances, WriteState(i), ForgetDoc(i) PROVE Goal(j)
  <2>1. CASE j # i BY <1>3, <2>1 DEF RelayInStep, LiveDocs, TypeOK, WriteState, ForgetDoc
  <2>2. CASE j = i /\ ~relayed[i]
    <3>1. subCalls'[i] = subCalls[i] /\ ~relayed'[i] /\ subs' = subs
      BY <1>3, <2>2 DEF LiveDocs, TypeOK, WriteState, ForgetDoc
    <3> QED BY <2>2, <3>1 DEF RelayInStep
  <2>3. CASE j = i /\ relayed[i]
    <3>1. subCalls'[i] = Append(subCalls[i], "unsubscribe") /\ ~relayed'[i]
      BY <1>3, <2>3 DEF LiveDocs, TypeOK, ForgetDoc
    <3>2. subCalls'[i][Len(subCalls'[i])] = "unsubscribe" /\ subCalls'[i] # <<>>
      <4>1. subCalls[i] \in Seq({"subscribe", "unsubscribe"}) BY DEF LiveDocs, TypeOK
      <4>2. /\ Len(subCalls'[i]) = Len(subCalls[i]) + 1 /\ Len(subCalls[i]) \in Nat
            /\ subCalls'[i][Len(subCalls[i]) + 1] = "unsubscribe"
        BY <3>1, <4>1, Appended
      <4> QED BY <4>2
    <3> QED BY <2>3, <3>1, <3>2
  <2> QED BY <2>1, <2>2, <2>3
<1>4. ASSUME NEW i \in Instances, SubReply(i) PROVE Goal(j)
  <2>1. CASE j # i BY <1>4, <2>1 DEF RelayInStep, LiveDocs, TypeOK, SubReply
  <2>2. CASE j = i
    <3> DEFINE s == subCalls[i]
    <3>1. /\ s \in Seq({"subscribe", "unsubscribe"}) /\ s # <<>>
          /\ subCalls'[i] = Tail(s) /\ relayed'[i] = relayed[i]
          /\ subs' = IF Head(s) = "subscribe" THEN subs \cup {i} ELSE subs \ {i}
      BY <1>4 DEF LiveDocs, TypeOK, SubReply
    <3>2. s[Len(s)] = "subscribe" <=> relayed[i] BY <3>1 DEF RelayInStep
    <3>5. /\ Len(Tail(s)) = Len(s) - 1 /\ Len(s) \in Nat \ {0}
          /\ DOMAIN Tail(s) = 1 .. Len(s) - 1
          /\ \A k \in DOMAIN Tail(s) : Tail(s)[k] = s[k + 1]
          /\ Head(s) = s[1] /\ Tail(s) \in Seq({"subscribe", "unsubscribe"})
      BY <3>1, Tailed
    <3>3. CASE Len(s) = 1
      <4>1. Head(s) = s[Len(s)] /\ subCalls'[i] = <<>> BY <3>1, <3>3, <3>5
      <4> QED BY <2>2, <3>1, <3>2, <4>1
    <3>4. CASE Len(s) > 1
      <4>1. subCalls'[i] # <<>> /\ Len(s) - 1 \in DOMAIN Tail(s) /\ (Len(s) - 1) + 1 = Len(s)
        <5> DEFINE n == Len(s)
        <5>1. n \in Nat /\ n > 1 BY <3>4, <3>5
        <5>2. n - 1 \in 1 .. n - 1 /\ (n - 1) + 1 = n
          <6> HIDE DEF n
          <6> QED BY <5>1
        <5>3. Tail(s) # <<>>
          <6>1. Len(Tail(s)) = n - 1 BY <3>5
          <6>2. n - 1 # 0
            <7> HIDE DEF n
            <7> QED BY <5>1
          <6>3. Len(<<>>) = 0 OBVIOUS
          <6> QED BY <6>1, <6>2, <6>3
        <5> QED BY <3>1, <3>5, <5>2, <5>3
      <4>2. subCalls'[i][Len(subCalls'[i])] = s[Len(s)] BY <3>1, <3>5, <4>1
      <4> QED BY <2>2, <3>1, <3>2, <4>1, <4>2
    <3>6. Len(s) = 1 \/ Len(s) > 1
      <4> HIDE DEF s
      <4> QED BY <3>5
    <3> QED BY <3>3, <3>4, <3>6
  <2> QED BY <2>1, <2>2
<1>5. ASSUME NEW i \in Instances, Down(i) PROVE Goal(j)
  BY <1>5 DEF RelayInStep, LiveDocs, TypeOK, Down
<1>6. CASE \E e \in Editors :
             \/ OpenPage(e) \/ ClosePage(e) \/ LoseSocket(e)
             \/ ToServer(e) \/ FromServer(e)
             \/ \E u \in Edits : MakeEdit(e, u)
  BY <1>1, <1>6 DEF OpenPage, ClosePage, LoseSocket, Disconnect, ToServer, FromServer, MakeEdit
<1>7. ASSUME NEW i \in Instances,
             \/ BindState(i) \/ WriteState(i) \/ Saved(i) \/ PeriodicSave(i)
             \/ Shutdown(i) \/ Exit(i) \/ Crash(i) \/ Restart(i)
             \/ \E u \in Edits : Publish(i, u) \/ Receive(i, u)
      PROVE  Goal(j)
  <2>1. CASE WriteState(i) BY <1>1, <1>3, <2>1 DEF WriteState
  <2>2. CASE Exit(i) \/ Crash(i) BY <1>5, <2>2 DEF Exit, Crash
  <2>3. CASE BindState(i) \/ Saved(i) \/ PeriodicSave(i) \/ Shutdown(i) \/ Restart(i)
    BY <1>1, <2>3 DEF BindState, Saved, PeriodicSave, Shutdown, Restart
  <2>4. CASE \E u \in Edits : Publish(i, u) \/ Receive(i, u)
    BY <1>1, <2>4 DEF Publish, Receive
  <2> QED BY <1>7, <2>1, <2>2, <2>3, <2>4
<1> QED BY <1>1, <1>2, <1>4, <1>6, <1>7 DEF Next, vars

\* What is pending on persistence_redis, as long as Redis answers.
LEMMA AlternateStays ==
  ASSUME LiveDocs, NEW j \in Instances, Alternate(j), CountInStep(j),
         [Next]_vars, LiveDocs', RedisAnswers'
  PROVE  Alternate(j)' /\ CountInStep(j)'
<1> USE DEF redisVars, trackVars, wireVars, objectVars, editorVars
<1>1. ASSUME UNCHANGED <<calls[j], doc[j], active[j], count[j]>>,
             doc[j] = NoDoc => relayed'[j] = relayed[j]
      PROVE  Alternate(j)' /\ CountInStep(j)'
  <2>1. Pending(j, "get")' = Pending(j, "get") /\ Pending(j, "write")' = Pending(j, "write")
    BY <1>1 DEF Pending
  <2> QED BY <1>1, <2>1 DEF Alternate, CountInStep
<1>2. ~\E kind \in {"get", "set"} : Fault(kind) BY DEF Fault, RedisAnswers
<1>3. ASSUME NEW e \in Editors, NEW i \in Instances, Connect(e, i)
      PROVE  Alternate(j)' /\ CountInStep(j)'
  <2>1. i # j => relayed'[j] = relayed[j]
    BY <1>3 DEF Connect, EnsureDocRelay, LiveDocs, TypeOK
  <2>2. count' = count /\ active' = active BY <1>3 DEF Connect
  <2>3. CASE doc[i] # NoDoc /\ UNCHANGED <<doc, calls>>
    BY <1>1, <2>1, <2>2, <2>3
  <2>4. CASE /\ doc[i] = NoDoc
             /\ \E d \in Documents : doc' = [doc EXCEPT ![i] = d] /\ Call(i, Get(d))
    <3>1. PICK d \in Documents : doc' = [doc EXCEPT ![i] = d] /\ Call(i, Get(d))
      BY <2>4
    <3>2. CASE i # j
      <4>1. UNCHANGED <<calls[j], doc[j]>> BY <3>1, <3>2 DEF Call, LiveDocs, TypeOK
      <4> QED BY <1>1, <2>1, <2>2, <3>2, <4>1
    <3>3. CASE i = j
      <4>1. /\ Get(d) \in Commands /\ Get(d).op = "get"
            /\ doc[j] = NoDoc /\ doc'[j] # NoDoc
        BY <2>4, <3>1, <3>3, CommandsMade, NullsDiffer DEF Get, LiveDocs, TypeOK
      <4> QED BY <2>2, <3>1, <3>3, <4>1, AlternateCalled
    <3> QED BY <3>2, <3>3
  <2> QED BY <1>3, <2>3, <2>4, GotYDoc DEF Connect, Unused
<1>4. ASSUME NEW e \in Editors, Disconnect(e)
      PROVE  Alternate(j)' /\ CountInStep(j)'
  <2> DEFINE i == at[e]
  <2>1. i \in Instances /\ doc[i] \in Documents /\ doc[i] # NoDoc
    BY <1>4, NullsDiffer DEF LiveDocs, TypeOK, Disconnect, ConnectedHaveDoc
  <2>2. UNCHANGED <<active, count, relayed>> BY <1>4 DEF Disconnect
  <2>3. CASE UNCHANGED <<doc, calls>> BY <1>1, <2>2, <2>3
  <2>4. CASE /\ doc' = [doc EXCEPT ![i] = NoDoc] /\ Call(i, Encoded("write", doc[i]))
    <3>1. CASE i # j
      <4>1. UNCHANGED <<calls[j], doc[j]>> BY <2>1, <2>4, <3>1 DEF Call, LiveDocs, TypeOK
      <4> QED BY <1>1, <2>2, <4>1
    <3>2. CASE i = j
      <4>1. /\ Encoded("write", doc[i]) \in Commands /\ Encoded("write", doc[i]).op = "write"
            /\ doc'[i] = NoDoc
        BY <2>1, <2>4, CommandsMade DEF Encoded, LiveDocs, TypeOK
      <4> QED BY <2>1, <2>2, <2>4, <3>2, <4>1, AlternateCalled
    <3> QED BY <3>1, <3>2
  <2> QED BY <1>4, <2>3, <2>4 DEF Disconnect, CloseConn
<1>5. ASSUME NEW i \in Instances, BindState(i) \/ WriteState(i) \/ Saved(i)
      PROVE  Alternate(j)' /\ CountInStep(j)'
  <2>1. CASE i # j
    <3>1. UNCHANGED <<calls[j], doc[j], active[j], count[j], relayed[j]>>
      BY <1>5, <2>1 DEF BindState, WriteState, ForgetDoc, Saved, Reply, LiveDocs, TypeOK
    <3> QED BY <1>1, <3>1
  <2>2. CASE i = j
    <3>1. /\ doc'[j] = doc[j]
          /\ \/ Reply(j, "get") /\ count'[j] = count[j] + 1
             \/ Reply(j, "write") /\ (count[j] <= 1 => ForgetDoc(j))
             \/ Reply(j, "save") /\ UNCHANGED <<active[j], count[j], relayed[j]>>
      BY <1>2, <1>5, <2>2 DEF BindState, WriteState, Saved, LiveDocs, TypeOK
    <3> QED BY <3>1, AlternateReplied
  <2> QED BY <2>1, <2>2
<1>6. ASSUME NEW i \in Instances, PeriodicSave(i) \/ Shutdown(i)
      PROVE  Alternate(j)' /\ CountInStep(j)'
  <2>1. UNCHANGED <<doc, active, count, relayed>> BY <1>6 DEF PeriodicSave, Shutdown
  <2>2. CASE UNCHANGED calls BY <1>1, <2>1, <2>2
  <2>3. CASE active[i] \in Documents /\ Call(i, Encoded("save", active[i]))
    <3>1. CASE i # j
      <4>1. UNCHANGED calls[j] BY <2>3, <3>1 DEF Call, LiveDocs, TypeOK
      <4> QED BY <1>1, <2>1, <4>1
    <3>2. CASE i = j
      <4>1. Encoded("save", active[i]) \in Commands /\ Encoded("save", active[i]).op = "save"
        BY <2>3, CommandsMade DEF Encoded, LiveDocs
      <4> QED BY <2>1, <2>3, <3>2, <4>1, AlternateCalled
    <3> QED BY <3>1, <3>2
  <2> QED BY <1>6, <2>2, <2>3 DEF PeriodicSave, Shutdown, LiveDocs, TypeOK
<1>7. ASSUME NEW i \in Instances, Down(i) PROVE Alternate(j)' /\ CountInStep(j)'
  <2>1. CASE i # j
    <3>1. UNCHANGED <<calls[j], doc[j], active[j], count[j], relayed[j]>>
      BY <1>7, <2>1 DEF Down, LiveDocs, TypeOK
    <3> QED BY <1>1, <3>1
  <2>2. CASE i = j
    <3>1. /\ calls'[j] = <<>> /\ doc'[j] = NoDoc /\ active'[j] = NoDoc
          /\ count'[j] = 0 /\ ~relayed'[j]
      BY <1>7, <2>2 DEF Down, LiveDocs, TypeOK
    <3>2. Pending(j, "get")' = {} /\ Pending(j, "write")' = {} BY <3>1 DEF Pending
    <3> QED BY <3>1, <3>2 DEF Alternate, CountInStep
  <2> QED BY <2>1, <2>2
<1>8. CASE UNCHANGED <<calls, doc, active, count, relayed>> BY <1>1, <1>8
<1>9. CASE \E e \in Editors :
             \/ OpenPage(e) \/ ClosePage(e) \/ LoseSocket(e)
             \/ ToServer(e) \/ FromServer(e)
             \/ \E u \in Edits : MakeEdit(e, u)
  BY <1>4, <1>8, <1>9 DEF OpenPage, ClosePage, LoseSocket, ToServer, FromServer, MakeEdit
<1>10. CASE \E i \in Instances :
              \/ SubReply(i) \/ Restart(i) \/ \E u \in Edits : Publish(i, u) \/ Receive(i, u)
  BY <1>8, <1>10 DEF SubReply, Restart, Publish, Receive
<1>11. CASE \E i \in Instances : Exit(i) \/ Crash(i) BY <1>7, <1>11 DEF Exit, Crash
<1> QED BY <1>3, <1>5, <1>6, <1>8, <1>9, <1>10, <1>11 DEF Next, vars

\* Every step keeps what is needed for NothingLeaks.
LEMMA TidyStays ==
  ASSUME Tidy, [Next]_vars
  PROVE  Tidy'
<1>1. LiveDocs' /\ RelayInStep' BY LiveStays, RelayStays DEF Tidy
<1>2. RedisAnswers' => RedisAnswers BY FaultsAreKept
<1>3. RedisAnswers' => \A i \in Instances : Alternate(i)' /\ CountInStep(i)'
  BY <1>1, <1>2, AlternateStays DEF Tidy
<1> QED BY <1>1, <1>3 DEF Tidy

\* It holds initially.
LEMMA TidyStarts == Init => Tidy
<1> SUFFICES ASSUME Init PROVE Tidy OBVIOUS
<1>1. RelayInStep BY DEF Init, RelayInStep
<1>2. \A i \in Instances : Pending(i, "get") = {} /\ Pending(i, "write") = {}
  BY DEF Init, Pending
<1>3. \A i \in Instances : Alternate(i) /\ CountInStep(i)
  BY <1>2 DEF Init, Alternate, CountInStep
<1> QED BY <1>1, <1>3, LiveStarts DEF Tidy

\* NothingLeaks: while Redis answers, the last disconnect and its writeState
\* leave no entry, no count and no subscription of the document, however often
\* pages come and go before the replies arrive.
THEOREM DocumentsAreReleased == Spec => []NothingLeaks
<1>1. Tidy => NothingLeaks
  <2> SUFFICES ASSUME Tidy, NEW i \in Instances,
                      RedisAnswers, doc[i] = NoDoc, calls[i] = <<>>, subCalls[i] = <<>>
               PROVE  active[i] = NoDoc /\ count[i] = 0 /\ ~relayed[i] /\ i \notin subs
    BY DEF NothingLeaks
  <2>1. Pending(i, "get") = {} /\ Pending(i, "write") = {} BY DEF Pending
  <2>2. active[i] = NoDoc /\ count[i] = 0 /\ ~relayed[i] BY <2>1 DEF Tidy, CountInStep
  <2> QED BY <2>2 DEF Tidy, RelayInStep
<1>2. Spec => []Tidy BY TidyStarts, TidyStays, PTL DEF Spec
<1> QED BY <1>1, <1>2, PTL

---------------------------------------------------------------------------
(* With one server, what is accepted and what is stored is kept.           *)

\* The places of the pending commands when one is sent.
LEMMA CallsGrow ==
  ASSUME TypeOK, NEW i \in Instances, NEW c \in Commands, Call(i, c)
  PROVE  /\ Len(calls[i]) \in Nat /\ DOMAIN calls[i] = 1 .. Len(calls[i])
         /\ Len(calls'[i]) = Len(calls[i]) + 1
         /\ DOMAIN calls'[i] = DOMAIN calls[i] \cup {Len(calls[i]) + 1}
         /\ \A k \in DOMAIN calls[i] : k \in Nat /\ k < Len(calls[i]) + 1 /\ calls'[i][k] = calls[i][k]
         /\ calls'[i][Len(calls[i]) + 1] = c
<1>1. calls[i] \in Seq(Commands) /\ calls'[i] = Append(calls[i], c) BY DEF Call, TypeOK
<1>2. /\ DOMAIN calls[i] = 1 .. Len(calls[i]) /\ Len(calls[i]) \in Nat
      /\ DOMAIN calls'[i] = 1 .. Len(calls[i]) + 1 /\ Len(calls'[i]) = Len(calls[i]) + 1
      /\ \A k \in DOMAIN calls[i] : calls'[i][k] = calls[i][k]
      /\ calls'[i][Len(calls[i]) + 1] = c
  BY <1>1, Appended
<1> DEFINE n == Len(calls[i])
<1>3. 1 .. n + 1 = (1 .. n) \cup {n + 1} /\ \A k \in 1 .. n : k \in Nat /\ k < n + 1
  <2>1. n \in Nat BY <1>2
  <2> HIDE DEF n
  <2> QED BY <2>1
<1> QED BY <1>2, <1>3

\* The places of the pending commands when one is answered.
LEMMA CallsShift ==
  ASSUME TypeOK, NEW i \in Instances, NEW op, Reply(i, op)
  PROVE  /\ 1 \in DOMAIN calls[i] /\ Head(calls[i]) = calls[i][1] /\ calls[i][1].op = op
         /\ \A k \in DOMAIN calls'[i] : /\ k \in Nat /\ k > 0 /\ k + 1 \in DOMAIN calls[i]
                                        /\ calls'[i][k] = calls[i][k + 1]
         /\ \A k \in DOMAIN calls[i] : /\ k \in Nat /\ k > 0
                                       /\ k # 1 => /\ k - 1 \in DOMAIN calls'[i]
                                                   /\ calls'[i][k - 1] = calls[i][k]
         /\ Len(calls[i]) = Len(calls'[i]) + 1 /\ Len(calls'[i]) \in Nat
<1>1. calls[i] \in Seq(Commands) /\ calls[i] # <<>> /\ calls'[i] = Tail(calls[i])
  BY DEF TypeOK, Reply
<1>2. /\ DOMAIN calls[i] = 1 .. Len(calls[i]) /\ Len(calls[i]) \in Nat \ {0}
      /\ DOMAIN calls'[i] = 1 .. Len(calls[i]) - 1 /\ Len(calls'[i]) = Len(calls[i]) - 1
      /\ \A k \in DOMAIN calls'[i] : calls'[i][k] = calls[i][k + 1]
      /\ Head(calls[i]) = calls[i][1]
  BY <1>1, Tailed
<1> DEFINE n == Len(calls[i])
<1>3. /\ n \in Nat \ {0} /\ 1 \in 1 .. n /\ n - 1 \in Nat /\ n = (n - 1) + 1
      /\ \A k \in 1 .. n - 1 : k \in Nat /\ k > 0 /\ k + 1 \in 1 .. n
      /\ \A k \in 1 .. n : /\ k \in Nat /\ k > 0
                           /\ k # 1 => k - 1 \in 1 .. n - 1 /\ (k - 1) + 1 = k
  <2>1. n \in Nat \ {0} BY <1>2
  <2> HIDE DEF n
  <2> QED BY <2>1
<1>4. calls[i][1].op = op BY <1>2 DEF Reply
<1>5. \A k \in DOMAIN calls[i] : k # 1 => calls'[i][k - 1] = calls[i][k] BY <1>2, <1>3
<1> QED BY <1>2, <1>3, <1>4, <1>5

\* The server's own queue and tables stay; the live document may grow.
LEMMA KeptSame ==
  ASSUME LiveDocs, NEW i \in Instances, KeptAt(i),
         UNCHANGED <<stored, calls[i], doc[i], active[i]>>,
         state'[i] = state[i] \/ state[i] # "up",
         doc[i] # NoDoc => contents[doc[i]] \subseteq contents'[doc[i]],
         active[i] \notin {doc[i], NoDoc} => contents'[active[i]] = contents[active[i]],
         \A u \in accepted' \ accepted :
           state'[i] = "up" /\ doc[i] # NoDoc /\ ~Restoring(i) /\ u \in contents'[doc[i]]
  PROVE  KeptAt(i)'
<1>1. Restoring(i)' <=> Restoring(i) BY DEF Restoring
<1>2. Sets(i)' = Sets(i) /\ Pending(i, "get")' = Pending(i, "get") BY DEF Sets, Pending
<1>3. OneGet(i)' BY <1>1, <1>2 DEF KeptAt, OneGet, Get
<1>4. Growing(i)' BY <1>1, <1>2 DEF KeptAt, Growing
<1>5. \A s, n : Written(i, s, n)' <=> Written(i, s, n)
  BY <1>2 DEF Written
<1>6. \A g \in Pending(i, "get") : active[i] # doc[i]
  BY DEF KeptAt, OneGet, Pending, Restoring, Get
<1>7. PredecessorWritten(i)'
  BY <1>2, <1>5, <1>6 DEF KeptAt, PredecessorWritten
<1>8. AcceptedKept(i)'
  BY <1>1, <1>2 DEF KeptAt, AcceptedKept
<1> QED BY <1>3, <1>4, <1>7, <1>8 DEF KeptAt

\* A new document is made and its GET sent.
LEMMA KeptConnect ==
  ASSUME LiveDocs, NEW i \in Instances, KeptAt(i),
         NEW d \in Documents, d # active[i], doc[i] = NoDoc, Call(i, Get(d)),
         doc'[i] = d, contents' = [contents EXCEPT ![d] = {}],
         UNCHANGED <<stored, active, accepted>>
  PROVE  KeptAt(i)'
<1>0. PICK n \in Nat : n = Len(calls[i]) + 1 BY DEF LiveDocs, TypeOK
<1>1. /\ DOMAIN calls'[i] = DOMAIN calls[i] \cup {n} /\ calls'[i][n] = Get(d)
      /\ \A k \in DOMAIN calls[i] : k \in Nat /\ k < n /\ calls'[i][k] = calls[i][k]
      /\ n \in Nat
  BY <1>0, CommandsMade, CallsGrow DEF LiveDocs
<1>2. \A k \in DOMAIN calls[i] : calls[i][k].op # "get" BY DEF KeptAt, OneGet, Pending
<1>3. Sets(i)' = Sets(i) /\ Pending(i, "get")' = {n}
  BY <1>1, <1>2 DEF Sets, Pending, Get
<1>4. doc'[i] # NoDoc /\ Restoring(i)' BY <1>1, NullsDiffer DEF Restoring, Get
<1>5. OneGet(i)' BY <1>1, <1>3, <1>4 DEF OneGet
<1>6. \A k \in Sets(i) : k \in DOMAIN calls[i] BY DEF Sets
<1>7. active[i] # NoDoc => contents'[active[i]] = contents[active[i]]
  BY DEF LiveDocs, TypeOK
<1>8. Growing(i)'
  <2>1. ~Restoring(i) BY <1>2 DEF Restoring
  <2>2. \A k \in Sets(i) : calls'[i][k] = calls[i][k] BY <1>1, <1>6
  <2>3. active[i] # NoDoc => /\ stored \subseteq contents[active[i]]
                             /\ \A k \in Sets(i) : calls[i][k].state \subseteq contents[active[i]]
    BY <2>1 DEF KeptAt, Growing
  <2>4. /\ \A k \in Sets(i)' : stored' \subseteq calls'[i][k].state
        /\ \A k, l \in Sets(i)' : k < l => calls'[i][k].state \subseteq calls'[i][l].state
    BY <1>3, <2>2 DEF KeptAt, Growing
  <2> QED BY <1>3, <1>4, <1>7, <2>2, <2>3, <2>4 DEF Growing
<1>9. PredecessorWritten(i)'
  <2>1. active[i] # NoDoc => Written(i, contents[active[i]], n)
    BY <1>0 DEF KeptAt, PredecessorWritten
  <2>3. \A s : Written(i, s, n) => Written(i, s, n)' BY <1>1, <1>3, <1>6 DEF Written
  <2>4. active'[i] # NoDoc => Written(i, contents[active[i]], n)' BY <1>7, <2>1, <2>3
  <2>2. \A k \in Sets(i) : ~(n < k) BY <1>1, <1>6
  <2> QED BY <1>3, <1>4, <2>2, <2>4 DEF PredecessorWritten
<1>10. AcceptedKept(i)' BY <1>1, <1>3, <1>6 DEF KeptAt, AcceptedKept
<1> QED BY <1>5, <1>8, <1>9, <1>10 DEF KeptAt

\* The active document is written: by the last disconnect, by the interval or
\* by the flush.
LEMMA KeptSent ==
  ASSUME LiveDocs, NEW i \in Instances, KeptAt(i), active[i] # NoDoc,
         NEW op \in {"write", "save"}, Call(i, Encoded(op, active[i])),
         doc'[i] = doc[i] \/ (doc'[i] = NoDoc /\ ~Restoring(i)),
         UNCHANGED <<stored, active, contents, accepted>>
  PROVE  KeptAt(i)'
<1>0. PICK n \in Nat : n = Len(calls[i]) + 1 BY DEF LiveDocs, TypeOK
<1> DEFINE c == Encoded(op, active[i])
<1>1. c \in Commands /\ c.op = op /\ c.state = contents[active[i]] /\ \A d : c # Get(d)
  <2>1. active[i] \in Documents BY DEF LiveDocs, TypeOK
  <2> QED BY <2>1, CommandsMade DEF LiveDocs, Encoded, Get
<1>2. /\ DOMAIN calls'[i] = DOMAIN calls[i] \cup {n} /\ calls'[i][n] = c
      /\ \A k \in DOMAIN calls[i] : k \in Nat /\ k < n /\ calls'[i][k] = calls[i][k]
      /\ n \in Nat /\ Len(calls'[i]) = n
  BY <1>0, <1>1, CallsGrow DEF LiveDocs
<1>3. /\ Sets(i)' = Sets(i) \cup {n} /\ Pending(i, "get")' = Pending(i, "get")
      /\ \A k \in Sets(i) \cup Pending(i, "get") : k \in Nat /\ k < n /\ calls'[i][k] = calls[i][k]
  BY <1>1, <1>2 DEF Sets, Pending
<1>4. doc'[i] = doc[i] => (Restoring(i)' <=> Restoring(i))
  BY <1>1, <1>2 DEF Restoring, Get
<1>5. Pending(i, "get") # {} => Restoring(i) /\ doc[i] # NoDoc
  BY DEF KeptAt, OneGet, Pending, Restoring, Get
<1>6. OneGet(i)'
  <2>1. doc'[i] # NoDoc => doc'[i] = doc[i] OBVIOUS
  <2>2. doc'[i] = NoDoc /\ doc[i] # NoDoc => Pending(i, "get") = {} BY <1>5
  <2>3. \A k \in Pending(i, "get") : doc'[i] = doc[i] BY <2>1, <2>2, <1>5
  <2>4. \A k \in Pending(i, "get")' : doc'[i] # NoDoc /\ calls'[i][k] = Get(doc'[i])
    BY <1>3, <2>3 DEF KeptAt, OneGet
  <2>5. Restoring(i)' => Restoring(i) /\ doc'[i] = doc[i]
    <3> SUFFICES ASSUME Restoring(i)' PROVE doc'[i] = doc[i] BY <1>4
    <3>1. PICK k \in DOMAIN calls'[i] : calls'[i][k] = Get(doc'[i])
      BY DEF Restoring, Get
    <3>2. k \in Pending(i, "get")' BY <3>1 DEF Pending, Get
    <3> QED BY <1>3, <2>3, <3>2
  <2> QED BY <1>3, <2>4, <2>5 DEF KeptAt, OneGet
<1>7. /\ stored \subseteq contents[active[i]]
      /\ \A k \in Sets(i) : calls[i][k].state \subseteq contents[active[i]]
  BY DEF KeptAt, Growing, OneGet
<1>8. doc[i] # NoDoc /\ doc[i] # active[i] => Restoring(i)
  BY DEF LiveDocs, LiveDocIsActive
<1>9. Growing(i)'
  <2>1. /\ \A k \in Sets(i)' : stored' \subseteq calls'[i][k].state
        /\ \A k, l \in Sets(i)' : k < l => calls'[i][k].state \subseteq calls'[i][l].state
    BY <1>1, <1>2, <1>3, <1>7 DEF KeptAt, Growing
  <2>2. \A k \in Sets(i)' : calls'[i][k].state \subseteq contents'[active'[i]]
    BY <1>1, <1>2, <1>3, <1>7
  <2>3. doc'[i] # NoDoc /\ doc'[i] # active'[i] => Restoring(i)'
    BY <1>4, <1>8
  <2> QED BY <1>7, <2>1, <2>2, <2>3 DEF Growing
<1>10. \A s : \A m : Written(i, s, m) => Written(i, s, m)'
  BY <1>3 DEF Written
<1>11. PredecessorWritten(i)'
  <2>1. Written(i, contents[active[i]], n + 1)'
    BY <1>1, <1>2, <1>3 DEF Written
  <2>2. ASSUME NEW g \in Pending(i, "get")
        PROVE  /\ Written(i, contents[active[i]], g)'
               /\ \A k \in Sets(i)' : g < k => Written(i, calls[i][k].state, g)'
    <3>1. Written(i, contents[active[i]], g)' BY <1>10 DEF KeptAt, PredecessorWritten
    <3>2. ASSUME NEW k \in Sets(i), g < k PROVE Written(i, calls[i][k].state, g)'
      BY <1>3, <1>10, <3>2 DEF KeptAt, PredecessorWritten
    <3>3. calls'[i][n].state = contents[active[i]] BY <1>1, <1>2
    <3> QED BY <1>3, <3>1, <3>2, <3>3
  <2> QED BY <1>2, <1>3, <2>1, <2>2 DEF PredecessorWritten
<1>12. AcceptedKept(i)'
  <2>1. ASSUME NEW u \in accepted
        PROVE  u \in stored \/ \E k \in Sets(i)' : u \in calls'[i][k].state
    <3>1. CASE u \in contents[active[i]] BY <1>1, <1>2, <1>3, <3>1
    <3>2. CASE u \in stored \/ \E k \in Sets(i) : u \in calls[i][k].state BY <1>3, <3>2
    <3> QED BY <1>8, <3>1, <3>2 DEF KeptAt, AcceptedKept
  <2> QED BY <2>1 DEF AcceptedKept
<1> QED BY <1>6, <1>9, <1>11, <1>12 DEF KeptAt

\* The GET of the live document is answered: it reads all that was written.
LEMMA KeptBound ==
  ASSUME LiveDocs, NEW i \in Instances, KeptAt(i), BindState(i), ~Fault("get")
  PROVE  KeptAt(i)'
<1> DEFINE d == Head(calls[i]).doc
<1>1. Reply(i, "get") BY DEF BindState
<1>2. /\ 1 \in DOMAIN calls[i] /\ d = calls[i][1].doc /\ calls[i][1].op = "get"
      /\ \A k \in DOMAIN calls'[i] : /\ k \in Nat /\ k > 0 /\ k + 1 \in DOMAIN calls[i]
                                     /\ calls'[i][k] = calls[i][k + 1]
      /\ \A k \in DOMAIN calls[i] : k \in Nat /\ k > 0
  BY <1>1, CallsShift DEF LiveDocs
<1>3. 1 \in Pending(i, "get") BY <1>2 DEF Pending
<1>4. /\ doc[i] # NoDoc /\ d = doc[i] /\ Restoring(i) /\ d \in Documents
      /\ \A k \in Pending(i, "get") : k = 1
  BY <1>2, <1>3 DEF KeptAt, OneGet, Restoring, Get, LiveDocs, TypeOK
<1>5. /\ doc' = doc /\ active'[i] = d /\ stored' = stored /\ state' = state
      /\ contents'[d] = contents[d] \cup stored
      /\ accepted' = accepted \cup (IF state[i] = "up" THEN contents'[d] ELSE {})
  BY <1>4 DEF BindState, Integrate, LiveDocs, TypeOK, redisVars
<1>6. /\ Pending(i, "get")' = {}
      /\ \A k \in Sets(i)' : k + 1 \in Sets(i) /\ calls'[i][k] = calls[i][k + 1] /\ k \in Nat
      /\ \A k \in DOMAIN calls'[i] : calls'[i][k].op # "get"
  <2>1. \A k \in DOMAIN calls'[i] : calls'[i][k].op # "get"
    <3> SUFFICES ASSUME NEW k \in DOMAIN calls'[i], calls'[i][k].op = "get" PROVE FALSE
      OBVIOUS
    <3>1. k + 1 \in Pending(i, "get") /\ k \in Nat /\ k > 0 BY <1>2 DEF Pending
    <3> QED BY <1>4, <3>1
  <2> QED BY <1>2, <2>1 DEF Pending, Sets
<1>7. ~Restoring(i)' BY <1>6 DEF Restoring, Get
<1>8. \A k \in Sets(i) : 1 < k
  <2> SUFFICES ASSUME NEW k \in Sets(i) PROVE 1 < k OBVIOUS
  <2>1. k \in Nat /\ k > 0 /\ k # 1 BY <1>2 DEF Sets
  <2> QED BY <2>1
<1>9. \A s : Written(i, s, 1) => s \subseteq stored
  <2>1. \A k \in Sets(i) : ~(k < 1) BY <1>2 DEF Sets
  <2> QED BY <2>1 DEF Written
<1>10. \A k \in Sets(i) : calls[i][k].state = stored
  <2> SUFFICES ASSUME NEW k \in Sets(i) PROVE calls[i][k].state = stored OBVIOUS
  <2>1. calls[i][k].state \subseteq stored
    BY <1>3, <1>8, <1>9 DEF KeptAt, PredecessorWritten
  <2> QED BY <2>1 DEF KeptAt, Growing
<1>11. \A k \in Sets(i)' : calls'[i][k].state = stored BY <1>6, <1>10
<1>12. OneGet(i)' BY <1>6, <1>7 DEF OneGet
<1>13. Growing(i)' BY <1>4, <1>5, <1>11 DEF Growing
<1>14. PredecessorWritten(i)' BY <1>4, <1>5, <1>6 DEF PredecessorWritten
<1>15. AcceptedKept(i)'
  <2>1. \A u \in accepted : u \in stored
    BY <1>4, <1>10 DEF KeptAt, AcceptedKept
  <2>2. \A u \in accepted' : u \in stored \/ (state[i] = "up" /\ u \in contents'[d])
    BY <1>5, <2>1
  <2> QED BY <1>4, <1>5, <1>7, <2>2 DEF AcceptedKept
<1> QED BY <1>12, <1>13, <1>14, <1>15 DEF KeptAt

\* A SET is executed.
LEMMA KeptStored ==
  ASSUME LiveDocs, NEW i \in Instances, KeptAt(i),
         NEW op \in {"write", "save"}, Reply(i, op), stored' = Head(calls[i]).state,
         active'[i] \in {NoDoc, active[i]},
         UNCHANGED <<doc, contents, accepted, state>>
  PROVE  KeptAt(i)' /\ stored \subseteq stored'
<1>1. /\ 1 \in DOMAIN calls[i] /\ stored' = calls[i][1].state /\ calls[i][1].op = op
      /\ \A k \in DOMAIN calls'[i] : /\ k \in Nat /\ k > 0 /\ k + 1 \in DOMAIN calls[i]
                                     /\ calls'[i][k] = calls[i][k + 1]
      /\ \A k \in DOMAIN calls[i] : /\ k \in Nat /\ k > 0
                                    /\ k # 1 => /\ k - 1 \in DOMAIN calls'[i]
                                                /\ calls'[i][k - 1] = calls[i][k]
      /\ Len(calls[i]) = Len(calls'[i]) + 1 /\ Len(calls'[i]) \in Nat
  BY CallsShift DEF LiveDocs
<1>2. 1 \in Sets(i) BY <1>1 DEF Sets
<1>3. /\ \A k \in Sets(i)' : k \in Nat /\ k > 0 /\ k + 1 \in Sets(i)
                             /\ calls'[i][k] = calls[i][k + 1]
      /\ \A k \in Sets(i) : k \in Nat /\ k > 0
                            /\ (k # 1 => k - 1 \in Sets(i)' /\ calls'[i][k - 1] = calls[i][k])
      /\ \A k \in Pending(i, "get")' : k \in Nat /\ k + 1 \in Pending(i, "get")
                                       /\ calls'[i][k] = calls[i][k + 1]
  BY <1>1 DEF Sets, Pending
<1>4. Restoring(i)' <=> Restoring(i)
  <2>1. ASSUME Restoring(i) PROVE Restoring(i)'
    <3>1. PICK k \in DOMAIN calls[i] : calls[i][k] = Get(doc[i]) BY <2>1 DEF Restoring, Get
    <3>2. k # 1 BY <1>1, <3>1 DEF Get
    <3> QED BY <1>1, <3>1, <3>2 DEF Restoring, Get
  <2>2. ASSUME Restoring(i)' PROVE Restoring(i)
    BY <1>1, <2>2 DEF Restoring, Get
  <2> QED BY <2>1, <2>2
<1>5. stored \subseteq stored' BY <1>1, <1>2 DEF KeptAt, Growing
<1>6. OneGet(i)'
  <2>1. \A k \in Pending(i, "get")' : doc'[i] # NoDoc /\ calls'[i][k] = Get(doc'[i])
    BY <1>3 DEF KeptAt, OneGet
  <2>2. \A k, l \in Pending(i, "get")' : k = l
    <3> SUFFICES ASSUME NEW k \in Pending(i, "get")', NEW l \in Pending(i, "get")'
                 PROVE  k = l
      OBVIOUS
    <3>1. k + 1 = l + 1 /\ k \in Nat /\ l \in Nat BY <1>3 DEF KeptAt, OneGet
    <3> QED BY <3>1
  <2>3. Restoring(i) => doc[i] # NoDoc
    <3> SUFFICES ASSUME Restoring(i) PROVE doc[i] # NoDoc OBVIOUS
    <3>1. PICK k \in DOMAIN calls[i] : calls[i][k] = Get(doc[i]) BY DEF Restoring, Get
    <3> QED BY <3>1 DEF KeptAt, OneGet, Pending, Get
  <2> QED BY <1>4, <2>1, <2>2, <2>3 DEF KeptAt, OneGet
<1>7. Growing(i)'
  <2>1. \A k \in Sets(i)' : stored' \subseteq calls'[i][k].state
    <3> SUFFICES ASSUME NEW k \in Sets(i)' PROVE stored' \subseteq calls'[i][k].state
      OBVIOUS
    <3>1. k + 1 \in Sets(i) /\ 1 < k + 1 BY <1>3
    <3> QED BY <1>1, <1>2, <1>3, <3>1 DEF KeptAt, Growing
  <2>2. \A k, l \in Sets(i)' : k < l => calls'[i][k].state \subseteq calls'[i][l].state
    <3> SUFFICES ASSUME NEW k \in Sets(i)', NEW l \in Sets(i)', k < l
                 PROVE  calls'[i][k].state \subseteq calls'[i][l].state
      OBVIOUS
    <3>1. k + 1 \in Sets(i) /\ l + 1 \in Sets(i) /\ k + 1 < l + 1 BY <1>3
    <3> QED BY <1>3, <3>1 DEF KeptAt, Growing
  <2>3. \A d \in {doc[i], active[i]} \ {NoDoc} : (d = doc[i] /\ Restoring(i)) \/
          (stored' \subseteq contents[d] /\ \A k \in Sets(i) : calls[i][k].state \subseteq contents[d])
    BY <1>1, <1>2 DEF KeptAt, Growing
  <2>4. \A d \in {doc'[i], active'[i]} \ {NoDoc} : (d = doc'[i] /\ Restoring(i)') \/
          (stored' \subseteq contents'[d] /\ \A k \in Sets(i)' : calls'[i][k].state \subseteq contents'[d])
    BY <1>3, <1>4, <2>3
  <2> QED BY <2>1, <2>2, <2>4 DEF Growing
<1>8. ASSUME NEW s, NEW n \in Nat, Written(i, s, n + 1) PROVE Written(i, s, n)'
  <2>1. CASE s \subseteq stored BY <1>5, <2>1 DEF Written
  <2>2. CASE \E k \in Sets(i) : k < n + 1 /\ s \subseteq calls[i][k].state
    <3>1. PICK k \in Sets(i) : k < n + 1 /\ s \subseteq calls[i][k].state BY <2>2
    <3>2. CASE k = 1 BY <1>1, <3>1, <3>2 DEF Written
    <3>3. CASE k # 1
      <4>1. k - 1 \in Sets(i)' /\ calls'[i][k - 1] = calls[i][k] /\ k - 1 < n
        BY <1>3, <3>1, <3>3
      <4> QED BY <3>1, <4>1 DEF Written
    <3> QED BY <3>2, <3>3
  <2> QED BY <1>8, <2>1, <2>2 DEF Written
<1>9. PredecessorWritten(i)'
  <2>0. PICK n \in Nat : n = Len(calls'[i]) + 1 /\ n = Len(calls[i]) BY <1>1
  <2>1. doc'[i] = NoDoc /\ active'[i] # NoDoc => Written(i, contents[active[i]], n)'
    BY <1>8, <2>0 DEF KeptAt, PredecessorWritten
  <2>2. ASSUME NEW g \in Pending(i, "get")'
        PROVE  /\ active'[i] # NoDoc => Written(i, contents[active[i]], g)'
               /\ \A k \in Sets(i)' : g < k => Written(i, calls[i][k].state, g)'
    <3>1. g \in Nat /\ g + 1 \in Pending(i, "get") BY <1>3
    <3>2. active'[i] # NoDoc => Written(i, contents[active[i]], g)'
      BY <1>8, <3>1 DEF KeptAt, PredecessorWritten
    <3>3. ASSUME NEW k \in Sets(i)', g < k PROVE Written(i, calls[i][k].state, g)'
      <4>1. k + 1 \in Sets(i) /\ g + 1 < k + 1 /\ calls'[i][k] = calls[i][k + 1]
        BY <1>3, <3>1, <3>3
      <4>2. Written(i, calls[i][k + 1].state, g + 1)
        BY <3>1, <4>1 DEF KeptAt, PredecessorWritten
      <4> QED BY <1>8, <3>1, <4>1, <4>2
    <3> QED BY <3>2, <3>3
  <2> QED BY <2>0, <2>1, <2>2 DEF PredecessorWritten
<1>10. AcceptedKept(i)'
  <2> SUFFICES ASSUME NEW u \in accepted
               PROVE  \/ u \in stored' \/ \E k \in Sets(i)' : u \in calls'[i][k].state
                      \/ /\ state[i] = "up" /\ doc[i] # NoDoc /\ ~Restoring(i)
                         /\ u \in contents[doc[i]]
    BY <1>4 DEF AcceptedKept
  <2>1. CASE \E k \in Sets(i) : u \in calls[i][k].state
    <3>1. PICK k \in Sets(i) : u \in calls[i][k].state BY <2>1
    <3> QED BY <1>1, <1>3, <3>1
  <2> QED BY <1>5, <2>1 DEF KeptAt, AcceptedKept
<1> QED BY <1>5, <1>6, <1>7, <1>9, <1>10 DEF KeptAt

\* The process is gone: what counts is in Redis.
LEMMA KeptDown ==
  ASSUME LiveDocs, NEW i \in Instances, Down(i), accepted' \subseteq stored
  PROVE  KeptAt(i)'
<1>1. /\ calls'[i] = <<>> /\ doc'[i] = NoDoc /\ active'[i] = NoDoc /\ stored' = stored
  BY DEF Down, LiveDocs, TypeOK
<1>2. Sets(i)' = {} /\ Pending(i, "get")' = {} /\ ~Restoring(i)'
  BY <1>1 DEF Sets, Pending, Restoring
<1> QED BY <1>1, <1>2 DEF KeptAt, OneGet, Growing, PredecessorWritten, AcceptedKept

\* Every step keeps what was accepted, and Redis loses nothing.
LEMMA KeptStays ==
  ASSUME OneServer, LiveDocs, NEW i \in Instances, KeptAt(i), [Next]_vars, RedisAnswers'
  PROVE  KeptAt(i)' /\ stored \subseteq stored'
<1> USE DEF redisVars, trackVars, wireVars, objectVars, editorVars
<1>1. Instances = {i} /\ ~HastyLeave BY DEF OneServer
<1>2. ~\E kind \in {"get", "set"} : Fault(kind) BY DEF Fault, RedisAnswers
<1>3. Restoring(i) => active[i] # doc[i] /\ doc[i] # NoDoc
  <2> SUFFICES ASSUME Restoring(i) PROVE active[i] # doc[i] /\ doc[i] # NoDoc OBVIOUS
  <2>1. PICK k \in DOMAIN calls[i] : calls[i][k] = Get(doc[i]) BY DEF Restoring, Get
  <2> QED BY <2>1 DEF KeptAt, OneGet, Pending, Get
<1>4. doc[i] # NoDoc /\ ~Restoring(i) => active[i] = doc[i] BY DEF LiveDocs, LiveDocIsActive
<1>5. CASE UNCHANGED <<stored, calls, doc, active, contents, accepted, state>>
  BY <1>5, KeptSame
<1>6. ASSUME NEW e \in Editors, Connect(e, i) PROVE KeptAt(i)' /\ stored \subseteq stored'
  <2>1. UNCHANGED <<stored, active, accepted, state>> BY <1>6 DEF Connect
  <2>2. CASE UNCHANGED <<doc, calls, contents>> BY <1>5, <2>1, <2>2
  <2>3. CASE doc[i] = NoDoc /\ \E d \in Unused : /\ doc' = [doc EXCEPT ![i] = d]
                                                 /\ contents' = [contents EXCEPT ![d] = {}]
                                                 /\ Call(i, Get(d))
    <3>1. PICK d \in Unused : /\ doc' = [doc EXCEPT ![i] = d]
                              /\ contents' = [contents EXCEPT ![d] = {}]
                              /\ Call(i, Get(d))
      BY <2>3
    <3>2. d \in Documents /\ d # active[i] /\ doc'[i] = d
      BY <3>1 DEF Unused, LiveDocs, TypeOK
    <3> QED BY <2>1, <2>3, <3>1, <3>2, KeptConnect
  <2> QED BY <1>6, <2>2, <2>3, GotYDoc DEF Connect
<1>7. ASSUME NEW e \in Editors, Disconnect(e) PROVE KeptAt(i)' /\ stored \subseteq stored'
  <2>1. at[e] = i /\ doc[i] # NoDoc
    BY <1>1, <1>7 DEF Disconnect, LiveDocs, TypeOK, ConnectedHaveDoc
  <2>2. UNCHANGED <<stored, active, contents, accepted, state>> BY <1>7 DEF Disconnect
  <2>3. CASE UNCHANGED <<doc, calls>> BY <1>5, <2>2, <2>3
  <2>4. CASE /\ ~Restoring(i) /\ doc' = [doc EXCEPT ![i] = NoDoc]
             /\ Call(i, Encoded("write", doc[i]))
    <3>1. active[i] = doc[i] /\ doc'[i] = NoDoc BY <1>4, <2>1, <2>4 DEF LiveDocs, TypeOK
    <3> QED BY <2>1, <2>2, <2>4, <3>1, KeptSent
  <2> QED BY <1>1, <1>7, <2>1, <2>3, <2>4 DEF Disconnect, CloseConn
<1>8. ASSUME NEW e \in Editors, ToServer(e) PROVE KeptAt(i)' /\ stored \subseteq stored'
  <2>1. at[e] = i /\ doc[i] \in Documents /\ doc[i] # NoDoc
    BY <1>1, <1>8, NullsDiffer DEF ToServer, LiveDocs, TypeOK, ConnectedHaveDoc
  <2>2. UNCHANGED <<stored, calls, doc, active, state>> BY <1>8 DEF ToServer
  <2>3. /\ contents'[doc[i]] = contents[doc[i]] \cup text[e]
        /\ \A d \in Documents \ {doc[i]} : contents'[d] = contents[d]
        /\ accepted' = accepted \cup
             (IF state[i] = "up" /\ ~Restoring(i) THEN text[e] ELSE {})
    BY <1>8, <2>1 DEF ToServer, Integrate, LiveDocs, TypeOK
  <2>4. active[i] \notin {doc[i], NoDoc} => contents'[active[i]] = contents[active[i]]
    BY <2>3 DEF LiveDocs, TypeOK
  <2>5. \A u \in accepted' \ accepted :
           state'[i] = "up" /\ doc[i] # NoDoc /\ ~Restoring(i) /\ u \in contents'[doc[i]]
    BY <2>1, <2>2, <2>3
  <2> QED BY <2>2, <2>3, <2>4, <2>5, KeptSame
<1>9. ASSUME NEW u \in Edits, Receive(i, u) PROVE KeptAt(i)' /\ stored \subseteq stored'
  <2>1. UNCHANGED <<stored, calls, doc, active, state, accepted>> BY <1>9 DEF Receive
  <2>2. CASE UNCHANGED contents BY <1>5, <2>1, <2>2
  <2>3. CASE doc[i] # NoDoc /\ contents' = [contents EXCEPT ![doc[i]] = @ \cup {u}]
    <3>1. /\ contents[doc[i]] \subseteq contents'[doc[i]]
          /\ active[i] \notin {doc[i], NoDoc} => contents'[active[i]] = contents[active[i]]
      BY <2>3 DEF LiveDocs, TypeOK
    <3>2. accepted' \ accepted = {} BY <2>1
    <3> QED BY <2>1, <3>1, <3>2, KeptSame
  <2> QED BY <1>9, <2>2, <2>3 DEF Receive
<1>10. CASE BindState(i) BY <1>2, <1>10, KeptBound DEF BindState
<1>11. CASE WriteState(i) \/ Saved(i)
  <2>1. /\ \E op \in {"write", "save"} : Reply(i, op)
        /\ stored' = Head(calls[i]).state /\ active'[i] \in {NoDoc, active[i]}
        /\ UNCHANGED <<doc, contents, accepted, state>>
    BY <1>2, <1>11 DEF WriteState, ForgetDoc, Saved, LiveDocs, TypeOK
  <2> QED BY <2>1, KeptStored
<1>12. CASE PeriodicSave(i)
  BY <1>12, KeptSent DEF PeriodicSave
<1>13. CASE Shutdown(i)
  <2>1. UNCHANGED <<stored, doc, active, contents, accepted>> BY <1>13 DEF Shutdown
  <2>2. CASE active[i] = NoDoc /\ UNCHANGED calls
    <3>1. state[i] = "up" /\ state'[i] # "up" BY <1>13 DEF Shutdown, LiveDocs, TypeOK
    <3>2. doc[i] = NoDoc \/ Restoring(i) BY <1>4, <2>2
    <3>3. AcceptedKept(i)' /\ OneGet(i)' /\ Growing(i)' /\ PredecessorWritten(i)'
      BY <2>1, <2>2, <3>2
      DEF KeptAt, AcceptedKept, OneGet, Growing, PredecessorWritten, Written, Sets, Pending,
          Restoring, Get
    <3> QED BY <2>1, <3>3 DEF KeptAt
  <2>3. CASE active[i] # NoDoc /\ Call(i, Encoded("save", active[i]))
    BY <2>1, <2>3, KeptSent
  <2> QED BY <1>13, <2>2, <2>3 DEF Shutdown
<1>14. CASE Exit(i) \/ Crash(i)
  <2>1. Down(i) /\ stored' = stored BY <1>14 DEF Exit, Crash, Down
  <2>2. accepted' \subseteq stored
    <3>1. CASE Exit(i)
      <4>1. /\ state[i] # "up" /\ Sets(i) = {} /\ accepted' = accepted
        BY <3>1 DEF Exit, Sets
      <4> QED BY <4>1 DEF KeptAt, AcceptedKept
    <3>2. CASE Crash(i) BY <3>2 DEF Crash
    <3> QED BY <1>14, <3>1, <3>2
  <2> QED BY <2>1, <2>2, KeptDown
<1>15. CASE Restart(i)
  <2>1. /\ UNCHANGED <<stored, calls, doc, active, contents, accepted>> /\ state[i] # "up"
    BY <1>15 DEF Restart
  <2>2. accepted' \ accepted = {} BY <2>1
  <2> QED BY <2>1, <2>2, KeptSame
<1>16. CASE SubReply(i) \/ \E u \in Edits : Publish(i, u)
  BY <1>5, <1>16 DEF SubReply, Publish
<1>17. CASE \E e \in Editors :
              \/ OpenPage(e) \/ FromServer(e) \/ \E u \in Edits : MakeEdit(e, u)
              \/ (ClosePage(e) /\ ~Disconnect(e))
  BY <1>5, <1>17 DEF OpenPage, FromServer, MakeEdit, ClosePage
<1>18. CASE \E e \in Editors :
              \/ OpenPage(e) \/ ClosePage(e) \/ LoseSocket(e)
              \/ ToServer(e) \/ FromServer(e)
              \/ \E j \in Instances : Connect(e, j)
              \/ \E u \in Edits : MakeEdit(e, u)
  BY <1>1, <1>6, <1>7, <1>8, <1>17, <1>18 DEF LoseSocket
<1>19. CASE \/ BindState(i) \/ WriteState(i) \/ Saved(i)
            \/ PeriodicSave(i) \/ SubReply(i)
            \/ Shutdown(i) \/ Exit(i) \/ Crash(i) \/ Restart(i)
            \/ \E u \in Edits : Publish(i, u) \/ Receive(i, u)
  BY <1>9, <1>10, <1>11, <1>12, <1>13, <1>14, <1>15, <1>16, <1>19
<1>20. CASE UNCHANGED vars BY <1>5, <1>20 DEF vars
<1> QED BY <1>1, <1>18, <1>19, <1>20 DEF Next

\* With one server, as long as Redis answers, this always holds.
LEMMA KeptsHolds == ASSUME OneServer PROVE Spec => []Kepts
<1>1. Init => Kepts
  <2> SUFFICES ASSUME Init PROVE Kepts OBVIOUS
  <2>1. ASSUME NEW i \in Instances PROVE KeptAt(i)
    <3>1. calls[i] = <<>> /\ doc[i] = NoDoc /\ active[i] = NoDoc /\ accepted = {}
      BY DEF Init
    <3>2. Sets(i) = {} /\ Pending(i, "get") = {} /\ ~Restoring(i)
      BY <3>1 DEF Sets, Pending, Restoring
    <3> QED BY <3>1, <3>2 DEF KeptAt, OneGet, Growing, PredecessorWritten, AcceptedKept
  <2> QED BY <2>1, LiveStarts DEF Kepts
<1>2. Kepts /\ [Next]_vars => Kepts'
  BY LiveStays, KeptStays, FaultsAreKept DEF Kepts
<1> QED BY <1>1, <1>2, PTL DEF Spec

\* EditsKept: with one server whose pages wait for the GET before they leave,
\* an accepted edit is in the live document, in a SET under way or in Redis.
THEOREM AcceptedEditsAreKept == ASSUME OneServer PROVE Spec => []EditsKept
<1>1. Kepts => EditsKept
  <2> SUFFICES ASSUME Kepts, RedisAnswers, NEW u \in accepted
               PROVE  u \in stored \cup UNION {Kept(i) : i \in Instances}
    BY DEF EditsKept
  <2>1. PICK i \in Instances : KeptAt(i) BY DEF OneServer, Kepts
  <2>2. u \in stored \/ u \in Kept(i)
    BY <2>1 DEF KeptAt, AcceptedKept, Kept, Sets
  <2> QED BY <2>2
<1> QED BY <1>1, KeptsHolds, PTL

\* StoredOnlyGrows: no write of a connection, an interval or a flush takes out
\* of Redis what an earlier one put there.
THEOREM SnapshotOnlyGrows == ASSUME OneServer PROVE Spec => StoredOnlyGrows
<1>1. Kepts /\ [Next]_vars => [RedisAnswers' => stored \subseteq stored']_vars
  BY KeptStays, FaultsAreKept DEF OneServer, Kepts
<1> QED BY <1>1, KeptsHolds, PTL DEF Spec, StoredOnlyGrows

=============================================================================
