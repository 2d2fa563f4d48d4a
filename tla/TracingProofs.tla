---------------------------- MODULE TracingProofs ----------------------------
(***************************************************************************)
(* What the agent keeps of the work of the application, for any number of  *)
(* transactions, messages and services and any depth of calls.             *)
(*                                                                         *)
(*   - Messages: no transaction is left open, a handle is respected, and   *)
(*     links go back to an earlier transaction that was collected.  The    *)
(*     invariant says that one frame at most owns a transaction, that      *)
(*     whatever runs under a transaction runs above that frame, and that   *)
(*     an automatic end is only set up when the frame is left.             *)
(*   - Distributed tracing: a transaction agrees with its parent's on the  *)
(*     trace and the decision to sample it, which do not change once they  *)
(*     are taken, and others' entries are handed on.  The invariant says   *)
(*     that what a message tells of a service that service keeps to.       *)
(*   - The lives of transactions: who ends them, and that the recorders    *)
(*     and the agent give them one name.  The invariant says what a record *)
(*     of an ended transaction holds, and who still minds an active one.   *)
(*   - Cross application tracing: callers answer for the paths they have   *)
(*     sent.  The invariant says that a called transaction keeps what it   *)
(*     took and that its caller remembers the hash, unless its list is     *)
(*     full.                                                               *)
(*   - The context that code runs in: code runs in its own transaction and *)
(*     leaves nothing behind.  The invariant says that what is current     *)
(*     fits what runs, what a frame restores the frame below it, and what  *)
(*     waits what it has been given.                                       *)
(*   - Recorded calls: the application's code is seen in its own           *)
(*     transaction, a driver's work is not.  The invariant says under      *)
(*     which segment each frame runs, and each that waits will run.        *)
(*   - Web requests: the name is that of the route that answered, segments *)
(*     nest as middlewares do.  The invariant says that the path follows   *)
(*     the middlewares until the answer, and is frozen from then on.       *)
(***************************************************************************)
EXTENDS Messages, DistributedTrace, TransactionLife, CrossApplication, AsyncContext, RecordedCalls, WebRequest,
        Induction, SequenceTheorems, FiniteSetTheorems, TLAPS

\* Messages.
EndedBy == {"immediate", "promise", "handle"}
TxRecord == [type : {"web", "message"}, state : {"active", "ended", "ignored"}, parent : SUBSET Nat,
             external : BOOLEAN, ended : EndedBy \cup {"no"}, left : BOOLEAN]
MsgFrame == [tx : Nat, own : BOOLEAN]

Shape ==
    /\ mode \in [tracing : BOOLEAN, cat : BOOLEAN, key : BOOLEAN, collect : BOOLEAN]
    /\ msgTxs \in Seq(TxRecord)
    /\ msgFrames \in Seq(MsgFrame)
    /\ ending \in SUBSET [tx : 1 .. Len(msgTxs), by : EndedBy]
    /\ \A i \in 1 .. Len(msgFrames) :
          msgFrames[i].tx <= Len(msgTxs) /\ (msgFrames[i].own => msgFrames[i].tx # NoMsgTx)
    /\ \A m \in broker : /\ m.from \in 0 .. Len(msgTxs)
                         /\ m.from # OtherService => msgTxs[m.from].state # "ignored"

Owned == {msgFrames[i].tx : i \in {j \in 1 .. Len(msgFrames) : msgFrames[j].own}}

\* A frame owns its transaction alone, and those that run under it come later.
Owners ==
    /\ \A i, j \in 1 .. Len(msgFrames) :
          msgFrames[i].own /\ msgFrames[j].own /\ msgFrames[i].tx = msgFrames[j].tx => i = j
    /\ \A i \in 1 .. Len(msgFrames) :
          msgFrames[i].tx # NoMsgTx =>
             \/ msgTxs[msgFrames[i].tx].state = "ignored"
             \/ \E j \in 1 .. i : msgFrames[j].own /\ msgFrames[j].tx = msgFrames[i].tx

\* What ends a transaction, or has ended it, was set up when its frame was left; a handle's
\* end waits as long as the handle is held.
Ends ==
    /\ \A t \in 1 .. Len(msgTxs) : msgTxs[t].state = "active" =>
          t \in Owned \/ \E e \in ending : e.tx = t
    /\ \A t \in 1 .. Len(msgTxs) : msgTxs[t].state = "active" /\ msgTxs[t].external => [tx |-> t, by |-> "handle"] \in ending
    /\ \A e \in ending : e.by # "handle" =>
          /\ e.tx \notin Owned
          /\ e.by = "immediate" => ~msgTxs[e.tx].external
          /\ e.by = "promise" => msgTxs[e.tx].left
    /\ \A t \in 1 .. Len(msgTxs) : msgTxs[t].state = "ended" =>
          /\ msgTxs[t].ended \in EndedBy
          /\ msgTxs[t].ended # "handle" => t \notin Owned
          /\ msgTxs[t].ended = "immediate" => ~msgTxs[t].external
          /\ msgTxs[t].ended = "promise" => msgTxs[t].left

Links ==
    \A t \in 1 .. Len(msgTxs) : \A p \in msgTxs[t].parent :
        /\ mode.cat
        /\ p # OtherService => p \in 1 .. t - 1 /\ msgTxs[p].state # "ignored"
        /\ msgTxs[t].type = "message"

MessagesInv == Shape /\ Owners /\ Ends /\ Links
-----------------------------------------------------------------------------
\* What the sequence of frames and that of transactions are made of.
LEMMA Elements ==
    ASSUME Shape
    PROVE  /\ Len(msgTxs) \in Nat /\ DOMAIN msgTxs = 1 .. Len(msgTxs)
           /\ Len(msgFrames) \in Nat /\ DOMAIN msgFrames = 1 .. Len(msgFrames)
           /\ \A t \in 1 .. Len(msgTxs) : msgTxs[t] \in TxRecord
           /\ \A i \in 1 .. Len(msgFrames) : msgFrames[i] \in MsgFrame
           /\ msgFrames # <<>> => Len(msgFrames) \in 1 .. Len(msgFrames)
<1>1. msgTxs \in Seq(TxRecord) /\ msgFrames \in Seq(MsgFrame)
  BY DEF Shape
<1> QED  BY <1>1, LenProperties, ElementOfSeq, EmptySeq

\* The transaction that runs, if it is active, is owned by a frame.
LEMMA TheTxIsOwned ==
    ASSUME Shape, Owners
    PROVE  /\ TheTx \in 0 .. Len(msgTxs) /\ CurrentTx \in 0 .. Len(msgTxs)
           /\ TheTx # NoMsgTx => msgTxs[TheTx].state = "active" /\ TheTx \in Owned
           /\ CurrentTx # NoMsgTx => msgTxs[CurrentTx].state = "ignored" \/ CurrentTx \in Owned
<1>1. CASE msgFrames = <<>>
  BY <1>1, Elements DEF TheTx, CurrentTx, NoMsgTx
<1>2. CASE msgFrames # <<>>
  <2>1. /\ Len(msgFrames) \in 1 .. Len(msgFrames) /\ Len(msgTxs) \in Nat
        /\ msgFrames[Len(msgFrames)].tx \in Nat
    BY <1>2, Elements DEF MsgFrame
  <2>2. CurrentTx = msgFrames[Len(msgFrames)].tx
    BY <1>2 DEF CurrentTx, Frame
  <2>3. CurrentTx \in 0 .. Len(msgTxs)
    BY <2>1, <2>2 DEF Shape
  <2>4. CurrentTx # NoMsgTx => msgTxs[CurrentTx].state = "ignored" \/ CurrentTx \in Owned
    <3>1. \A j \in 1 .. Len(msgFrames) : j \in 1 .. Len(msgFrames)
      OBVIOUS
    <3> QED  BY <2>1, <2>2, <3>1 DEF Owners, Owned
  <2> QED  BY <2>1, <2>3, <2>4 DEF TheTx, NoMsgTx
<1> QED  BY <1>1, <1>2

\* A call that owns nothing: it runs under what ran before it or under no transaction.
LEMMA PlainCall ==
    ASSUME MessagesInv, NEW made \in {NoMsgTx, CurrentTx}, EnterFrame(made, FALSE),
           UNCHANGED <<mode, msgTxs, ending>>, \A m \in broker' : m \in broker
    PROVE  MessagesInv'
<1> DEFINE f == [tx |-> made, own |-> FALSE]
           n == Len(msgFrames)
<1>1. made \in 0 .. Len(msgTxs) /\ (made # NoMsgTx => msgTxs[made].state = "ignored" \/ made \in Owned)
  BY TheTxIsOwned, Elements DEF MessagesInv, NoMsgTx
<1>2. f \in MsgFrame /\ n \in Nat /\ msgFrames \in Seq(MsgFrame) /\ Len(msgTxs) \in Nat
  BY <1>1, Elements DEF MessagesInv, MsgFrame, Shape
<1>3. /\ msgFrames' \in Seq(MsgFrame) /\ Len(msgFrames') = n + 1
      /\ \A i \in 1 .. n : msgFrames'[i] = msgFrames[i]
      /\ msgFrames'[n + 1] = f
  <2>1. msgFrames' = Append(msgFrames, f)
    BY DEF EnterFrame
  <2> HIDE DEF f
  <2> QED  BY <1>2, <2>1, AppendProperties
<1>4. \A i \in 1 .. n + 1 : i \in 1 .. n \/ i = n + 1
  BY <1>2
<1>5. \A t : t \in Owned' <=> t \in Owned
  BY <1>2, <1>3, <1>4 DEF Owned
<1>6. Shape'
  <2>1. f.tx <= Len(msgTxs) /\ ~f.own
    BY <1>1, <1>2
  <2> HIDE DEF f
  <2>2. \A i \in 1 .. n + 1 :
           msgFrames'[i].tx <= Len(msgTxs) /\ (msgFrames'[i].own => msgFrames'[i].tx # NoMsgTx)
    BY <1>3, <1>4, <2>1 DEF MessagesInv, Shape
  <2> QED  BY <1>3, <2>2 DEF MessagesInv, Shape
<1>7. Owners'
  <2>1. \A i, j \in 1 .. n + 1 :
           msgFrames'[i].own /\ msgFrames'[j].own /\ msgFrames'[i].tx = msgFrames'[j].tx => i = j
    BY <1>3, <1>4 DEF MessagesInv, Owners
  <2>2. ASSUME NEW i \in 1 .. n + 1, msgFrames'[i].tx # NoMsgTx
        PROVE  \/ msgTxs[msgFrames'[i].tx].state = "ignored"
               \/ \E j \in 1 .. i : msgFrames'[j].own /\ msgFrames'[j].tx = msgFrames'[i].tx
    <3>1. CASE i \in 1 .. n
      <4>1. \A j \in 1 .. i : j \in 1 .. n
        BY <1>2, <3>1
      <4> QED  BY <1>3, <2>2, <3>1, <4>1 DEF MessagesInv, Owners
    <3>2. CASE i = n + 1
      <4>1. \A j \in 1 .. n : j \in 1 .. i
        BY <1>2, <3>2
      <4> QED  BY <1>1, <1>3, <2>2, <3>2, <4>1 DEF Owned
    <3> QED  BY <1>4, <3>1, <3>2
  <2> QED  BY <1>3, <2>1, <2>2 DEF Owners
<1>8. Ends'
  BY <1>5 DEF MessagesInv, Ends
<1>9. Links'
  BY DEF MessagesInv, Links
<1> QED  BY <1>6, <1>7, <1>8, <1>9 DEF MessagesInv

\* A call with a transaction of its own, owned by it unless it is ignored.
LEMMA OwnCall ==
    ASSUME MessagesInv, NEW made \in TxRecord, NEW own \in BOOLEAN, EnterFrame(Len(msgTxs) + 1, own),
           made.state = IF own THEN "active" ELSE "ignored", ~made.external,
           \A p \in made.parent : /\ mode.cat /\ made.type = "message"
                                  /\ p # OtherService => p \in 1 .. Len(msgTxs) /\ msgTxs[p].state # "ignored",
           msgTxs' = Append(msgTxs, made), UNCHANGED <<mode, ending>>, \A m \in broker' : m \in broker
    PROVE  MessagesInv'
<1> DEFINE n == Len(msgFrames)
           k == Len(msgTxs)
           f == [tx |-> k + 1, own |-> own]
<1>1. /\ n \in Nat /\ k \in Nat /\ f \in MsgFrame
      /\ msgFrames \in Seq(MsgFrame) /\ msgTxs \in Seq(TxRecord)
  BY Elements DEF MessagesInv, MsgFrame, Shape
<1>2. /\ msgFrames' \in Seq(MsgFrame) /\ Len(msgFrames') = n + 1
      /\ \A i \in 1 .. n : msgFrames'[i] = msgFrames[i]
      /\ msgFrames'[n + 1] = f
  <2>1. msgFrames' = Append(msgFrames, f)
    BY DEF EnterFrame
  <2> HIDE DEF f
  <2> QED  BY <1>1, <2>1, AppendProperties
<1>3. /\ msgTxs' \in Seq(TxRecord) /\ Len(msgTxs') = k + 1
      /\ \A t \in 1 .. k : msgTxs'[t] = msgTxs[t]
      /\ msgTxs'[k + 1] = made
  BY <1>1, AppendProperties
<1>4. \A m \in Nat : \A i \in 1 .. m + 1 : i \in 1 .. m \/ i = m + 1
  OBVIOUS
<1>5. \A m \in Nat : \A i \in 1 .. m : i \in 1 .. m + 1 /\ i # m + 1
  OBVIOUS
<1>6. \A i \in 1 .. n : msgFrames[i].tx \in 0 .. k
  <2>1. \A i \in 1 .. n : msgFrames[i].tx \in Nat
    BY Elements DEF MessagesInv, MsgFrame
  <2>2. \A i \in 1 .. n : msgFrames[i].tx <= k
    BY DEF MessagesInv, Shape
  <2> QED  BY <1>1, <2>1, <2>2
<1>13. f.tx = k + 1 /\ f.own = own /\ (own <=> own = TRUE)
  OBVIOUS
<1> HIDE DEF f
<1>7. \A t \in 1 .. k : t \in Owned' <=> t \in Owned
  <2> SUFFICES ASSUME NEW t \in 1 .. k
               PROVE  t \in Owned' <=> t \in Owned
    OBVIOUS
  <2>1. ASSUME NEW i \in 1 .. n + 1, msgFrames'[i].own, msgFrames'[i].tx = t
        PROVE  t \in Owned
    <3>1. i # n + 1
      BY <1>1, <1>2, <1>13, <2>1
    <3> QED  BY <1>1, <1>2, <1>4, <2>1, <3>1 DEF Owned
  <2>2. ASSUME NEW i \in 1 .. n, msgFrames[i].own, msgFrames[i].tx = t
        PROVE  t \in Owned'
    <3>1. i \in 1 .. n + 1
      BY <1>1
    <3> QED  BY <1>2, <2>2, <3>1 DEF Owned
  <2> QED  BY <1>2, <2>1, <2>2 DEF Owned
<1>8. own = TRUE => k + 1 \in Owned'
  <2> SUFFICES ASSUME own = TRUE
               PROVE  \E i \in 1 .. n + 1 : msgFrames'[i].own /\ msgFrames'[i].tx = k + 1
    BY <1>2 DEF Owned
  <2>1. n + 1 \in 1 .. n + 1
    BY <1>1
  <2>2. msgFrames'[n + 1].own /\ msgFrames'[n + 1].tx = k + 1
    BY <1>2, <1>13
  <2> QED  BY <2>1, <2>2
<1>9. Shape'
  <2>1. ending \subseteq [tx : 1 .. k + 1, by : EndedBy]
    BY <1>1, <1>5 DEF MessagesInv, Shape
  <2>2. \A i \in 1 .. n + 1 : msgFrames'[i].tx <= k + 1 /\ (msgFrames'[i].own => msgFrames'[i].tx # NoMsgTx)
    <3>1. k + 1 # NoMsgTx /\ k + 1 <= k + 1
      BY <1>1 DEF NoMsgTx
    <3>2. \A i \in 1 .. n : msgFrames[i].tx <= k + 1 /\ (msgFrames[i].own => msgFrames[i].tx # NoMsgTx)
      BY <1>1, <1>6 DEF MessagesInv, Shape
    <3> QED  BY <1>1, <1>2, <1>4, <1>13, <3>1, <3>2
  <2>3. \A m \in broker : m.from \in 0 .. k + 1 /\ (m.from # OtherService => msgTxs'[m.from].state # "ignored")
    BY <1>1, <1>3 DEF MessagesInv, Shape, OtherService
  <2> QED  BY <1>2, <1>3, <2>1, <2>2, <2>3 DEF MessagesInv, Shape
<1>10. Owners'
  <2>1. \A i, j \in 1 .. n + 1 :
           msgFrames'[i].own /\ msgFrames'[j].own /\ msgFrames'[i].tx = msgFrames'[j].tx => i = j
    <3>1. \A i, j \in 1 .. n :
             msgFrames[i].own /\ msgFrames[j].own /\ msgFrames[i].tx = msgFrames[j].tx => i = j
      BY DEF MessagesInv, Owners
    <3>2. \A i \in 1 .. n : msgFrames[i].tx # f.tx
      BY <1>1, <1>6, <1>13
    <3>3. \A i \in 1 .. n + 1 : i \in 1 .. n \/ i = n + 1
      BY <1>1
    <3> HIDE DEF n
    <3> QED  BY <1>2, <3>1, <3>2, <3>3
  <2>2. ASSUME NEW i \in 1 .. n + 1, msgFrames'[i].tx # NoMsgTx
        PROVE  \/ msgTxs'[msgFrames'[i].tx].state = "ignored"
               \/ \E j \in 1 .. i : msgFrames'[j].own /\ msgFrames'[j].tx = msgFrames'[i].tx
    <3>1. CASE i \in 1 .. n
      <4>1. \A j \in 1 .. i : j \in 1 .. n
        BY <1>1, <3>1
      <4>2. msgTxs'[msgFrames[i].tx] = msgTxs[msgFrames[i].tx]
        BY <1>1, <1>2, <1>3, <1>6, <2>2, <3>1 DEF NoMsgTx
      <4>3. \/ msgTxs[msgFrames[i].tx].state = "ignored"
            \/ \E j \in 1 .. i : msgFrames[j].own /\ msgFrames[j].tx = msgFrames[i].tx
        BY <1>2, <2>2, <3>1 DEF MessagesInv, Owners
      <4> QED  BY <1>2, <3>1, <4>1, <4>2, <4>3
    <3>2. CASE i = n + 1
      <4>1. i \in 1 .. i
        BY <1>1, <3>2
      <4> QED  BY <1>2, <1>3, <1>13, <3>2, <4>1
    <3> QED  BY <1>1, <1>4, <3>1, <3>2
  <2> QED  BY <1>2, <2>1, <2>2 DEF Owners
<1>11. Ends'
  <2>1. \A e \in ending : e.tx \in 1 .. k
    BY DEF MessagesInv, Shape
  <2>2. \A t \in 1 .. k + 1 : msgTxs'[t].state = "active" => t \in Owned' \/ \E e \in ending : e.tx = t
    <3>1. ASSUME NEW t \in 1 .. k, msgTxs[t].state = "active"
          PROVE  t \in Owned' \/ \E e \in ending : e.tx = t
      BY <1>7, <3>1 DEF MessagesInv, Ends
    <3>2. ASSUME NEW t \in 1 .. k + 1, msgTxs'[t].state = "active"
          PROVE  t \in Owned' \/ \E e \in ending : e.tx = t
      <4>1. CASE t \in 1 .. k
        BY <1>3, <3>1, <3>2, <4>1
      <4>2. CASE t = k + 1
        <5>1. made.state = "active"
          BY <1>3, <3>2, <4>2
        <5>2. own = TRUE
          BY <5>1
        <5> QED  BY <1>8, <4>2, <5>2
      <4> QED  BY <1>1, <1>4, <4>1, <4>2
    <3> QED  BY <3>2
  <2>3. \A t \in 1 .. k + 1 :
           msgTxs'[t].state = "active" /\ msgTxs'[t].external => [tx |-> t, by |-> "handle"] \in ending
    BY <1>1, <1>3, <1>4 DEF MessagesInv, Ends
  <2>4. \A e \in ending : e.by # "handle" =>
           /\ e.tx \notin Owned'
           /\ e.by = "immediate" => ~msgTxs'[e.tx].external
           /\ e.by = "promise" => msgTxs'[e.tx].left
    BY <1>3, <1>7, <2>1 DEF MessagesInv, Ends
  <2>5. \A t \in 1 .. k + 1 : msgTxs'[t].state = "ended" =>
           /\ msgTxs'[t].ended \in EndedBy
           /\ msgTxs'[t].ended # "handle" => t \notin Owned'
           /\ msgTxs'[t].ended = "immediate" => ~msgTxs'[t].external
           /\ msgTxs'[t].ended = "promise" => msgTxs'[t].left
    BY <1>1, <1>3, <1>4, <1>7 DEF MessagesInv, Ends
  <2> QED  BY <1>3, <2>2, <2>3, <2>4, <2>5 DEF Ends
<1>12. Links'
  <2> SUFFICES ASSUME NEW t \in 1 .. k + 1, NEW p \in msgTxs'[t].parent
               PROVE  /\ mode.cat
                      /\ p # OtherService => p \in 1 .. t - 1 /\ msgTxs'[p].state # "ignored"
                      /\ msgTxs'[t].type = "message"
    BY <1>3 DEF Links
  <2>1. CASE t \in 1 .. k
    BY <1>1, <1>3, <2>1 DEF MessagesInv, Links
  <2>2. CASE t = k + 1
    BY <1>1, <1>3, <2>2
  <2> QED  BY <1>1, <1>4, <2>1, <2>2
<1> QED  BY <1>9, <1>10, <1>11, <1>12 DEF MessagesInv
-----------------------------------------------------------------------------
LEMMA Quiet ==
    ASSUME MessagesInv, Connected1 \/ (\E w \in BOOLEAN : Produce(w)) \/ UNCHANGED msgVars
    PROVE  MessagesInv'
<1>1. /\ msgTxs' = msgTxs /\ msgFrames' = msgFrames /\ ending' = ending
      /\ mode' \in [tracing : BOOLEAN, cat : BOOLEAN, key : BOOLEAN, collect : BOOLEAN]
      /\ mode'.cat = mode.cat
  BY DEF Connected1, Produce, msgVars, MessagesInv, Shape
<1>2. \A m \in broker' : m \in broker \/ m.from = TheTx
  BY DEF Connected1, Produce, msgVars
<1>3. \A m \in broker' : /\ m.from \in 0 .. Len(msgTxs)
                         /\ m.from # OtherService => msgTxs[m.from].state # "ignored"
  BY <1>2, TheTxIsOwned DEF MessagesInv, Shape, OtherService, NoMsgTx
<1>4. Shape'
  BY <1>1, <1>3 DEF MessagesInv, Shape
<1>5. Owners' /\ Ends' /\ Links'
  BY <1>1 DEF MessagesInv, Owners, Ends, Links, Owned
<1> QED  BY <1>4, <1>5 DEF MessagesInv

LEMMA RequestRunsKeeps ==
    ASSUME MessagesInv, RequestRuns
    PROVE  MessagesInv'
<1>1. CASE mode.collect
  <2>1. MsgTx("web", {}) \in TxRecord /\ MsgTx("web", {}).state = "active" /\ ~MsgTx("web", {}).external
        /\ MsgTx("web", {}).parent = {}
    BY DEF MsgTx, TxRecord
  <2>2. /\ EnterFrame(Len(msgTxs) + 1, TRUE) /\ msgTxs' = Append(msgTxs, MsgTx("web", {}))
        /\ UNCHANGED <<mode, broker, ending>>
    BY <1>1 DEF RequestRuns
  <2> QED  BY <2>1, <2>2, OwnCall
<1>2. CASE ~mode.collect
  <2>1. EnterFrame(NoMsgTx, FALSE) /\ UNCHANGED <<mode, msgTxs, broker, ending>>
    BY <1>2 DEF RequestRuns
  <2> QED  BY <2>1, PlainCall
<1> QED  BY <1>1, <1>2

LEMMA AcceptedSender ==
    ASSUME NEW m, NEW p \in Accepted(m)
    PROVE  p = m.from /\ mode.cat
BY DEF Accepted

LEMMA DeliverKeeps ==
    ASSUME MessagesInv, NEW m \in broker, NEW described \in BOOLEAN, NEW again \in BOOLEAN,
           Deliver(m, described, again)
    PROVE  MessagesInv'
<1>1. \A d \in broker' : d \in broker
  BY DEF Deliver
<1>2. CASE ~mode.collect \/ (TheTx # NoMsgTx /\ msgTxs[TheTx].type = "message")
  <2>1. EnterFrame(CurrentTx, FALSE) /\ UNCHANGED <<mode, msgTxs, ending>>
    BY <1>2 DEF Deliver
  <2> QED  BY <1>1, <2>1, PlainCall
<1>3. CASE ~(~mode.collect \/ (TheTx # NoMsgTx /\ msgTxs[TheTx].type = "message"))
  <2> DEFINE parent == IF described THEN Accepted(m) ELSE {}
             first == IF described THEN "active" ELSE "ignored"
             made == [MsgTx("message", parent) EXCEPT !.state = first]
  <2>1. \A p \in parent : p = m.from /\ mode.cat
    BY AcceptedSender
  <2>2. m.from \in Nat /\ (m.from # OtherService => m.from \in 1 .. Len(msgTxs) /\ msgTxs[m.from].state # "ignored")
    BY Elements DEF MessagesInv, Shape, OtherService
  <2>3. EnterFrame(Len(msgTxs) + 1, described) /\ msgTxs' = Append(msgTxs, made) /\ UNCHANGED <<mode, ending>>
    BY <1>3 DEF Deliver
  <2>4. first \in {"active", "ignored"} /\ parent \in SUBSET Nat
    BY <2>1, <2>2
  <2> HIDE DEF parent
  <2>5. /\ made \in TxRecord /\ made.state = first /\ made.parent = parent /\ made.type = "message" /\ ~made.external
    <3> HIDE DEF first
    <3> QED  BY <2>4 DEF MsgTx, TxRecord
  <2> HIDE DEF made
  <2> QED  BY <1>1, <2>1, <2>2, <2>3, <2>5, OwnCall
<1> QED  BY <1>2, <1>3

LEMMA TakeHandleKeeps ==
    ASSUME MessagesInv, TakeHandle
    PROVE  MessagesInv'
<1> DEFINE x == TheTx
           h == [tx |-> x, by |-> "handle"]
<1>1. /\ x \in 1 .. Len(msgTxs) /\ msgTxs[x].state = "active" /\ x \in Owned
      /\ ~msgTxs[x].external
  BY TheTxIsOwned, Elements DEF TakeHandle, NoMsgTx, MessagesInv
<1>2. /\ msgTxs' = [msgTxs EXCEPT ![x].external = TRUE] /\ ending' = ending \cup {h}
      /\ UNCHANGED <<mode, msgFrames, broker>>
  BY DEF TakeHandle
<1> HIDE DEF x
<1>3. msgTxs' \in Seq(TxRecord) /\ Len(msgTxs') = Len(msgTxs)
      /\ \A t \in 1 .. Len(msgTxs) :
            msgTxs'[t] = IF t = x THEN [msgTxs[x] EXCEPT !.external = TRUE] ELSE msgTxs[t]
  <2>1. [msgTxs[x] EXCEPT !.external = TRUE] \in TxRecord
    BY <1>1, Elements DEF MessagesInv, TxRecord
  <2>2. msgTxs \in Seq(TxRecord)
    BY DEF MessagesInv, Shape
  <2> HIDE DEF TxRecord
  <2>3. msgTxs' = [msgTxs EXCEPT ![x] = [msgTxs[x] EXCEPT !.external = TRUE]]
    BY <1>2
  <2> QED  BY <1>1, <2>1, <2>2, <2>3, ExceptSeq
<1>4. \A t \in 1 .. Len(msgTxs) :
         /\ msgTxs'[t].state = msgTxs[t].state /\ msgTxs'[t].parent = msgTxs[t].parent
         /\ msgTxs'[t].type = msgTxs[t].type /\ msgTxs'[t].ended = msgTxs[t].ended
         /\ msgTxs'[t].left = msgTxs[t].left /\ (t # x => msgTxs'[t].external = msgTxs[t].external)
  BY <1>1, <1>3, Elements DEF MessagesInv, TxRecord
<1>5. Owned' = Owned
  BY <1>2 DEF Owned
<1>6. h \in [tx : 1 .. Len(msgTxs), by : EndedBy] /\ h.tx = x /\ h.by = "handle"
  BY <1>1 DEF EndedBy
<1> HIDE DEF h
<1>7. Shape'
  <2>1. \A m \in broker : m.from # OtherService => msgTxs'[m.from].state # "ignored"
    BY <1>4, Elements DEF MessagesInv, Shape, OtherService
  <2> QED  BY <1>2, <1>3, <1>6, <2>1 DEF MessagesInv, Shape
<1>8. Owners'
  <2>1. \A i \in 1 .. Len(msgFrames) : msgFrames[i].tx # NoMsgTx => msgFrames[i].tx \in 1 .. Len(msgTxs)
    BY Elements DEF MessagesInv, Shape, MsgFrame, NoMsgTx
  <2> QED  BY <1>2, <1>4, <2>1 DEF MessagesInv, Owners
<1>9. Ends'
  <2>1. \A e \in ending : e.tx \in 1 .. Len(msgTxs)
    BY DEF MessagesInv, Shape
  <2>2. \A t \in 1 .. Len(msgTxs) : msgTxs'[t].state = "active" => t \in Owned \/ \E e \in ending' : e.tx = t
    BY <1>2, <1>4 DEF MessagesInv, Ends
  <2>3. \A t \in 1 .. Len(msgTxs) :
           msgTxs'[t].state = "active" /\ msgTxs'[t].external => [tx |-> t, by |-> "handle"] \in ending'
    BY <1>2, <1>4 DEF MessagesInv, Ends, h
  <2>4. ASSUME NEW e \in ending', e.by # "handle"
        PROVE  /\ e.tx \notin Owned
               /\ e.by = "immediate" => ~msgTxs'[e.tx].external
               /\ e.by = "promise" => msgTxs'[e.tx].left
    <3>1. e \in ending
      BY <1>2, <1>6, <2>4
    <3>2. e.tx \notin Owned
      BY <2>4, <3>1 DEF MessagesInv, Ends
    <3>3. e.tx # x
      BY <1>1, <3>2
    <3> QED  BY <1>4, <2>1, <2>4, <3>1, <3>2, <3>3 DEF MessagesInv, Ends
  <2>5. \A t \in 1 .. Len(msgTxs) : msgTxs'[t].state = "ended" =>
           /\ msgTxs'[t].ended \in EndedBy
           /\ msgTxs'[t].ended # "handle" => t \notin Owned
           /\ msgTxs'[t].ended = "immediate" => ~msgTxs'[t].external
           /\ msgTxs'[t].ended = "promise" => msgTxs'[t].left
    BY <1>1, <1>4 DEF MessagesInv, Ends
  <2> QED  BY <1>3, <1>5, <2>2, <2>3, <2>4, <2>5 DEF Ends
<1>10. Links'
  <2> SUFFICES ASSUME NEW t \in 1 .. Len(msgTxs), NEW p \in msgTxs[t].parent
               PROVE  /\ mode.cat
                      /\ p # OtherService => p \in 1 .. t - 1 /\ msgTxs'[p].state # "ignored"
                      /\ msgTxs[t].type = "message"
    BY <1>2, <1>3, <1>4 DEF Links
  <2>1. \A q \in 1 .. t - 1 : q \in 1 .. Len(msgTxs)
    BY Elements DEF MessagesInv
  <2> QED  BY <1>4, <2>1 DEF MessagesInv, Links
<1> QED  BY <1>7, <1>8, <1>9, <1>10 DEF MessagesInv
LEMMA LeaveKeeps ==
    ASSUME MessagesInv, NEW how \in {"value", "promise"}, Leave(how)
    PROVE  MessagesInv'
<1> DEFINE n == Len(msgFrames)
           x == msgFrames[n].tx
           gone == IF how = "promise" THEN {[tx |-> x, by |-> "promise"]}
                   ELSE IF ~msgTxs[x].external THEN {[tx |-> x, by |-> "immediate"]} ELSE {}
<1>1. n \in Nat \ {0} /\ x \in 0 .. Len(msgTxs) /\ Len(msgTxs) \in Nat
  <2>1. Shape /\ msgFrames # <<>>
    BY DEF Leave, MessagesInv
  <2>2. n \in Nat /\ n \in 1 .. n /\ Len(msgTxs) \in Nat /\ msgFrames[n] \in MsgFrame
    BY <2>1, Elements
  <2>3. x \in Nat
    BY <2>2 DEF MsgFrame
  <2>4. x <= Len(msgTxs)
    BY <2>1, <2>2 DEF Shape
  <2> HIDE DEF n, x
  <2> QED  BY <2>2, <2>3, <2>4
<1>2. /\ msgFrames' \in Seq(MsgFrame) /\ Len(msgFrames') = n - 1
      /\ \A i \in 1 .. n - 1 : msgFrames'[i] = msgFrames[i] /\ i \in 1 .. n /\ i # n
  <2>1. \A i \in 1 .. n - 1 : msgFrames[i] \in MsgFrame
    BY <1>1, Elements DEF MessagesInv
  <2>2. msgFrames' = SubSeq(msgFrames, 1, n - 1)
    BY DEF Leave
  <2> HIDE DEF MsgFrame
  <2>3. /\ SubSeq(msgFrames, 1, n - 1) \in Seq(MsgFrame)
        /\ Len(SubSeq(msgFrames, 1, n - 1)) = IF 1 <= n - 1 THEN (n - 1) - 1 + 1 ELSE 0
        /\ \A i \in 1 .. (n - 1) - 1 + 1 : SubSeq(msgFrames, 1, n - 1)[i] = msgFrames[1 + i - 1]
    BY <1>1, <2>1, SubSeqProperties
  <2>4. \A i \in 1 .. n - 1 : i \in 1 .. (n - 1) - 1 + 1 /\ 1 + i - 1 = i /\ i \in 1 .. n /\ i # n
    BY <1>1
  <2>5. (IF 1 <= n - 1 THEN (n - 1) - 1 + 1 ELSE 0) = n - 1
    <3>1. \A k \in Nat \ {0} : (IF 1 <= k - 1 THEN (k - 1) - 1 + 1 ELSE 0) = k - 1
      OBVIOUS
    <3> QED  BY <1>1, <3>1
  <2>6. \A i \in 1 .. n - 1 : SubSeq(msgFrames, 1, n - 1)[i] = msgFrames[i]
    BY <2>3, <2>4
  <2> QED  BY <2>2, <2>3, <2>4, <2>5, <2>6
<1>3. \A i \in 1 .. n : i \in 1 .. n - 1 \/ i = n
  BY <1>1
<1>4. Owned' \subseteq Owned /\ \A t \in Owned : t \in Owned' \/ (t = x /\ msgFrames[n].own)
  <2>1. \A i \in 1 .. n - 1 : msgFrames'[i].tx = msgFrames[i].tx /\ (msgFrames'[i].own <=> msgFrames[i].own)
    BY <1>2
  <2>2. ASSUME NEW t \in Owned' PROVE t \in Owned
    BY <2>1, <1>2 DEF Owned
  <2>3. ASSUME NEW t \in Owned PROVE t \in Owned' \/ (t = x /\ msgFrames[n].own)
    <3>1. PICK i \in 1 .. n : msgFrames[i].own /\ t = msgFrames[i].tx
      BY <1>1 DEF Owned
    <3>2. CASE i = n
      BY <1>1, <3>1, <3>2
    <3>3. CASE i \in 1 .. n - 1
      BY <1>2, <2>1, <3>1, <3>3 DEF Owned
    <3> QED  BY <1>3, <3>2, <3>3
  <2> QED  BY <2>2, <2>3
<1>5. Owners'
  <2>1. \A i, j \in 1 .. n - 1 :
           msgFrames'[i].own /\ msgFrames'[j].own /\ msgFrames'[i].tx = msgFrames'[j].tx => i = j
    <3>1. \A i, j \in 1 .. n :
             msgFrames[i].own /\ msgFrames[j].own /\ msgFrames[i].tx = msgFrames[j].tx => i = j
      BY DEF MessagesInv, Owners
    <3> HIDE DEF n
    <3> QED  BY <1>2, <3>1
  <2>2. \A t \in 1 .. Len(msgTxs) : msgTxs[t].state = "ignored" => msgTxs'[t].state = "ignored"
    <3>1. \A t \in 1 .. Len(msgTxs) : msgTxs[t] \in TxRecord
      BY Elements DEF MessagesInv
    <3>2. msgTxs' = msgTxs \/ msgTxs' = [msgTxs EXCEPT ![x].left = (how = "promise")]
      BY DEF Leave, Frame
    <3>3. DOMAIN msgTxs = 1 .. Len(msgTxs)
      BY Elements DEF MessagesInv
    <3> QED  BY <3>1, <3>2, <3>3 DEF TxRecord
  <2>3. ASSUME NEW i \in 1 .. n - 1, msgFrames'[i].tx # NoMsgTx
        PROVE  \/ msgTxs'[msgFrames'[i].tx].state = "ignored"
               \/ \E j \in 1 .. i : msgFrames'[j].own /\ msgFrames'[j].tx = msgFrames'[i].tx
    <3>1. \A j \in 1 .. i : j \in 1 .. n - 1
      BY <1>1, <2>3
    <3>2. msgFrames[i].tx \in 1 .. Len(msgTxs)
      <4>1. msgFrames[i].tx \in Nat /\ msgFrames[i].tx # NoMsgTx
        BY <1>2, <2>3, Elements DEF MessagesInv, MsgFrame
      <4>2. msgFrames[i].tx <= Len(msgTxs)
        BY <1>2, <2>3 DEF MessagesInv, Shape
      <4> QED  BY <1>1, <4>1, <4>2 DEF NoMsgTx
    <3>3. \/ msgTxs[msgFrames[i].tx].state = "ignored"
          \/ \E j \in 1 .. i : msgFrames[j].own /\ msgFrames[j].tx = msgFrames[i].tx
      BY <1>2, <2>3 DEF MessagesInv, Owners
    <3> QED  BY <1>2, <2>2, <3>1, <3>2, <3>3
  <2> QED  BY <1>2, <2>1, <2>3 DEF Owners
<1>6. \A i \in 1 .. n - 1 :
         msgFrames'[i].tx <= Len(msgTxs) /\ (msgFrames'[i].own => msgFrames'[i].tx # NoMsgTx)
  BY <1>2 DEF MessagesInv, Shape
<1>7. CASE ~msgFrames[n].own
  <2>1. Owned' = Owned /\ UNCHANGED <<mode, msgTxs, ending, broker>>
    BY <1>4, <1>7 DEF Leave, Frame
  <2>2. Shape'
    BY <1>2, <1>6, <2>1 DEF MessagesInv, Shape
  <2>3. Ends' /\ Links'
    BY <2>1 DEF MessagesInv, Ends, Links
  <2> QED  BY <1>5, <2>2, <2>3 DEF MessagesInv
<1>8. CASE msgFrames[n].own
  <2>1. x \in 1 .. Len(msgTxs) /\ x \in Owned
    BY <1>1, <1>8 DEF MessagesInv, Shape, Owned, NoMsgTx
  <2>2. x \notin Owned'
    <3> SUFFICES ASSUME NEW i \in 1 .. n - 1, msgFrames'[i].own, msgFrames'[i].tx = x
                 PROVE  FALSE
      BY <1>2 DEF Owned
    <3>1. i \in 1 .. n /\ i # n /\ n \in 1 .. n /\ msgFrames[i].own /\ msgFrames[i].tx = x
      BY <1>1, <1>2
    <3> QED  BY <1>8, <3>1 DEF MessagesInv, Owners
  <2>3. /\ msgTxs' = [msgTxs EXCEPT ![x].left = (how = "promise")]
        /\ ending' = ending \cup gone /\ UNCHANGED <<mode, broker>>
    BY <1>8 DEF Leave, Frame
  <2>4. /\ gone \subseteq [tx : 1 .. Len(msgTxs), by : EndedBy]
        /\ \A e \in gone : /\ e.tx = x /\ e.by # "handle"
                           /\ e.by = "promise" => how = "promise"
                           /\ e.by = "immediate" => ~msgTxs[x].external
        /\ gone # {} \/ (msgTxs[x].external /\ how # "promise")
    <3> HIDE DEF x
    <3>1. CASE how = "promise"
      BY <2>1, <3>1 DEF EndedBy
    <3>2. CASE how # "promise" /\ ~msgTxs[x].external
      <4>1. gone = {[tx |-> x, by |-> "immediate"]}
        BY <3>2
      <4> HIDE DEF gone
      <4> QED  BY <2>1, <3>2, <4>1 DEF EndedBy
    <3>3. CASE how # "promise" /\ msgTxs[x].external
      BY <3>3
    <3> QED  BY <3>1, <3>2, <3>3
  <2> HIDE DEF x, gone
  <2>5. msgTxs' \in Seq(TxRecord) /\ Len(msgTxs') = Len(msgTxs)
        /\ \A t \in 1 .. Len(msgTxs) :
              msgTxs'[t] = IF t = x THEN [msgTxs[x] EXCEPT !.left = (how = "promise")] ELSE msgTxs[t]
    <3>1. [msgTxs[x] EXCEPT !.left = (how = "promise")] \in TxRecord
      BY <2>1, Elements DEF MessagesInv, TxRecord
    <3>2. msgTxs \in Seq(TxRecord)
      BY DEF MessagesInv, Shape
    <3> HIDE DEF TxRecord
    <3> DEFINE r == [msgTxs[x] EXCEPT !.left = (how = "promise")]
    <3>3. msgTxs' = [msgTxs EXCEPT ![x] = r]
      BY <2>3
    <3> HIDE DEF r
    <3>4. /\ [msgTxs EXCEPT ![x] = r] \in Seq(TxRecord) /\ Len([msgTxs EXCEPT ![x] = r]) = Len(msgTxs)
          /\ \A t \in 1 .. Len(msgTxs) : [msgTxs EXCEPT ![x] = r][t] = IF t = x THEN r ELSE msgTxs[t]
      BY <2>1, <3>1, <3>2, ExceptSeq DEF r
    <3> QED  BY <3>3, <3>4 DEF r
  <2>6. \A t \in 1 .. Len(msgTxs) :
           /\ msgTxs'[t].state = msgTxs[t].state /\ msgTxs'[t].parent = msgTxs[t].parent
           /\ msgTxs'[t].type = msgTxs[t].type /\ msgTxs'[t].ended = msgTxs[t].ended
           /\ msgTxs'[t].external = msgTxs[t].external
           /\ t # x => msgTxs'[t].left = msgTxs[t].left
    BY <2>1, <2>5, Elements DEF MessagesInv, TxRecord
  <2>7. how = "promise" => msgTxs'[x].left
    BY <2>1, <2>5, Elements DEF MessagesInv, TxRecord
  <2>8. Shape'
    <3>1. \A m \in broker : m.from # OtherService => msgTxs'[m.from].state # "ignored"
      BY <2>6, Elements DEF MessagesInv, Shape, OtherService
    <3> QED  BY <1>2, <1>6, <2>3, <2>4, <2>5, <3>1 DEF MessagesInv, Shape
  <2>9. Ends'
    <3>1. \A e \in ending : e.tx \in 1 .. Len(msgTxs)
      BY DEF MessagesInv, Shape
    <3>2. ASSUME NEW t \in 1 .. Len(msgTxs), msgTxs'[t].state = "active"
          PROVE  t \in Owned' \/ \E e \in ending' : e.tx = t
      <4>1. msgTxs[t].state = "active" /\ (t \in Owned \/ \E e \in ending : e.tx = t)
        BY <2>6, <3>2 DEF MessagesInv, Ends
      <4>2. CASE t # x
        BY <1>4, <2>3, <4>1, <4>2 DEF x
      <4>3. CASE t = x /\ gone # {}
        BY <2>3, <2>4, <4>3
      <4>4. CASE t = x /\ msgTxs[x].external
        <5>1. [tx |-> t, by |-> "handle"] \in ending
          BY <4>1, <4>4 DEF MessagesInv, Ends
        <5> QED  BY <2>3, <5>1
      <4> QED  BY <2>4, <4>2, <4>3, <4>4
    <3>3. \A t \in 1 .. Len(msgTxs) :
             msgTxs'[t].state = "active" /\ msgTxs'[t].external => [tx |-> t, by |-> "handle"] \in ending'
      BY <2>3, <2>6 DEF MessagesInv, Ends
    <3>4. ASSUME NEW e \in ending', e.by # "handle"
          PROVE  /\ e.tx \notin Owned'
                 /\ e.by = "immediate" => ~msgTxs'[e.tx].external
                 /\ e.by = "promise" => msgTxs'[e.tx].left
      <4>1. CASE e \in ending
        <5>1. e.tx \notin Owned /\ e.tx # x
          BY <2>1, <3>4, <4>1 DEF MessagesInv, Ends
        <5> QED  BY <1>4, <2>6, <3>1, <3>4, <4>1, <5>1 DEF MessagesInv, Ends
      <4>2. CASE e \in gone
        BY <2>1, <2>2, <2>4, <2>6, <2>7, <4>2
      <4> QED  BY <2>3, <4>1, <4>2
    <3>5. ASSUME NEW t \in 1 .. Len(msgTxs), msgTxs'[t].state = "ended"
          PROVE  /\ msgTxs'[t].ended \in EndedBy
                 /\ msgTxs'[t].ended # "handle" => t \notin Owned'
                 /\ msgTxs'[t].ended = "immediate" => ~msgTxs'[t].external
                 /\ msgTxs'[t].ended = "promise" => msgTxs'[t].left
      <4>1. /\ msgTxs[t].ended \in EndedBy
            /\ msgTxs[t].ended # "handle" => t \notin Owned
            /\ msgTxs[t].ended = "immediate" => ~msgTxs[t].external
            /\ msgTxs[t].ended = "promise" => msgTxs[t].left
        BY <2>6, <3>5 DEF MessagesInv, Ends
      <4>2. t = x => msgTxs[t].ended = "handle"
        BY <2>1, <4>1
      <4> QED  BY <1>4, <2>6, <4>1, <4>2
    <3> QED  BY <2>5, <3>2, <3>3, <3>4, <3>5 DEF Ends
  <2>10. Links'
    <3> SUFFICES ASSUME NEW t \in 1 .. Len(msgTxs), NEW p \in msgTxs[t].parent
                 PROVE  /\ mode.cat
                        /\ p # OtherService => p \in 1 .. t - 1 /\ msgTxs'[p].state # "ignored"
                        /\ msgTxs[t].type = "message"
      BY <2>3, <2>5, <2>6 DEF Links
    <3>1. \A q \in 1 .. t - 1 : q \in 1 .. Len(msgTxs)
      BY Elements DEF MessagesInv
    <3> QED  BY <2>6, <3>1 DEF MessagesInv, Links
  <2> QED  BY <1>5, <2>8, <2>9, <2>10 DEF MessagesInv
<1> QED  BY <1>7, <1>8
LEMMA EndKeeps ==
    ASSUME MessagesInv, NEW e \in ending, EndMessageTx(e)
    PROVE  MessagesInv'
<1> DEFINE x == e.tx
           r == [msgTxs[x] EXCEPT !.state = "ended", !.ended = e.by]
<1>1. x \in 1 .. Len(msgTxs) /\ e.by \in EndedBy /\ e = [tx |-> x, by |-> e.by]
  BY DEF MessagesInv, Shape
<1>2. /\ ending' = ending \ {e} /\ UNCHANGED <<mode, msgFrames, broker>>
      /\ e.by # "handle" => msgFrames = <<>>
      /\ msgTxs' = IF msgTxs[x].state = "active" THEN [msgTxs EXCEPT ![x] = r] ELSE msgTxs
  <2>1. [msgTxs EXCEPT ![x].state = "ended", ![x].ended = e.by] = [msgTxs EXCEPT ![x] = r]
    BY <1>1, Elements DEF MessagesInv, TxRecord
  <2> QED  BY <2>1 DEF EndMessageTx
<1>3. msgTxs[x] \in TxRecord /\ r \in TxRecord
  BY <1>1, Elements DEF MessagesInv, TxRecord, EndedBy
<1>4. /\ r.state = "ended" /\ r.ended = e.by /\ r.parent = msgTxs[x].parent /\ r.type = msgTxs[x].type
      /\ r.external = msgTxs[x].external /\ r.left = msgTxs[x].left
  BY <1>3 DEF TxRecord
<1> HIDE DEF r, x
<1>5. /\ msgTxs' \in Seq(TxRecord) /\ Len(msgTxs') = Len(msgTxs)
      /\ \A t \in 1 .. Len(msgTxs) :
            msgTxs'[t] = IF t = x /\ msgTxs[x].state = "active" THEN r ELSE msgTxs[t]
  <2>1. msgTxs \in Seq(TxRecord)
    BY DEF MessagesInv, Shape
  <2>2. /\ [msgTxs EXCEPT ![x] = r] \in Seq(TxRecord) /\ Len([msgTxs EXCEPT ![x] = r]) = Len(msgTxs)
        /\ \A t \in 1 .. Len(msgTxs) : [msgTxs EXCEPT ![x] = r][t] = IF t = x THEN r ELSE msgTxs[t]
    BY <1>1, <1>3, <2>1, ExceptSeq
  <2> QED  BY <1>2, <2>1, <2>2
<1>6. \A t \in 1 .. Len(msgTxs) :
         /\ msgTxs'[t].parent = msgTxs[t].parent /\ msgTxs'[t].type = msgTxs[t].type
         /\ msgTxs'[t].external = msgTxs[t].external /\ msgTxs'[t].left = msgTxs[t].left
         /\ \/ msgTxs'[t].state = msgTxs[t].state /\ msgTxs'[t].ended = msgTxs[t].ended
            \/ t = x /\ msgTxs[x].state = "active" /\ msgTxs'[t].state = "ended" /\ msgTxs'[t].ended = e.by
         /\ t = x => msgTxs'[t].state # "active"
  BY <1>4, <1>5
<1>7. Owned' = Owned
  BY <1>2 DEF Owned
<1>8. Shape'
  <2>1. \A m \in broker : m.from # OtherService => msgTxs'[m.from].state # "ignored"
    BY <1>6, Elements DEF MessagesInv, Shape, OtherService
  <2> QED  BY <1>2, <1>5, <2>1 DEF MessagesInv, Shape
<1>9. Owners'
  <2>1. \A i \in 1 .. Len(msgFrames) : msgFrames[i].tx # NoMsgTx => msgFrames[i].tx \in 1 .. Len(msgTxs)
    BY Elements DEF MessagesInv, Shape, MsgFrame, NoMsgTx
  <2>2. \A t \in 1 .. Len(msgTxs) : msgTxs[t].state = "ignored" => msgTxs'[t].state = "ignored"
    BY <1>6
  <2> QED  BY <1>2, <2>1, <2>2 DEF MessagesInv, Owners
<1>10. Ends'
  <2>1. \A d \in ending : d.tx \in 1 .. Len(msgTxs)
    BY DEF MessagesInv, Shape
  <2>2. ASSUME NEW t \in 1 .. Len(msgTxs), msgTxs'[t].state = "active"
        PROVE  /\ t \in Owned \/ \E d \in ending' : d.tx = t
               /\ msgTxs'[t].external => [tx |-> t, by |-> "handle"] \in ending'
    <3>1. t # x /\ msgTxs[t].state = "active"
      BY <1>6, <2>2
    <3>2. t \in Owned \/ \E d \in ending : d.tx = t
      BY <3>1 DEF MessagesInv, Ends
    <3>3. msgTxs'[t].external => [tx |-> t, by |-> "handle"] \in ending
      BY <1>6, <3>1 DEF MessagesInv, Ends
    <3> QED  BY <1>1, <1>2, <3>1, <3>2, <3>3
  <2>3. \A d \in ending' : d.by # "handle" =>
           /\ d.tx \notin Owned
           /\ d.by = "immediate" => ~msgTxs'[d.tx].external
           /\ d.by = "promise" => msgTxs'[d.tx].left
    BY <1>2, <1>6, <2>1 DEF MessagesInv, Ends
  <2>4. ASSUME NEW t \in 1 .. Len(msgTxs), msgTxs'[t].state = "ended"
        PROVE  /\ msgTxs'[t].ended \in EndedBy
               /\ msgTxs'[t].ended # "handle" => t \notin Owned
               /\ msgTxs'[t].ended = "immediate" => ~msgTxs'[t].external
               /\ msgTxs'[t].ended = "promise" => msgTxs'[t].left
    <3>1. CASE msgTxs'[t].state = msgTxs[t].state /\ msgTxs'[t].ended = msgTxs[t].ended
      BY <1>6, <2>4, <3>1 DEF MessagesInv, Ends
    <3>2. CASE t = x /\ msgTxs'[t].ended = e.by
      <4>1. e.by # "handle" => e.tx \notin Owned
        BY DEF MessagesInv, Ends
      <4>2. /\ e.by = "immediate" => ~msgTxs[e.tx].external
            /\ e.by = "promise" => msgTxs[e.tx].left
        BY DEF MessagesInv, Ends
      <4> QED  BY <1>1, <1>6, <3>2, <4>1, <4>2 DEF x
    <3> QED  BY <1>6, <3>1, <3>2
  <2> QED  BY <1>5, <1>7, <2>2, <2>3, <2>4 DEF Ends
<1>11. Links'
  <2> SUFFICES ASSUME NEW t \in 1 .. Len(msgTxs), NEW p \in msgTxs[t].parent
               PROVE  /\ mode.cat
                      /\ p # OtherService => p \in 1 .. t - 1 /\ msgTxs'[p].state # "ignored"
                      /\ msgTxs[t].type = "message"
    BY <1>2, <1>5, <1>6 DEF Links
  <2>1. \A q \in 1 .. t - 1 : q \in 1 .. Len(msgTxs)
    BY Elements DEF MessagesInv
  <2> QED  BY <1>6, <2>1 DEF MessagesInv, Links
<1> QED  BY <1>8, <1>9, <1>10, <1>11 DEF MessagesInv

LEMMA InitKeeps == MessagesInit => MessagesInv
<1> SUFFICES ASSUME MessagesInit PROVE MessagesInv
  OBVIOUS
<1>1. Len(msgTxs) = 0 /\ Len(msgFrames) = 0 /\ ending = {} /\ msgTxs \in Seq(TxRecord) /\ msgFrames \in Seq(MsgFrame)
  BY EmptySeq DEF MessagesInit
<1>2. \A m \in broker : m.from = OtherService
  BY DEF MessagesInit
<1>3. mode \in [tracing : BOOLEAN, cat : BOOLEAN, key : BOOLEAN, collect : BOOLEAN]
  BY DEF MessagesInit
<1> QED  BY <1>1, <1>2, <1>3 DEF MessagesInv, Shape, Owners, Ends, Links, OtherService

LEMMA MessagesInvariant == MessagesSpec => []MessagesInv
<1>1. MessagesInv /\ [MessagesNext]_msgVars => MessagesInv'
  <2> SUFFICES ASSUME MessagesInv, [MessagesNext]_msgVars
               PROVE  MessagesInv'
    OBVIOUS
  <2>1. CASE Connected1 \/ (\E w \in BOOLEAN : Produce(w)) \/ UNCHANGED msgVars
    BY <2>1, Quiet
  <2>2. CASE RequestRuns
    BY <2>2, RequestRunsKeeps
  <2>3. CASE TakeHandle
    BY <2>3, TakeHandleKeeps
  <2>4. CASE \E m \in broker, d, a \in BOOLEAN : Deliver(m, d, a)
    BY <2>4, DeliverKeeps
  <2>5. CASE \E how \in {"value", "promise"} : Leave(how)
    BY <2>5, LeaveKeeps
  <2>6. CASE \E e \in ending : EndMessageTx(e)
    BY <2>6, EndKeeps
  <2> QED  BY <2>1, <2>2, <2>3, <2>4, <2>5, <2>6 DEF MessagesNext
<1> QED  BY <1>1, InitKeeps, PTL DEF MessagesSpec

\* No transaction of a request or a message is left open: what is active is owned by a call
\* that has not returned, or something waits to end it.
THEOREM NothingLeftOpenCorrect == MessagesSpec => []NothingLeftOpen
<1>1. MessagesInv => NothingLeftOpen
  BY Elements DEF MessagesInv, Ends, Owned, NothingLeftOpen
<1> QED  BY <1>1, MessagesInvariant, PTL

\* However calls nest and whenever promises settle, a transaction whose handle is held is
\* ended by the handle, or by the promise its consumer returned.
THEOREM HandlesAreRespectedCorrect == MessagesSpec => []HandlesAreRespected
<1>1. MessagesInv => HandlesAreRespected
  <2> SUFFICES ASSUME MessagesInv
               PROVE  HandlesAreRespected
    OBVIOUS
  <2>1. ASSUME NEW i \in DOMAIN msgFrames, msgFrames[i].own, msgTxs[msgFrames[i].tx].state = "ended"
        PROVE  msgTxs[msgFrames[i].tx].ended = "handle"
    <3>1. i \in 1 .. Len(msgFrames) /\ msgFrames[i].tx \in Nat
      BY Elements DEF MessagesInv, MsgFrame
    <3>2. msgFrames[i].tx \in Owned
      BY <2>1, <3>1 DEF Owned
    <3>3. msgFrames[i].tx \in 1 .. Len(msgTxs)
      BY <2>1, <3>1, Elements DEF MessagesInv, Shape, NoMsgTx
    <3> QED  BY <2>1, <3>2, <3>3 DEF MessagesInv, Ends
  <2>2. ASSUME NEW t \in DOMAIN msgTxs, msgTxs[t].external, msgTxs[t].state = "ended"
        PROVE  msgTxs[t].ended = "handle" \/ msgTxs[t].left
    <3>1. t \in 1 .. Len(msgTxs)
      BY Elements DEF MessagesInv
    <3> QED  BY <2>2, <3>1 DEF MessagesInv, Ends, EndedBy
  <2> QED  BY <2>1, <2>2 DEF HandlesAreRespected
<1> QED  BY <1>1, MessagesInvariant, PTL

\* Links between transactions go back in time, so they make no circle, and never to one that
\* was ignored.
THEOREM LinksGoBackCorrect == MessagesSpec => []LinksGoBack
<1>1. MessagesInv => LinksGoBack
  <2> SUFFICES ASSUME MessagesInv, NEW t \in DOMAIN msgTxs, NEW p \in msgTxs[t].parent
               PROVE  /\ mode.cat
                      /\ p # OtherService => p < t /\ msgTxs[p].state # "ignored"
                      /\ msgTxs[t].type = "message"
    BY DEF LinksGoBack
  <2>1. t \in 1 .. Len(msgTxs) /\ t \in Int
    BY Elements DEF MessagesInv
  <2> QED  BY <2>1 DEF MessagesInv, Links
<1> QED  BY <1>1, MessagesInvariant, PTL
-----------------------------------------------------------------------------
\* The broker is within its bound, and what the service itself sent carries the headers that
\* the service takes.
Queue ==
    /\ IsFiniteSet(broker) /\ Cardinality(broker) <= MaxQueued
    /\ \A m \in broker : m.from # OtherService /\ m.headers # "none" =>
          m.headers = IF mode.tracing THEN "dt" ELSE "cat"

LEMMA QueueKeeps ==
    ASSUME MessagesInv, Queue, [MessagesNext]_msgVars
    PROVE  Queue'
<1>1. mode'.tracing = mode.tracing
  BY DEF MessagesNext, Connected1, RequestRuns, TakeHandle, Produce, Deliver, Leave, EndMessageTx,
         msgVars, MessagesInv, Shape
<1>2. CASE broker' = broker
  BY <1>1, <1>2 DEF Queue
<1>3. CASE \E m \in broker : broker' = broker \ {m}
  <2>1. PICK m \in broker : broker' = broker \ {m}
    BY <1>3
  <2>2. IsFiniteSet(broker') /\ Cardinality(broker') = Cardinality(broker) - 1 /\ Cardinality(broker) \in Nat
    BY <2>1, FS_RemoveElement, FS_CardinalityType DEF Queue
  <2>3. Cardinality(broker') <= MaxQueued
    BY <2>2, MaxQueuedAssumption DEF Queue
  <2> QED  BY <1>1, <2>1, <2>2, <2>3 DEF Queue
<1>4. ASSUME NEW w \in BOOLEAN, Produce(w)
      PROVE  Queue'
  <2> DEFINE m == [from |-> TheTx, headers |-> IF w THEN HeadersOf(TheTx) ELSE "none"]
  <2>1. broker' = broker \cup {m} /\ Cardinality(broker) < MaxQueued
    BY <1>4 DEF Produce
  <2>2. m.from # OtherService /\ m.headers # "none" => m.headers = IF mode.tracing THEN "dt" ELSE "cat"
    BY DEF HeadersOf, OtherService, NoMsgTx
  <2> HIDE DEF m
  <2>3. /\ IsFiniteSet(broker') /\ Cardinality(broker) \in Nat
        /\ Cardinality(broker') = Cardinality(broker) \/ Cardinality(broker') = Cardinality(broker) + 1
    BY <2>1, FS_AddElement, FS_CardinalityType DEF Queue
  <2>4. Cardinality(broker') <= MaxQueued
    BY <2>1, <2>3, MaxQueuedAssumption
  <2> QED  BY <1>1, <2>1, <2>2, <2>3, <2>4 DEF Queue
<1>5. broker' = broker \/ (\E m \in broker : broker' = broker \ {m}) \/ (\E w \in BOOLEAN : Produce(w))
  BY DEF MessagesNext, Connected1, RequestRuns, TakeHandle, Deliver, Leave, EndMessageTx, msgVars
<1> QED  BY <1>2, <1>3, <1>4, <1>5

LEMMA QueueInvariant == MessagesSpec => []Queue
<1>1. MessagesInit => Queue
  <2> SUFFICES ASSUME MessagesInit PROVE Queue
    OBVIOUS
  <2>1. IsFiniteSet(broker) /\ Cardinality(broker) \in {0, 1}
    <3>1. CASE broker = {}
      BY <3>1, FS_EmptySet
    <3>2. CASE \E m : broker = {m}
      BY <3>2, FS_Singleton
    <3> QED  BY <3>1, <3>2 DEF MessagesInit
  <2> QED  BY <2>1, MaxQueuedAssumption DEF Queue, MessagesInit
<1> QED  BY <1>1, QueueKeeps, MessagesInvariant, PTL DEF MessagesSpec

\* What the model says of transactions, frames, ends and the broker is of its type.
LEMMA TypesFollow ==
    ASSUME MessagesInv, Queue
    PROVE  MessagesTypeOK
<1>1. ASSUME NEW t \in DOMAIN msgTxs
      PROVE  /\ msgTxs[t].type \in {"web", "message"} /\ msgTxs[t].state \in {"active", "ended", "ignored"}
             /\ msgTxs[t].parent \subseteq {OtherService} \cup DOMAIN msgTxs
  <2>1. t \in 1 .. Len(msgTxs) /\ DOMAIN msgTxs = 1 .. Len(msgTxs) /\ msgTxs[t] \in TxRecord
    BY <1>1, Elements DEF MessagesInv
  <2>2. \A q \in 1 .. t - 1 : q \in 1 .. Len(msgTxs)
    BY <2>1, Elements DEF MessagesInv
  <2> QED  BY <2>1, <2>2 DEF MessagesInv, Links, TxRecord
<1>2. \A i \in DOMAIN msgFrames : msgFrames[i].tx \in {NoMsgTx} \cup DOMAIN msgTxs
  BY Elements DEF MessagesInv, Shape, MsgFrame, NoMsgTx
<1>3. \A e \in ending : e.by \in {"immediate", "promise", "handle"}
  BY DEF MessagesInv, Shape, EndedBy
<1> QED  BY <1>1, <1>2, <1>3 DEF Queue, MessagesTypeOK

\* A message the service itself sent with headers is one it links: the headers were written
\* under the mode they are read under.
THEOREM OwnMessagesLinkCorrect == MessagesSpec => []OwnMessagesLink
<1>1. Queue => OwnMessagesLink
  BY DEF Queue, OwnMessagesLink, Accepted
<1> QED  BY <1>1, QueueInvariant, PTL

\* All of it together, for any number of transactions and messages and any depth of calls.
THEOREM MessagesAreCorrect == MessagesSpec => []MessagesCorrect
<1>1. MessagesSpec => []MessagesTypeOK
  BY TypesFollow, MessagesInvariant, QueueInvariant, PTL
<1>2. NothingLeftOpen /\ HandlesAreRespected /\ LinksGoBack /\ OwnMessagesLink /\ MessagesTypeOK => MessagesCorrect
  BY DEF MessagesCorrect
<1> QED  BY <1>1, <1>2, NothingLeftOpenCorrect, HandlesAreRespectedCorrect, LinksGoBackCorrect,
            OwnMessagesLinkCorrect, PTL
-----------------------------------------------------------------------------
\* Distributed tracing.
\* The entries that are kept, one by one.
KeepsOthers(g, s, q) ==
    /\ g \in [0..Len(q) -> Seq(StateEntry)]
    /\ g[0] = <<>>
    /\ \A k \in 1..Len(q) : g[k] = IF q[k].key = KeyOf[s] THEN g[k - 1] ELSE Append(g[k - 1], q[k])

LEMMA OthersRun ==
    ASSUME NEW s, NEW q \in Seq(StateEntry)
    PROVE  \E g : KeepsOthers(g, s, q) /\ Others(s, q) = g[Len(q)]
<1>1. PICK n \in Nat : n = Len(q)
  OBVIOUS
<1>2. PICK E : E = Seq(StateEntry)
  OBVIOUS
<1>3. PICK F : F = [p \in E \X (1..n) |-> IF q[p[2]].key = KeyOf[s] THEN p[1] ELSE Append(p[1], q[p[2]])]
  OBVIOUS
<1>4. F \in [E \X (1..n) -> E]
  <2>1. ASSUME NEW p \in E \X (1..n)
        PROVE  (IF q[p[2]].key = KeyOf[s] THEN p[1] ELSE Append(p[1], q[p[2]])) \in E
    <3>1. p[1] \in Seq(StateEntry) /\ q[p[2]] \in StateEntry
      BY <1>1, <1>2
    <3> QED BY <3>1, <1>2
  <2> QED BY <1>3, <2>1
<1>5. <<>> \in E
  BY <1>2
<1>6. RunsOf(E, n, F, <<>>) # {}
  BY <1>4, <1>5, Repeated
<1>7. PICK g \in [0..n -> E] : g[0] = <<>> /\ \A k \in 1..n : g[k] = F[<<g[k - 1], k>>]
  BY <1>6 DEF RunsOf
<1>8. ASSUME NEW k \in 1..n PROVE g[k] = IF q[k].key = KeyOf[s] THEN g[k - 1] ELSE Append(g[k - 1], q[k])
  <2> k - 1 \in 0..n
    OBVIOUS
  <2>1. <<g[k - 1], k>> \in E \X (1..n)
    BY <1>7, Zenon
  <2> QED BY <2>1, <1>3, <1>7
<1>9. KeepsOthers(g, s, q)
  BY <1>1, <1>2, <1>7, <1>8 DEF KeepsOthers
<1>10. g = [k \in 0..Len(q) |-> IF k = 0 THEN <<>>
                                ELSE IF q[k].key = KeyOf[s] THEN g[k - 1] ELSE Append(g[k - 1], q[k])]
  <2>1. PICK h : h = [k \in 0..n |-> IF k = 0 THEN <<>>
                                ELSE IF q[k].key = KeyOf[s] THEN g[k - 1] ELSE Append(g[k - 1], q[k])]
    OBVIOUS
  <2>2. ASSUME NEW k \in 0..n PROVE g[k] = h[k]
    <3>1. k = 0 \/ k \in 1..n
      OBVIOUS
    <3> QED BY <3>1, <2>1, <1>7, <1>8
  <2>3. g = h
    BY <2>1, <2>2, <1>7
  <2> QED BY <2>3, <2>1, <1>1
<1>11. PICK m : m = CHOOSE mm : mm = [k \in 0..Len(q) |-> IF k = 0 THEN <<>>
                                ELSE IF q[k].key = KeyOf[s] THEN mm[k - 1] ELSE Append(mm[k - 1], q[k])]
  OBVIOUS
<1>12. m = [k \in 0..Len(q) |-> IF k = 0 THEN <<>>
                                ELSE IF q[k].key = KeyOf[s] THEN m[k - 1] ELSE Append(m[k - 1], q[k])]
  BY <1>10, <1>11
<1>13. Others(s, q) = m[n]
  BY <1>1, <1>11 DEF Others
<1>14. m[0] = <<>> /\ \A k \in 1..n : m[k] = IF q[k].key = KeyOf[s] THEN m[k - 1] ELSE Append(m[k - 1], q[k])
  <2>1. 0 \in 0..Len(q)
    BY <1>1
  <2>2. ASSUME NEW k \in 1..n PROVE k \in 0..Len(q) /\ k # 0
    BY <1>1
  <2> QED BY <2>1, <2>2, <1>12, Zenon
<1>15. PICK J : J = {k \in 0..n : m[k] = g[k]}
  OBVIOUS
<1>16. n \in J
  <2>1. 0 \in J
    BY <1>7, <1>14, <1>15, 0 \in 0..n
  <2>2. \A k \in 1..n : k - 1 \in J => k \in J
    BY <1>8, <1>14, <1>15
  <2> Climbs(J, n)
    BY <2>1, <2>2 DEF Climbs
  <2> QED BY StepByStep
<1> QED BY <1>1, <1>9, <1>13, <1>15, <1>16

LEMMA OthersOf ==
    ASSUME NEW s, NEW q \in Seq(StateEntry), NEW g, KeepsOthers(g, s, q)
    PROVE  Others(s, q) = g[Len(q)]
<1>1. PICK m : KeepsOthers(m, s, q) /\ Others(s, q) = m[Len(q)]
  BY OthersRun
<1>2. PICK n \in Nat : n = Len(q)
  OBVIOUS
<1>3. PICK J : J = {k \in 0..n : m[k] = g[k]}
  OBVIOUS
<1>4. n \in J
  <2>1. 0 \in J
    BY <1>1, <1>2, <1>3 DEF KeepsOthers
  <2>2. ASSUME NEW k \in 1..n, k - 1 \in J PROVE k \in J
    <3>1. m[k] = IF q[k].key = KeyOf[s] THEN m[k - 1] ELSE Append(m[k - 1], q[k])
      BY <1>1, <1>2 DEF KeepsOthers
    <3>2. g[k] = IF q[k].key = KeyOf[s] THEN g[k - 1] ELSE Append(g[k - 1], q[k])
      BY <1>2 DEF KeepsOthers
    <3>3. m[k - 1] = g[k - 1] /\ k \in 0..n
      BY <2>2, <1>3
    <3> QED BY <3>1, <3>2, <3>3, <1>3
  <2> Climbs(J, n)
    BY <2>1, <2>2 DEF Climbs
  <2> QED BY StepByStep
<1> QED BY <1>1, <1>2, <1>3, <1>4

\* Without an entry of its own a service keeps all.
LEMMA OthersOfOthers ==
    ASSUME NEW s, NEW q \in Seq(StateEntry), \A i \in 1..Len(q) : q[i].key # KeyOf[s]
    PROVE  Others(s, q) = q
<1>1. PICK g : KeepsOthers(g, s, q) /\ Others(s, q) = g[Len(q)]
  BY OthersRun
<1>2. PICK n \in Nat : n = Len(q)
  OBVIOUS
<1>3. PICK J : J = {k \in 0..n : Len(g[k]) = k /\ \A i \in 1..k : g[k][i] = q[i]}
  OBVIOUS
<1>4. 0 \in J
  BY <1>1, <1>2, <1>3 DEF KeepsOthers
<1>5. ASSUME NEW k \in 1..n, k - 1 \in J PROVE k \in J
  <2>1. PICK p \in Seq(StateEntry) : p = g[k - 1] /\ Len(p) = k - 1 /\ \A i \in 1..(k - 1) : p[i] = q[i]
    BY <1>1, <1>2, <1>3, <1>5 DEF KeepsOthers
  <2>2. PICK r : r = g[k] /\ r = Append(p, q[k])
    BY <1>1, <1>2, <2>1 DEF KeepsOthers
  <2>3. q[k] \in StateEntry
    BY <1>2
  <2>4. Len(r) = k /\ r[k] = q[k] /\ \A i \in 1..(k - 1) : r[i] = q[i]
    BY <2>1, <2>2, <2>3, AppendProperties
  <2>5. \A i \in 1..k : r[i] = q[i]
    BY <2>4
  <2>6. k \in 0..n
    OBVIOUS
  <2> QED BY <2>2, <2>4, <2>5, <2>6, <1>3
<1>6. n \in J
  <2> Climbs(J, n)
    BY <1>4, <1>5 DEF Climbs
  <2> QED BY StepByStep
<1>7. PICK r \in Seq(StateEntry) : r = g[n]
  BY <1>1, <1>2 DEF KeepsOthers
<1>8. Len(r) = Len(q) /\ \A i \in 1..Len(q) : r[i] = q[i]
  BY <1>2, <1>3, <1>6, <1>7
<1>9. r = q
  BY <1>8, SeqEqual
<1> QED BY <1>1, <1>2, <1>7, <1>9

LEMMA OthersType ==
    ASSUME NEW s, NEW q \in Seq(StateEntry)
    PROVE  /\ Others(s, q) \in Seq(StateEntry)
           /\ \A i \in 1..Len(Others(s, q)) : /\ Others(s, q)[i].key # KeyOf[s]
                                              /\ \E j \in 1..Len(q) : Others(s, q)[i] = q[j]
<1>1. PICK g : KeepsOthers(g, s, q) /\ Others(s, q) = g[Len(q)]
  BY OthersRun
<1>2. PICK n \in Nat : n = Len(q)
  OBVIOUS
<1> DEFINE fits(r) == \A i \in 1..Len(r) : r[i].key # KeyOf[s] /\ \E j \in 1..n : r[i] = q[j]
<1>3. PICK J : J = {k \in 0..n : fits(g[k])}
  OBVIOUS
<1>4. 0 \in J
  BY <1>1, <1>2, <1>3 DEF KeepsOthers
<1>5. ASSUME NEW k \in 1..n, k - 1 \in J PROVE k \in J
  <2>1. PICK p \in Seq(StateEntry) : p = g[k - 1] /\ fits(p)
    BY <1>1, <1>2, <1>3, <1>5 DEF KeepsOthers
  <2>2. CASE q[k].key = KeyOf[s]
    <3>1. g[k] = p
      BY <2>1, <2>2, <1>1, <1>2 DEF KeepsOthers
    <3> HIDE DEF fits
    <3> QED BY <3>1, <2>1, <1>3
  <2>3. CASE q[k].key # KeyOf[s]
    <3>1. PICK r : r = g[k] /\ r = Append(p, q[k])
      BY <1>1, <1>2, <2>1, <2>3 DEF KeepsOthers
    <3>2. q[k] \in StateEntry
      BY <1>2
    <3>3. Len(r) = Len(p) + 1 /\ r[Len(p) + 1] = q[k] /\ \A i \in 1..Len(p) : r[i] = p[i]
      BY <2>1, <3>1, <3>2, AppendProperties
    <3>4. Len(p) \in Nat
      BY <2>1
    <3>5. fits(r)
      <4> SUFFICES ASSUME NEW i \in 1..Len(p) + 1 PROVE r[i].key # KeyOf[s] /\ \E j \in 1..n : r[i] = q[j]
        BY <3>3
      <4>1. CASE i \in 1..Len(p)
        BY <4>1, <2>1, <3>3
      <4>2. CASE i = Len(p) + 1
        BY <4>2, <2>3, <3>3
      <4> QED BY <4>1, <4>2, <3>4
    <3> HIDE DEF fits
    <3>6. k \in 0..n
      OBVIOUS
    <3> QED BY <3>1, <3>5, <3>6, <1>3, Zenon
  <2> QED BY <2>2, <2>3
<1>6. n \in J
  <2> Climbs(J, n)
    BY <1>4, <1>5 DEF Climbs
  <2> QED BY StepByStep
<1>7. fits(g[n]) /\ g[n] \in Seq(StateEntry)
  BY <1>1, <1>2, <1>3, <1>6 DEF KeepsOthers
<1> QED BY <1>1, <1>2, <1>7

LEMMA OthersTwice ==
    ASSUME NEW s, NEW q \in Seq(StateEntry)
    PROVE  Others(s, Others(s, q)) = Others(s, q)
<1>1. PICK r : r = Others(s, q)
  OBVIOUS
<1>2. r \in Seq(StateEntry) /\ \A i \in 1..Len(r) : r[i].key # KeyOf[s]
  BY <1>1, OthersType
<1> QED BY <1>1, <1>2, OthersOfOthers

\* An entry of its own in front makes no difference.
LEMMA OthersOwn ==
    ASSUME NEW s, NEW q \in Seq(StateEntry), NEW e \in StateEntry, e.key = KeyOf[s]
    PROVE  Others(s, <<e>> \o q) = Others(s, q)
<1>1. PICK p : p = <<e>> \o q
  OBVIOUS
<1>2. PICK n \in Nat : n = Len(q)
  OBVIOUS
<1>3. p \in Seq(StateEntry) /\ Len(p) = n + 1 /\ p[1] = e /\ \A i \in 1..n : p[i + 1] = q[i]
  <2>1. <<e>> \in Seq(StateEntry) /\ Len(<<e>>) = 1 /\ <<e>>[1] = e
    OBVIOUS
  <2> QED BY <2>1, <1>1, <1>2, ConcatProperties
<1>4. PICK g : KeepsOthers(g, s, q) /\ Others(s, q) = g[n]
  BY <1>2, OthersRun
<1>5. PICK h : h = [k \in 0..n + 1 |-> IF k = 0 THEN <<>> ELSE g[k - 1]]
  OBVIOUS
<1>6. KeepsOthers(h, s, p)
  <2>1. \A k \in 0..n : g[k] \in Seq(StateEntry)
    BY <1>2, <1>4 DEF KeepsOthers
  <2>2. h \in [0..n + 1 -> Seq(StateEntry)]
    BY <1>5, <2>1
  <2>3. ASSUME NEW k \in 1..n + 1
        PROVE  h[k] = IF p[k].key = KeyOf[s] THEN h[k - 1] ELSE Append(h[k - 1], p[k])
    <3>1. h[k] = g[k - 1]
      BY <1>5
    <3>2. CASE k = 1
      BY <3>1, <3>2, <1>3, <1>4, <1>5 DEF KeepsOthers
    <3>3. CASE k # 1
      <4>1. k - 1 \in 1..n /\ h[k - 1] = g[k - 2]
        BY <3>3, <1>5
      <4>2. PICK i \in 1..n : i = k - 1
        BY <4>1
      <4>3. p[k] = q[i]
        BY <4>2, <1>3
      <4>4. g[i] = IF q[i].key = KeyOf[s] THEN g[i - 1] ELSE Append(g[i - 1], q[i])
        BY <1>2, <1>4 DEF KeepsOthers
      <4>5. i - 1 = k - 2
        BY <4>2
      <4> QED BY <3>1, <4>1, <4>2, <4>3, <4>4, <4>5
    <3> QED BY <3>2, <3>3
  <2>4. h[0] = <<>>
    BY <1>5
  <2> QED BY <1>3, <2>2, <2>3, <2>4 DEF KeepsOthers
<1>7. Others(s, p) = h[n + 1]
  BY <1>3, <1>6, OthersOf
<1>8. h[n + 1] = g[n]
  BY <1>5
<1> QED BY <1>1, <1>4, <1>7, <1>8

Hop == [traceId : DtTraceId, priority : Nat \cup {NoPriority}, sampled : Decision,
        parentApp : Services \cup {"outside", NoOne}, raw : Seq(StateEntry),
        distributed : BOOLEAN, accepted : BOOLEAN]

\* The trace t, priority p and decision d are those of the transaction of u, which has
\* told them and keeps to them.
Agrees(hp, u, t, p, d) ==
    u \in Services =>
        /\ hp[u].distributed /\ hp[u].priority # NoPriority
        /\ Padded(t) = Padded(hp[u].traceId)
        /\ hp[u].priority > 0 => p = hp[u].priority
        /\ hp[u].priority > 0 /\ hp[u].sampled # "unset" => d = hp[u].sampled

StateAgrees(hp, q, t) == \A i \in 1..Len(q) : Agrees(hp, q[i].app, t, q[i].priority, q[i].sampled)

\* Whose entry is first has handed on the others it was given.
Passes(hp, q) ==
    \A u \in Services :
        q # <<>> /\ q[1].app = u => hp[u].distributed /\ Others(u, q) = Others(u, hp[u].raw)

PayloadAgrees(hp, p) ==
    p # NoPayload =>
        /\ p.app \in Services \cup {"outside"} /\ p.trace \in DtTraceId
        /\ p.priority \in Nat \cup {NoPriority} /\ p.sampled \in Decision
        /\ Agrees(hp, p.app, p.trace, p.priority, p.sampled)

MessageAgrees(hp, msg) ==
    /\ DOMAIN msg = MessageFields
    /\ msg.parent \in DtTraceId \cup {NoTrace, BadTrace}
    /\ msg.state \in Seq(StateEntry)
    /\ msg.parent \notin {NoTrace, BadTrace} => StateAgrees(hp, msg.state, msg.parent)
    /\ Passes(hp, msg.state)
    /\ PayloadAgrees(hp, msg.payload)

HopAgrees(hp, rd, o, s) ==
    /\ ~hp[s].distributed => hp[s].raw = <<>> /\ hp[s].parentApp = NoOne
    /\ hp[s].accepted => hp[s].distributed
    /\ StateAgrees(hp, hp[s].raw, hp[s].traceId)
    /\ s \notin rd => Passes(hp, hp[s].raw)
    /\ Agrees(hp, hp[s].parentApp, hp[s].traceId, hp[s].priority, hp[s].sampled)
    /\ hp[s].accepted /\ o[s].parent # NoTrace /\ o[s].wellFormed =>
           Others(s, hp[s].raw) = Others(s, o[s].state)

DtTyped ==
    /\ hop \in [Services -> Hop]
    /\ ready \subseteq Services
    /\ DOMAIN origin = Services

DtInv ==
    /\ DtTyped
    /\ \A s \in Services : HopAgrees(hop, ready, origin, s)
    /\ \A msg \in wire : MessageAgrees(hop, msg)

\* What others have been told stays.
Continues(h, g) ==
    h.distributed =>
        /\ g.distributed /\ g.traceId = h.traceId /\ g.raw = h.raw
        /\ h.priority # NoPriority => g.priority = h.priority /\ g.sampled = h.sampled

LEMMA AgreesStays ==
    ASSUME NEW hp, NEW hq, \A u \in Services : Continues(hp[u], hq[u]),
           NEW u, NEW t, NEW p, NEW d, Agrees(hp, u, t, p, d)
    PROVE  Agrees(hq, u, t, p, d)
<1> SUFFICES ASSUME u \in Services PROVE Agrees(hq, u, t, p, d)
  BY DEF Agrees
<1>1. PICK h : h = hp[u]
  OBVIOUS
<1>2. PICK g : g = hq[u]
  OBVIOUS
<1>3. /\ h.distributed /\ h.priority # NoPriority
      /\ Padded(t) = Padded(h.traceId)
      /\ h.priority > 0 => p = h.priority
      /\ h.priority > 0 /\ h.sampled # "unset" => d = h.sampled
  BY <1>1 DEF Agrees
<1>4. g.distributed /\ g.traceId = h.traceId /\ g.priority = h.priority /\ g.sampled = h.sampled
  BY <1>1, <1>2, <1>3 DEF Continues
<1> QED BY <1>2, <1>3, <1>4 DEF Agrees

LEMMA StateAgreesStays ==
    ASSUME NEW hp, NEW hq, \A u \in Services : Continues(hp[u], hq[u]),
           NEW q, NEW t, StateAgrees(hp, q, t)
    PROVE  StateAgrees(hq, q, t)
BY AgreesStays DEF StateAgrees

LEMMA PassesStays ==
    ASSUME NEW hp, NEW hq, \A u \in Services : Continues(hp[u], hq[u]), NEW q, Passes(hp, q)
    PROVE  Passes(hq, q)
<1> SUFFICES ASSUME NEW u \in Services, q # <<>>, q[1].app = u
             PROVE  hq[u].distributed /\ Others(u, q) = Others(u, hq[u].raw)
  BY DEF Passes
<1>1. hp[u].distributed /\ Others(u, q) = Others(u, hp[u].raw)
  BY DEF Passes
<1>2. hq[u].distributed /\ hq[u].raw = hp[u].raw
  BY <1>1 DEF Continues
<1> QED BY <1>1, <1>2

LEMMA MessageStays ==
    ASSUME NEW hp, NEW hq, \A u \in Services : Continues(hp[u], hq[u]), NEW msg, MessageAgrees(hp, msg)
    PROVE  MessageAgrees(hq, msg)
<1>1. PayloadAgrees(hq, msg.payload)
  BY AgreesStays DEF PayloadAgrees, MessageAgrees
<1>2. Passes(hq, msg.state)
  BY PassesStays DEF MessageAgrees
<1>3. msg.parent \notin {NoTrace, BadTrace} => StateAgrees(hq, msg.state, msg.parent)
  BY StateAgreesStays DEF MessageAgrees
<1> QED BY <1>1, <1>2, <1>3, Zenon DEF MessageAgrees

LEMMA HopStays ==
    ASSUME NEW hp, NEW hq, \A u \in Services : Continues(hp[u], hq[u]),
           NEW rd, NEW re, rd \subseteq re, NEW o, NEW s \in Services, NEW r,
           hq[s] = hp[s], r[s] = o[s], HopAgrees(hp, rd, o, s)
    PROVE  HopAgrees(hq, re, r, s)
<1>1. PICK h : h = hp[s] /\ h = hq[s]
  OBVIOUS
<1>2. StateAgrees(hq, h.raw, h.traceId)
  BY <1>1, StateAgreesStays DEF HopAgrees
<1>3. s \notin re => Passes(hq, h.raw)
  BY <1>1, PassesStays DEF HopAgrees
<1>4. Agrees(hq, h.parentApp, h.traceId, h.priority, h.sampled)
  BY <1>1, AgreesStays DEF HopAgrees
<1>5. /\ ~h.distributed => h.raw = <<>> /\ h.parentApp = NoOne
      /\ h.accepted => h.distributed
      /\ h.accepted /\ o[s].parent # NoTrace /\ o[s].wellFormed => Others(s, h.raw) = Others(s, o[s].state)
  BY <1>1, Zenon DEF HopAgrees
<1> QED BY <1>1, <1>2, <1>3, <1>4, <1>5, Zenon DEF HopAgrees

\* A step of one service's.
LEMMA OneHop ==
    ASSUME DtInv, NEW s \in Services, NEW g \in Hop, Continues(hop[s], g), NEW hq, hq = [hop EXCEPT ![s] = g],
           NEW r, \A u \in Services \ {s} : r[u] = origin[u]
    PROVE  /\ hq \in [Services -> Hop] /\ hq[s] = g
           /\ \A u \in Services : Continues(hop[u], hq[u])
           /\ \A u \in Services \ {s} : HopAgrees(hq, ready, r, u)
           /\ \A msg \in wire : MessageAgrees(hq, msg)
<1>1. hop \in [Services -> Hop]
  BY DEF DtInv, DtTyped
<1>2. hq \in [Services -> Hop] /\ hq[s] = g /\ \A u \in Services \ {s} : hq[u] = hop[u]
  BY <1>1
<1>3. ASSUME NEW u \in Services PROVE Continues(hop[u], hq[u])
  <2>1. CASE u = s
    BY <2>1, <1>2
  <2>2. CASE u # s
    <3>1. hq[u] = hop[u]
      BY <2>2, <1>2
    <3> QED BY <3>1 DEF Continues
  <2> QED BY <2>1, <2>2
<1>4. ASSUME NEW u \in Services \ {s} PROVE HopAgrees(hq, ready, r, u)
  <2>1. HopAgrees(hop, ready, origin, u)
    BY DEF DtInv
  <2>2. hq[u] = hop[u] /\ r[u] = origin[u] /\ u \in Services
    BY <1>2
  <2> QED BY <2>1, <2>2, <1>3, HopStays
<1>5. ASSUME NEW msg \in wire PROVE MessageAgrees(hq, msg)
  <2>1. MessageAgrees(hop, msg)
    BY DEF DtInv
  <2> QED BY <2>1, <1>3, MessageStays
<1> QED BY <1>2, <1>3, <1>4, <1>5

\* Deciding.
LEMMA DecidedHop ==
    ASSUME NEW h \in Hop, NEW d \in Decided(h)
    PROVE  /\ d \in Hop /\ d.traceId = h.traceId /\ d.parentApp = h.parentApp /\ d.raw = h.raw
           /\ d.distributed = h.distributed /\ d.accepted = h.accepted
           /\ h.priority # NoPriority => d = h
           /\ d.priority # NoPriority /\ (h.priority = NoPriority => d.sampled # "unset")
<1>1. CASE h.priority # NoPriority
  BY <1>1 DEF Decided
<1>2. CASE h.priority = NoPriority
  <2>1. PICK r \in PriorityRolls : \/ d = [h EXCEPT !.priority = r, !.sampled = "no"]
                                   \/ d = [h EXCEPT !.priority = r + Boost, !.sampled = "yes"]
    BY <1>2 DEF Decided
  <2>2. r \in Nat
    BY DistributedTraceAssumption DEF Boost
  <2>3. PICK p, y : d = [h EXCEPT !.priority = p, !.sampled = y] /\ p \in Nat /\ y \in {"no", "yes"}
    <3>1. CASE d = [h EXCEPT !.priority = r, !.sampled = "no"]
      BY <3>1, <2>2
    <3>2. CASE d = [h EXCEPT !.priority = r + Boost, !.sampled = "yes"]
      <4>1. PICK p : p = r + Boost
        OBVIOUS
      <4>2. p \in Nat
        BY <4>1, <2>2 DEF Boost
      <4>3. d = [h EXCEPT !.priority = p, !.sampled = "yes"]
        BY <3>2, <4>1
      <4> QED BY <4>2, <4>3
    <3> QED BY <2>1, <3>1, <3>2
  <2>4. y \in Decision /\ y # "unset" /\ p \in Nat \cup {NoPriority} /\ p # NoPriority
    BY <2>3 DEF Decision, NoPriority
  <2>5. d \in Hop
    BY <2>3, <2>4 DEF Hop
  <2>6. /\ d.traceId = h.traceId /\ d.parentApp = h.parentApp /\ d.raw = h.raw
        /\ d.distributed = h.distributed /\ d.accepted = h.accepted
        /\ d.priority = p /\ d.sampled = y
    BY <2>3 DEF Hop
  <2> QED BY <1>2, <2>4, <2>5, <2>6
<1> QED BY <1>1, <1>2

LEMMA PreparedHop ==
    ASSUME NEW h \in Hop, NEW d \in Prepared(h)
    PROVE  /\ d \in Hop /\ d.traceId = h.traceId /\ d.parentApp = h.parentApp /\ d.raw = h.raw
           /\ d.distributed /\ d.accepted = h.accepted
           /\ h.priority # NoPriority => d.priority = h.priority /\ d.sampled = h.sampled
           /\ d.priority # NoPriority /\ (h.priority = NoPriority => d.sampled # "unset")
<1>1. PICK c \in Decided(h) : d = [c EXCEPT !.distributed = TRUE]
  BY DEF Prepared
<1>2. /\ c \in Hop /\ c.traceId = h.traceId /\ c.parentApp = h.parentApp /\ c.raw = h.raw
      /\ c.distributed = h.distributed /\ c.accepted = h.accepted
      /\ h.priority # NoPriority => c = h
      /\ c.priority # NoPriority /\ (h.priority = NoPriority => c.sampled # "unset")
  BY DecidedHop
<1> QED BY <1>1, <1>2 DEF Hop

\* A decision that is taken late is still the one its parent took, if that took any.
LEMMA DecidedAgrees ==
    ASSUME DtInv, NEW s \in Services, NEW h, h = hop[s], NEW g \in Hop, NEW hq, hq = [hop EXCEPT ![s] = g],
           g.traceId = h.traceId, g.parentApp = h.parentApp, g.raw = h.raw, g.accepted = h.accepted,
           h.distributed => g.distributed,
           h.priority # NoPriority => g.priority = h.priority /\ g.sampled = h.sampled
    PROVE  /\ Continues(h, g)
           /\ HopAgrees(hq, ready, origin, s)
<1>1. Continues(h, g)
  BY DEF Continues
<1>2. hq[s] = g /\ \A u \in Services : Continues(hop[u], hq[u])
  BY <1>1, OneHop
<1>3. HopAgrees(hop, ready, origin, s)
  BY DEF DtInv
<1>4. StateAgrees(hq, g.raw, g.traceId)
  BY <1>2, <1>3, StateAgreesStays DEF HopAgrees
<1>5. s \notin ready => Passes(hq, g.raw)
  BY <1>2, <1>3, PassesStays DEF HopAgrees
<1>6. Agrees(hq, g.parentApp, g.traceId, g.priority, g.sampled)
  <2>1. Agrees(hop, h.parentApp, h.traceId, h.priority, h.sampled)
    BY <1>3 DEF HopAgrees
  <2>2. CASE h.priority # NoPriority
    <3>1. Agrees(hop, g.parentApp, g.traceId, g.priority, g.sampled)
      BY <2>1, <2>2
    <3> QED BY <3>1, <1>2, AgreesStays
  <2>3. CASE h.priority = NoPriority
    <3> SUFFICES ASSUME NEW u \in Services, u = g.parentApp PROVE Agrees(hq, u, g.traceId, g.priority, g.sampled)
      BY DEF Agrees
    <3>1. Agrees(hop, u, g.traceId, h.priority, h.sampled)
      BY <2>1
    <3>2. u # s
      BY <2>3, <3>1 DEF Agrees
    <3>3. hq[u] = hop[u]
      BY <3>2 DEF DtInv, DtTyped
    <3>4. ~(hop[u].priority > 0)
      BY <2>3, <3>1 DEF Agrees, NoPriority
    <3> QED BY <3>1, <3>3, <3>4 DEF Agrees
  <2> QED BY <2>2, <2>3
<1>7. /\ ~g.distributed => g.raw = <<>> /\ g.parentApp = NoOne
      /\ g.accepted => g.distributed
      /\ g.accepted /\ origin[s].parent # NoTrace /\ origin[s].wellFormed => Others(s, g.raw) = Others(s, origin[s].state)
  BY <1>3, Zenon DEF HopAgrees
<1> QED BY <1>1, <1>2, <1>4, <1>5, <1>6, <1>7, Zenon DEF HopAgrees

LEMMA OwnEntryIsEntry ==
    ASSUME NEW s \in Services, NEW h \in Hop
    PROVE  OwnEntry(s, h) \in StateEntry /\ OwnEntry(s, h).key = KeyOf[s] /\ OwnEntry(s, h).app = s
<1>1. PICK d : d = (IF h.sampled = "yes" THEN "yes" ELSE "no")
  OBVIOUS
<1>2. PICK p : p = (IF h.priority = 0 THEN NoPriority ELSE h.priority)
  OBVIOUS
<1>3. d \in Decision /\ p \in Nat \cup {NoPriority}
  BY <1>1, <1>2 DEF Decision, Hop
<1>4. OwnEntry(s, h) = [key |-> KeyOf[s], app |-> s, valid |-> TRUE, sampled |-> d, priority |-> p]
  BY <1>1, <1>2 DEF OwnEntry
<1> QED BY <1>3, <1>4 DEF StateEntry

LEMMA CreatedAgrees ==
    ASSUME DtInv, NEW s \in Services, NEW g \in Hop, g.distributed, g.priority # NoPriority,
           NEW hq, hq = [hop EXCEPT ![s] = g], \A u \in Services : Continues(hop[u], hq[u]),
           HopAgrees(hq, ready, origin, s), NEW t, Padded(t) = Padded(g.traceId)
    PROVE  /\ CreatedState(s, g) \in Seq(StateEntry)
           /\ StateAgrees(hq, CreatedState(s, g), t)
           /\ Passes(hq, CreatedState(s, g))
           /\ PayloadAgrees(hq, CreatedPayload(s, g))
<1>1. hq[s] = g
  BY DEF DtInv, DtTyped
<1>2. g.raw \in Seq(StateEntry) /\ StateAgrees(hq, g.raw, g.traceId)
  BY <1>1 DEF HopAgrees, Hop
<1>3. StateAgrees(hq, g.raw, t)
  BY <1>2 DEF StateAgrees, Agrees
<1>4. PICK q : q = CreatedState(s, g)
  OBVIOUS
<1>5. CASE s \notin ready
  <2>1. q = g.raw /\ Passes(hq, q)
    BY <1>1, <1>4, <1>5 DEF CreatedState, HopAgrees
  <2>2. CreatedPayload(s, g) = NoPayload
    BY <1>5 DEF CreatedPayload
  <2> QED BY <2>1, <2>2, <1>2, <1>3, <1>4 DEF PayloadAgrees
<1>6. CASE s \in ready
  <2>1. PICK e \in StateEntry : e = OwnEntry(s, g) /\ e.key = KeyOf[s] /\ e.app = s
    BY OwnEntryIsEntry
  <2>2. q = <<e>> \o g.raw
    BY <2>1, <1>4, <1>6 DEF CreatedState
  <2>3. PICK n \in Nat : n = Len(g.raw)
    BY <1>2
  <2>4. q \in Seq(StateEntry) /\ Len(q) = n + 1 /\ q[1] = e /\ \A i \in 1..n : q[i + 1] = g.raw[i]
    <3>1. <<e>> \in Seq(StateEntry) /\ Len(<<e>>) = 1 /\ <<e>>[1] = e
      OBVIOUS
    <3> QED BY <3>1, <2>2, <2>3, <1>2, ConcatProperties
  <2>5. Agrees(hq, s, t, e.priority, e.sampled)
    <3>1. e.priority = (IF g.priority = 0 THEN NoPriority ELSE g.priority)
      BY <2>1 DEF OwnEntry
    <3>2. e.sampled = (IF g.sampled = "yes" THEN "yes" ELSE "no")
      BY <2>1 DEF OwnEntry
    <3>3. g.sampled \in {"unset", "yes", "no"}
      BY DEF Hop, Decision
    <3> QED BY <3>1, <3>2, <3>3, <1>1 DEF Agrees
  <2>6. StateAgrees(hq, q, t)
    <3> SUFFICES ASSUME NEW i \in 1..n + 1 PROVE Agrees(hq, q[i].app, t, q[i].priority, q[i].sampled)
      BY <2>4 DEF StateAgrees
    <3>1. CASE i = 1
      BY <3>1, <2>1, <2>4, <2>5
    <3>2. CASE i # 1
      <4>1. PICK j \in 1..n : i = j + 1
        BY <3>2
      <4>2. q[i] = g.raw[j]
        BY <4>1, <2>4
      <4> QED BY <4>1, <4>2, <1>3, <2>3 DEF StateAgrees
    <3> QED BY <3>1, <3>2
  <2>7. Passes(hq, q)
    <3> SUFFICES ASSUME NEW u \in Services, q[1].app = u
                 PROVE  hq[u].distributed /\ Others(u, q) = Others(u, hq[u].raw)
      BY DEF Passes
    <3>1. u = s
      BY <2>1, <2>4
    <3>2. Others(s, q) = Others(s, g.raw)
      BY <2>1, <2>2, <1>2, OthersOwn
    <3> QED BY <3>1, <3>2, <1>1
  <2>8. PayloadAgrees(hq, CreatedPayload(s, g))
    <3>1. PICK p : p = CreatedPayload(s, g)
      OBVIOUS
    <3>2. p.app = s /\ p.trace = g.traceId /\ p.priority = g.priority /\ p.sampled = g.sampled
      BY <3>1, <1>6 DEF CreatedPayload
    <3>3. /\ g.traceId \in DtTraceId /\ g.priority \in Nat \cup {NoPriority} /\ g.sampled \in Decision
      BY DEF Hop
    <3>4. Agrees(hq, s, g.traceId, g.priority, g.sampled)
      BY <1>1 DEF Agrees
    <3> QED BY <3>1, <3>2, <3>3, <3>4 DEF PayloadAgrees
  <2> QED BY <2>4, <2>6, <2>7, <2>8, <1>4
<1> QED BY <1>5, <1>6

LEMMA DtInitOK == DtInit => DtInv
<1> SUFFICES ASSUME DtInit PROVE DtInv
  OBVIOUS
<1>1. ASSUME NEW s \in Services PROVE NewHop(s) \in Hop
  <2>1. [by |-> s, wide |-> TRUE] \in DtTraceId
    BY DEF DtTraceId
  <2>2. <<>> \in Seq(StateEntry)
    OBVIOUS
  <2> QED BY <2>1, <2>2 DEF NewHop, Hop, Decision
<1>2. hop \in [Services -> Hop]
  BY <1>1 DEF DtInit
<1>3. DtTyped
  BY <1>2, DistributedTraceAssumption DEF DtInit, DtTyped
<1>4. ASSUME NEW s \in Services PROVE HopAgrees(hop, ready, origin, s)
  <2>1. /\ hop[s].raw = <<>> /\ hop[s].parentApp = NoOne /\ ~hop[s].distributed /\ ~hop[s].accepted
    BY DEF DtInit, NewHop
  <2>2. NoOne \notin Services
    BY DistributedTraceAssumption
  <2>3. StateAgrees(hop, hop[s].raw, hop[s].traceId)
    BY <2>1 DEF StateAgrees
  <2>4. Passes(hop, hop[s].raw)
    BY <2>1 DEF Passes
  <2>5. Agrees(hop, hop[s].parentApp, hop[s].traceId, hop[s].priority, hop[s].sampled)
    BY <2>1, <2>2 DEF Agrees
  <2> QED BY <2>1, <2>3, <2>4, <2>5, Zenon DEF HopAgrees
<1> QED BY <1>3, <1>4 DEF DtInv, DtInit

LEMMA OutsideAgrees ==
    ASSUME NEW msg \in OutsideMessages, NEW hp
    PROVE  MessageAgrees(hp, msg)
<1>1. IsOutside(msg) /\ "outside" \notin Services
  BY DistributedTraceAssumption
<1>2. msg.state \in Seq(StateEntry) /\ \A i \in 1..Len(msg.state) : msg.state[i].app = "outside"
  BY <1>1 DEF IsOutside
<1>3. StateAgrees(hp, msg.state, msg.parent)
  BY <1>1, <1>2 DEF StateAgrees, Agrees
<1>4. Passes(hp, msg.state)
  <2> SUFFICES ASSUME msg.state # <<>> PROVE msg.state[1].app \notin Services
    BY DEF Passes
  <2>1. 1 \in 1..Len(msg.state)
    BY <1>2
  <2> QED BY <2>1, <1>1, <1>2
<1>5. PayloadAgrees(hp, msg.payload)
  BY <1>1 DEF PayloadAgrees, IsOutside, Agrees
<1> QED BY <1>1, <1>2, <1>3, <1>4, <1>5, Zenon DEF MessageAgrees, IsOutside

\* What an accepted tracestate makes of a transaction without one.
TakesState(g, h, s, q) ==
    /\ g \in Hop /\ g.traceId = h.traceId /\ g.distributed = h.distributed /\ g.accepted = h.accepted
    /\ g.raw = IF s \in ready THEN Others(s, q) ELSE q
    /\ \/ g.parentApp = h.parentApp
       \/ \E i \in 1..Len(q) : g.parentApp = q[i].app /\ g.priority = q[i].priority /\ g.sampled = q[i].sampled

LEMMA StateTaken ==
    ASSUME NEW s \in Services, NEW h \in Hop, NEW q \in Seq(StateEntry)
    PROVE  TakesState(WithState(s, h, q), h, s, q)
<1>1. PICK kept : kept = (IF s \in ready THEN Others(s, q) ELSE q)
  OBVIOUS
<1>2. kept \in Seq(StateEntry)
  BY <1>1, OthersType
<1>3. PICK rest : rest = [h EXCEPT !.raw = kept]
  OBVIOUS
<1>4. /\ rest \in Hop /\ rest.traceId = h.traceId /\ rest.distributed = h.distributed /\ rest.accepted = h.accepted
      /\ rest.raw = kept /\ rest.parentApp = h.parentApp
  BY <1>2, <1>3 DEF Hop
<1>5. PICK mine : mine = {i \in DOMAIN q : s \in ready /\ IsMine(s, q, i) /\ q[i].valid}
  OBVIOUS
<1>6. WithState(s, h, q) = IF mine = {} THEN rest ELSE Adopted(rest, q[CHOOSE i \in mine : TRUE])
  <2>1. WithState(s, h, q) =
          IF {i \in DOMAIN q : s \in ready /\ IsMine(s, q, i) /\ q[i].valid} = {}
          THEN [h EXCEPT !.raw = IF s \in ready THEN Others(s, q) ELSE q]
          ELSE Adopted([h EXCEPT !.raw = IF s \in ready THEN Others(s, q) ELSE q],
                       q[CHOOSE i \in {i \in DOMAIN q : s \in ready /\ IsMine(s, q, i) /\ q[i].valid} : TRUE])
    BY Zenon DEF WithState
  <2>2. rest = [h EXCEPT !.raw = IF s \in ready THEN Others(s, q) ELSE q]
    BY <1>1, <1>3
  <2> QED BY <2>1, <2>2, <1>5
<1>7. CASE mine = {}
  <2>1. WithState(s, h, q) = rest
    BY <1>6, <1>7
  <2> QED BY <2>1, <1>1, <1>4 DEF TakesState
<1>8. CASE mine # {}
  <2>1. PICK i \in mine : i = CHOOSE j \in mine : TRUE
    BY <1>8
  <2>2. PICK e : e = q[i]
    OBVIOUS
  <2>3. i \in 1..Len(q)
    BY <1>5
  <2>4. e \in StateEntry
    BY <2>2, <2>3
  <2>5. PICK g : g = Adopted(rest, e)
    OBVIOUS
  <2>6. WithState(s, h, q) = g
    BY <1>6, <1>8, <2>1, <2>2, <2>5
  <2>7. e.app \in Services \cup {"outside"} /\ e.sampled \in Decision /\ e.priority \in Nat \cup {NoPriority}
    BY <2>4 DEF StateEntry
  <2>8. /\ g \in Hop /\ g.traceId = rest.traceId /\ g.distributed = rest.distributed /\ g.accepted = rest.accepted
        /\ g.raw = rest.raw /\ g.parentApp = e.app /\ g.sampled = e.sampled /\ g.priority = e.priority
    <3>1. PICK a : a = [rest EXCEPT !.parentApp = e.app]
      OBVIOUS
    <3>2. /\ a \in Hop /\ a.traceId = rest.traceId /\ a.distributed = rest.distributed /\ a.accepted = rest.accepted
          /\ a.raw = rest.raw /\ a.parentApp = e.app
      BY <3>1, <2>7, <1>4 DEF Hop
    <3>3. PICK b : b = [a EXCEPT !.sampled = e.sampled]
      OBVIOUS
    <3>4. /\ b \in Hop /\ b.traceId = a.traceId /\ b.distributed = a.distributed /\ b.accepted = a.accepted
          /\ b.raw = a.raw /\ b.parentApp = a.parentApp /\ b.sampled = e.sampled
      BY <3>2, <3>3, <2>7 DEF Hop
    <3>5. PICK c : c = [b EXCEPT !.priority = e.priority]
      OBVIOUS
    <3>6. /\ c \in Hop /\ c.traceId = b.traceId /\ c.distributed = b.distributed /\ c.accepted = b.accepted
          /\ c.raw = b.raw /\ c.parentApp = b.parentApp /\ c.sampled = b.sampled /\ c.priority = e.priority
      BY <3>4, <3>5, <2>7 DEF Hop
    <3>7. g = c
      BY <2>5, <3>1, <3>3, <3>5 DEF Adopted
    <3> QED BY <3>2, <3>4, <3>6, <3>7
  <2> QED BY <2>2, <2>3, <2>6, <2>8, <1>1, <1>4 DEF TakesState
<1> QED BY <1>7, <1>8

LEMMA TracedHop ==
    ASSUME NEW h \in Hop, NEW t \in DtTraceId
    PROVE  LET g == [h EXCEPT !.traceId = t, !.accepted = TRUE, !.distributed = TRUE]
           IN  /\ g \in Hop /\ g.traceId = t /\ g.accepted /\ g.distributed
               /\ g.parentApp = h.parentApp /\ g.raw = h.raw
               /\ g.priority = h.priority /\ g.sampled = h.sampled
BY DEF Hop

\* The W3C headers.
LEMMA ContextAccepted ==
    ASSUME DtInv, NEW s \in Services, ~hop[s].distributed, NEW msg \in wire,
           msg.parent \notin {NoTrace, BadTrace},
           NEW g, g = WithContext(s, hop[s], msg),
           NEW hq, hq = [hop EXCEPT ![s] = g], NEW o, o = [origin EXCEPT ![s] = msg]
    PROVE  /\ g \in Hop /\ Continues(hop[s], g)
           /\ HopAgrees(hq, ready, o, s)
<1>1. PICK h \in Hop : h = hop[s]
  BY DEF DtInv, DtTyped
<1>2. Continues(hop[s], g)
  BY DEF Continues
<1>3. h.raw = <<>> /\ h.parentApp = NoOne /\ NoOne \notin Services
  BY <1>1, DistributedTraceAssumption DEF DtInv, HopAgrees
<1>4. /\ msg.parent \in DtTraceId /\ msg.state \in Seq(StateEntry)
      /\ StateAgrees(hop, msg.state, msg.parent) /\ Passes(hop, msg.state)
  BY DEF DtInv, MessageAgrees
<1>5. PICK traced : traced = [h EXCEPT !.traceId = msg.parent, !.accepted = TRUE, !.distributed = TRUE]
  OBVIOUS
<1>6. /\ traced \in Hop /\ traced.traceId = msg.parent /\ traced.accepted /\ traced.distributed
      /\ traced.parentApp = NoOne /\ traced.raw = <<>>
  BY <1>3, <1>4, <1>5, TracedHop
<1>7. g = IF msg.wellFormed THEN WithState(s, traced, msg.state) ELSE traced
  BY <1>1, <1>5, Zenon DEF WithContext
<1>8. o[s] = msg
  BY DEF DtInv, DtTyped
<1>9. CASE ~msg.wellFormed
  <2>1. g = traced
    BY <1>7, <1>9
  <2>2. hq[s] = g
    BY DEF DtInv, DtTyped
  <2>3. StateAgrees(hq, g.raw, g.traceId) /\ Passes(hq, g.raw)
    BY <2>1, <1>6 DEF StateAgrees, Passes
  <2>4. Agrees(hq, g.parentApp, g.traceId, g.priority, g.sampled)
    BY <2>1, <1>3, <1>6 DEF Agrees
  <2>5. HopAgrees(hq, ready, o, s)
    BY <2>1, <2>2, <2>3, <2>4, <1>6, <1>8, <1>9, Zenon DEF HopAgrees
  <2> QED BY <2>1, <2>5, <1>2, <1>6
<1>10. CASE msg.wellFormed
  <2>1. PICK q \in Seq(StateEntry) : q = msg.state
    BY <1>4
  <2>2. TakesState(g, traced, s, q)
    BY <2>1, <1>6, <1>7, <1>10, StateTaken
  <2>3. /\ g \in Hop /\ g.traceId = msg.parent /\ g.distributed /\ g.accepted
        /\ g.raw = IF s \in ready THEN Others(s, q) ELSE q
    BY <2>2, <1>6 DEF TakesState
  <2>4. \/ g.parentApp = NoOne
        \/ \E i \in 1..Len(q) : g.parentApp = q[i].app /\ g.priority = q[i].priority /\ g.sampled = q[i].sampled
    BY <2>2, <1>6 DEF TakesState
  <2>5. hq[s] = g /\ \A u \in Services : Continues(hop[u], hq[u])
    BY <2>3, <1>2, OneHop
  <2>6. StateAgrees(hop, q, g.traceId)
    BY <2>1, <2>3, <1>4
  <2>7. StateAgrees(hop, g.raw, g.traceId)
    <3>1. CASE s \notin ready
      BY <3>1, <2>3, <2>6
    <3>2. CASE s \in ready
      <4>1. PICK r : r = Others(s, q)
        OBVIOUS
      <4>2. \A i \in 1..Len(r) : \E j \in 1..Len(q) : r[i] = q[j]
        BY <4>1, OthersType
      <4>3. g.raw = r
        BY <4>1, <3>2, <2>3
      <4> QED BY <4>2, <4>3, <2>6 DEF StateAgrees
    <3> QED BY <3>1, <3>2
  <2>8. StateAgrees(hq, g.raw, g.traceId)
    BY <2>5, <2>7, StateAgreesStays
  <2>9. s \notin ready => Passes(hq, g.raw)
    <3> SUFFICES ASSUME s \notin ready PROVE Passes(hq, g.raw)
      OBVIOUS
    <3>1. g.raw = q /\ Passes(hop, q)
      BY <2>1, <2>3, <1>4
    <3> QED BY <3>1, <2>5, PassesStays
  <2>10. Agrees(hq, g.parentApp, g.traceId, g.priority, g.sampled)
    <3>1. CASE g.parentApp = NoOne
      BY <3>1, <1>3 DEF Agrees
    <3>2. CASE g.parentApp # NoOne
      <4>1. PICK i \in 1..Len(q) : g.parentApp = q[i].app /\ g.priority = q[i].priority /\ g.sampled = q[i].sampled
        BY <3>2, <2>4
      <4>2. Agrees(hop, q[i].app, g.traceId, q[i].priority, q[i].sampled)
        BY <2>6 DEF StateAgrees
      <4>3. Agrees(hop, g.parentApp, g.traceId, g.priority, g.sampled)
        BY <4>1, <4>2
      <4> QED BY <4>3, <2>5, AgreesStays
    <3> QED BY <3>1, <3>2
  <2>11. Others(s, g.raw) = Others(s, o[s].state)
    <3>1. o[s].state = q
      BY <2>1, <1>8
    <3> QED BY <3>1, <2>3, OthersTwice
  <2>12. HopAgrees(hq, ready, o, s)
    BY <2>3, <2>5, <2>8, <2>9, <2>10, <2>11, Zenon DEF HopAgrees
  <2> QED BY <2>3, <2>12, <1>2
<1> QED BY <1>9, <1>10

\* The newrelic header.
LEMMA PayloadAccepted ==
    ASSUME DtInv, NEW s \in Services, ~hop[s].distributed, NEW msg \in wire,
           msg.parent = NoTrace, ~PayloadRefused(s, msg.payload),
           NEW g, g = WithPayload(hop[s], msg.payload),
           NEW hq, hq = [hop EXCEPT ![s] = g], NEW o, o = [origin EXCEPT ![s] = msg]
    PROVE  /\ g \in Hop /\ Continues(hop[s], g)
           /\ HopAgrees(hq, ready, o, s)
<1>1. PICK h \in Hop : h = hop[s]
  BY DEF DtInv, DtTyped
<1>2. Continues(hop[s], g)
  BY DEF Continues
<1>3. h.raw = <<>>
  BY <1>1 DEF DtInv, HopAgrees
<1>4. PICK p : p = msg.payload
  OBVIOUS
<1>5. /\ p.app \in Services \cup {"outside"} /\ p.trace \in DtTraceId
      /\ p.priority \in Nat \cup {NoPriority} /\ p.sampled \in Decision
      /\ Agrees(hop, p.app, p.trace, p.priority, p.sampled)
  BY <1>4 DEF DtInv, MessageAgrees, PayloadAgrees, PayloadRefused
<1>6. PICK a : a = [h EXCEPT !.traceId = p.trace, !.parentApp = p.app, !.accepted = TRUE, !.distributed = TRUE]
  OBVIOUS
<1>7. /\ a \in Hop /\ a.traceId = p.trace /\ a.parentApp = p.app /\ a.accepted /\ a.distributed /\ a.raw = <<>>
      /\ a.sampled = h.sampled
  BY <1>3, <1>5, <1>6 DEF Hop
<1>8. g = IF p.priority \in {0, NoPriority} THEN a
          ELSE [a EXCEPT !.priority = p.priority, !.sampled = IF p.sampled = "unset" THEN @ ELSE p.sampled]
  BY <1>1, <1>4, <1>6, Zenon DEF WithPayload
<1>9. /\ g \in Hop /\ g.traceId = p.trace /\ g.parentApp = p.app /\ g.accepted /\ g.distributed /\ g.raw = <<>>
      /\ p.priority \notin {0, NoPriority} =>
            g.priority = p.priority /\ (p.sampled # "unset" => g.sampled = p.sampled)
  <2>1. CASE p.priority \in {0, NoPriority}
    BY <2>1, <1>7, <1>8
  <2>2. CASE p.priority \notin {0, NoPriority}
    <3>1. PICK y \in Decision : y = IF p.sampled = "unset" THEN a.sampled ELSE p.sampled
      BY <1>5, <1>7 DEF Hop
    <3>2. PICK b : b = [a EXCEPT !.priority = p.priority]
      OBVIOUS
    <3>3. /\ b \in Hop /\ b.traceId = a.traceId /\ b.parentApp = a.parentApp /\ b.accepted = a.accepted
          /\ b.distributed = a.distributed /\ b.raw = a.raw /\ b.priority = p.priority
      BY <3>2, <1>5, <1>7 DEF Hop
    <3>4. b.sampled = a.sampled
      BY <3>2, <1>7 DEF Hop
    <3>5. PICK c : c = [b EXCEPT !.sampled = y]
      OBVIOUS
    <3>6. /\ c \in Hop /\ c.traceId = b.traceId /\ c.parentApp = b.parentApp /\ c.accepted = b.accepted
          /\ c.distributed = b.distributed /\ c.raw = b.raw /\ c.priority = b.priority /\ c.sampled = y
      BY <3>3, <3>5 DEF Hop
    <3>7. g = c
      BY <2>2, <1>8, <3>1, <3>2, <3>4, <3>5
    <3> QED BY <3>1, <3>3, <3>6, <3>7, <1>7
  <2> QED BY <2>1, <2>2
<1>10. o[s] = msg
  BY DEF DtInv, DtTyped
<1>11. hq[s] = g /\ \A u \in Services : Continues(hop[u], hq[u])
  BY <1>2, <1>9, OneHop
<1>12. StateAgrees(hq, g.raw, g.traceId) /\ Passes(hq, g.raw)
  BY <1>9 DEF StateAgrees, Passes
<1>13. Agrees(hop, g.parentApp, g.traceId, g.priority, g.sampled)
  <2> SUFFICES ASSUME NEW u \in Services, u = p.app PROVE Agrees(hop, u, p.trace, g.priority, g.sampled)
    BY <1>9 DEF Agrees
  <2>1. hop[u].priority > 0 => p.priority \notin {0, NoPriority}
    BY <1>5 DEF Agrees, NoPriority
  <2>2. hop[u].priority > 0 /\ hop[u].sampled # "unset" => p.sampled # "unset"
    BY <1>5 DEF Agrees
  <2> QED BY <2>1, <2>2, <1>5, <1>9 DEF Agrees
<1>14. Agrees(hq, g.parentApp, g.traceId, g.priority, g.sampled)
  BY <1>11, <1>13, AgreesStays
<1>15. HopAgrees(hq, ready, o, s)
  BY <1>9, <1>10, <1>11, <1>12, <1>14, Zenon DEF HopAgrees
<1> QED BY <1>2, <1>9, <1>15

\* A step in which only s changes, and takes nothing in.
LEMMA QuietHop ==
    ASSUME DtInv, NEW s \in Services, NEW g \in Hop, Continues(hop[s], g),
           hop' = [hop EXCEPT ![s] = g], ready' = ready, origin' = origin,
           HopAgrees(hop', ready, origin, s), \A msg \in wire' : msg \in wire \/ MessageAgrees(hop', msg)
    PROVE  DtInv'
<1>1. PICK hq : hq = hop' /\ hq = [hop EXCEPT ![s] = g]
  OBVIOUS
<1>2. PICK r : r = origin
  OBVIOUS
<1>3. /\ hq \in [Services -> Hop]
      /\ \A u \in Services \ {s} : HopAgrees(hq, ready, r, u)
      /\ \A msg \in wire : MessageAgrees(hq, msg)
  BY <1>1, <1>2, OneHop
<1>4. DtTyped'
  BY <1>1, <1>3 DEF DtInv, DtTyped
<1>5. \A u \in Services : HopAgrees(hop', ready', origin', u)
  <2>1. HopAgrees(hq, ready, r, s)
    BY <1>1, <1>2
  <2>2. \A u \in Services : HopAgrees(hq, ready, r, u)
    BY <2>1, <1>3
  <2> QED BY <2>2, <1>1, <1>2
<1>6. \A msg \in wire' : MessageAgrees(hop', msg)
  BY <1>1, <1>3
<1> QED BY <1>4, <1>5, <1>6 DEF DtInv

LEMMA OutsideStep ==
    ASSUME DtInv, OutsideCall
    PROVE  DtInv'
<1>1. PICK msg \in OutsideMessages : wire' = wire \cup {msg}
  BY DEF OutsideCall
<1>2. MessageAgrees(hop, msg)
  BY OutsideAgrees
<1>3. hop' = hop /\ ready' = ready /\ origin' = origin
  BY DEF OutsideCall
<1>4. \A m \in wire' : MessageAgrees(hop', m)
  BY <1>1, <1>2, <1>3 DEF DtInv
<1>5. \A s \in Services : HopAgrees(hop', ready', origin', s)
  BY <1>3 DEF DtInv
<1>6. DtTyped'
  BY <1>3 DEF DtInv, DtTyped
<1> QED BY <1>4, <1>5, <1>6 DEF DtInv

LEMMA ConnectedStep ==
    ASSUME DtInv, NEW s \in Services, Connected(s)
    PROVE  DtInv'
<1>1. ready' = ready \cup {s} /\ hop' = hop /\ origin' = origin /\ wire' = wire
  BY DEF Connected
<1>2. PICK re : re = ready' /\ ready \subseteq re
  BY <1>1
<1>3. ASSUME NEW u \in Services PROVE HopAgrees(hop, re, origin, u)
  <2>1. HopAgrees(hop, ready, origin, u)
    BY DEF DtInv
  <2>2. \A v \in Services : Continues(hop[v], hop[v])
    BY DEF Continues
  <2> QED BY <2>1, <2>2, <1>2, HopStays
<1>4. \A u \in Services : HopAgrees(hop', ready', origin', u)
  BY <1>1, <1>2, <1>3
<1>5. \A m \in wire' : MessageAgrees(hop', m)
  BY <1>1 DEF DtInv
<1>6. DtTyped'
  BY <1>1 DEF DtInv, DtTyped
<1> QED BY <1>4, <1>5, <1>6 DEF DtInv

LEMMA DecideStep ==
    ASSUME DtInv, NEW s \in Services, Decide(s)
    PROVE  DtInv'
<1>1. PICK h \in Hop : h = hop[s]
  BY DEF DtInv, DtTyped
<1>2. PICK g \in Decided(h) : hop' = [hop EXCEPT ![s] = g]
  BY <1>1 DEF Decide
<1>3. g \in Hop /\ Continues(h, g) /\ HopAgrees(hop', ready, origin, s)
  <2>1. /\ g \in Hop /\ g.traceId = h.traceId /\ g.parentApp = h.parentApp /\ g.raw = h.raw
        /\ g.distributed = h.distributed /\ g.accepted = h.accepted
        /\ h.priority # NoPriority => g.priority = h.priority /\ g.sampled = h.sampled
    BY DecidedHop
  <2>2. PICK hq : hq = hop' /\ hq = [hop EXCEPT ![s] = g]
    BY <1>2
  <2>3. Continues(h, g) /\ HopAgrees(hq, ready, origin, s)
    BY <2>1, <2>2, <1>1, DecidedAgrees
  <2> QED BY <2>1, <2>2, <2>3
<1> QED BY <1>1, <1>2, <1>3, QuietHop DEF Decide

\* Outgoing headers, of either format.
LEMMA PreparedStep ==
    ASSUME DtInv, NEW s \in Services, NEW g \in Prepared(hop[s]), hop' = [hop EXCEPT ![s] = g]
    PROVE  /\ g \in Hop /\ g.distributed /\ Continues(hop[s], g)
           /\ HopAgrees(hop', ready, origin, s)
           /\ \A t : Padded(t) = Padded(g.traceId) =>
                 /\ CreatedState(s, g) \in Seq(StateEntry)
                 /\ StateAgrees(hop', CreatedState(s, g), t)
           /\ Passes(hop', CreatedState(s, g))
           /\ PayloadAgrees(hop', CreatedPayload(s, g))
<1>1. PICK h \in Hop : h = hop[s]
  BY DEF DtInv, DtTyped
<1>2. /\ g \in Hop /\ g.traceId = h.traceId /\ g.parentApp = h.parentApp /\ g.raw = h.raw
      /\ g.distributed /\ g.accepted = h.accepted
      /\ h.priority # NoPriority => g.priority = h.priority /\ g.sampled = h.sampled
      /\ g.priority # NoPriority
  BY <1>1, PreparedHop
<1>3. PICK hq : hq = hop' /\ hq = [hop EXCEPT ![s] = g]
  OBVIOUS
<1>4. Continues(h, g) /\ HopAgrees(hq, ready, origin, s)
  BY <1>1, <1>2, <1>3, DecidedAgrees
<1>5. \A u \in Services : Continues(hop[u], hq[u])
  BY <1>1, <1>2, <1>3, <1>4, OneHop
<1>6. ASSUME NEW t, Padded(t) = Padded(g.traceId)
      PROVE  /\ CreatedState(s, g) \in Seq(StateEntry)
             /\ StateAgrees(hq, CreatedState(s, g), t)
             /\ Passes(hq, CreatedState(s, g))
             /\ PayloadAgrees(hq, CreatedPayload(s, g))
  BY <1>2, <1>3, <1>4, <1>5, <1>6, CreatedAgrees
<1>7. /\ Passes(hq, CreatedState(s, g))
      /\ PayloadAgrees(hq, CreatedPayload(s, g))
  BY <1>6
<1> QED BY <1>1, <1>2, <1>3, <1>4, <1>6, <1>7

LEMMA PaddedTrace ==
    ASSUME NEW t \in DtTraceId
    PROVE  /\ Padded(t) \in DtTraceId \ {NoTrace, BadTrace} /\ Padded(Padded(t)) = Padded(t)
BY DistributedTraceAssumption DEF Padded, DtTraceId, NoTrace, BadTrace, NoOne

LEMMA InsertStep ==
    ASSUME DtInv, NEW s \in Services, InsertHeaders(s)
    PROVE  DtInv'
<1>1. PICK g \in Prepared(hop[s]) :
        LET msg == [parent |-> Padded(g.traceId), state |-> CreatedState(s, g), wellFormed |-> TRUE,
                    payload |-> IF s \in Excluding THEN NoPayload ELSE CreatedPayload(s, g)]
        IN  /\ hop' = [hop EXCEPT ![s] = g] /\ wire' = wire \cup {msg}
            /\ ready' = ready /\ origin' = origin
  BY Zenon DEF InsertHeaders
<1>2. PICK p : p = IF s \in Excluding THEN NoPayload ELSE CreatedPayload(s, g)
  OBVIOUS
<1>3. PICK msg : msg = [parent |-> Padded(g.traceId), state |-> CreatedState(s, g), wellFormed |-> TRUE, payload |-> p]
  OBVIOUS
<1>4. hop' = [hop EXCEPT ![s] = g] /\ wire' = wire \cup {msg} /\ ready' = ready /\ origin' = origin
  BY <1>1, <1>2, <1>3
<1>5. PICK t : t = Padded(g.traceId)
  OBVIOUS
<1>6. /\ g \in Hop /\ g.distributed /\ Continues(hop[s], g)
      /\ HopAgrees(hop', ready, origin, s)
      /\ Passes(hop', CreatedState(s, g))
      /\ PayloadAgrees(hop', CreatedPayload(s, g))
  BY <1>4, PreparedStep
<1>7. t \in DtTraceId \ {NoTrace, BadTrace} /\ Padded(t) = Padded(g.traceId)
  BY <1>5, <1>6, PaddedTrace DEF Hop
<1>8. CreatedState(s, g) \in Seq(StateEntry) /\ StateAgrees(hop', CreatedState(s, g), t)
  BY <1>4, <1>7, PreparedStep
<1>9. PayloadAgrees(hop', p)
  BY <1>2, <1>6 DEF PayloadAgrees
<1>10. /\ DOMAIN msg = MessageFields /\ msg.parent = t /\ msg.state = CreatedState(s, g) /\ msg.payload = p
  BY <1>3, <1>5 DEF MessageFields
<1>11. MessageAgrees(hop', msg)
  BY <1>6, <1>7, <1>8, <1>9, <1>10, Zenon DEF MessageAgrees
<1> QED BY <1>4, <1>6, <1>11, QuietHop

LEMMA CreateStep ==
    ASSUME DtInv, NEW s \in Services, CreatePayload(s)
    PROVE  DtInv'
<1>1. PICK g \in Prepared(hop[s]) :
        LET msg == [parent |-> NoTrace, state |-> <<>>, wellFormed |-> TRUE, payload |-> CreatedPayload(s, g)]
        IN  /\ hop' = [hop EXCEPT ![s] = g] /\ wire' = wire \cup {msg}
            /\ ready' = ready /\ origin' = origin
  BY Zenon DEF CreatePayload
<1>2. PICK p : p = CreatedPayload(s, g)
  OBVIOUS
<1>3. PICK msg : msg = [parent |-> NoTrace, state |-> <<>>, wellFormed |-> TRUE, payload |-> p]
  OBVIOUS
<1>4. hop' = [hop EXCEPT ![s] = g] /\ wire' = wire \cup {msg} /\ ready' = ready /\ origin' = origin
  BY <1>1, <1>2, <1>3
<1>5. /\ g \in Hop /\ g.distributed /\ Continues(hop[s], g)
      /\ HopAgrees(hop', ready, origin, s)
      /\ PayloadAgrees(hop', p)
  BY <1>2, <1>4, PreparedStep
<1>6. /\ DOMAIN msg = MessageFields /\ msg.parent = NoTrace /\ msg.state = <<>> /\ msg.payload = p
  BY <1>3 DEF MessageFields
<1>7. <<>> \in Seq(StateEntry) /\ Passes(hop', <<>>)
  BY DEF Passes
<1>8. MessageAgrees(hop', msg)
  BY <1>5, <1>6, <1>7, Zenon DEF MessageAgrees
<1> QED BY <1>4, <1>5, <1>8, QuietHop

LEMMA AcceptStep ==
    ASSUME DtInv, NEW s \in Services, NEW msg \in wire, AcceptHeaders(s, msg)
    PROVE  DtInv'
<1>1. ~hop[s].distributed
  BY DEF AcceptHeaders
<1>2. PICK g : /\ \/ msg.parent \notin {NoTrace, BadTrace} /\ g = WithContext(s, hop[s], msg)
                  \/ msg.parent = NoTrace /\ ~PayloadRefused(s, msg.payload) /\ g = WithPayload(hop[s], msg.payload)
               /\ hop' = [hop EXCEPT ![s] = g]
  BY DEF AcceptHeaders
<1>3. PICK hq : hq = hop' /\ hq = [hop EXCEPT ![s] = g]
  BY <1>2
<1>4. PICK o : o = origin' /\ o = [origin EXCEPT ![s] = msg]
  BY DEF AcceptHeaders
<1>5. g \in Hop /\ Continues(hop[s], g) /\ HopAgrees(hq, ready, o, s)
  BY <1>1, <1>2, <1>3, <1>4, ContextAccepted, PayloadAccepted
<1>6. DOMAIN o = Services /\ \A u \in Services \ {s} : o[u] = origin[u]
  BY <1>4 DEF DtInv, DtTyped
<1>7. /\ hq \in [Services -> Hop]
      /\ \A u \in Services \ {s} : HopAgrees(hq, ready, o, u)
      /\ \A m \in wire : MessageAgrees(hq, m)
  BY <1>3, <1>5, <1>6, OneHop
<1>8. ready' = ready /\ wire' = wire
  BY DEF AcceptHeaders
<1>9. DtTyped'
  BY <1>3, <1>4, <1>6, <1>7, <1>8 DEF DtInv, DtTyped
<1>10. \A u \in Services : HopAgrees(hop', ready', origin', u)
  BY <1>3, <1>4, <1>5, <1>7, <1>8
<1>11. \A m \in wire' : MessageAgrees(hop', m)
  BY <1>3, <1>7, <1>8
<1> QED BY <1>9, <1>10, <1>11 DEF DtInv

LEMMA DtInvariant == DtSpec => []DtInv
<1>1. DtInit => DtInv
  BY DtInitOK
<1>2. DtInv /\ [DtNext]_dtVars => DtInv'
  <2> SUFFICES ASSUME DtInv, [DtNext]_dtVars PROVE DtInv'
    OBVIOUS
  <2>1. CASE UNCHANGED dtVars
    BY <2>1 DEF DtInv, DtTyped, dtVars
  <2>2. CASE DtNext
    BY <2>2, OutsideStep, ConnectedStep, DecideStep, InsertStep, CreateStep, AcceptStep DEF DtNext
  <2> QED BY <2>1, <2>2
<1> QED BY <1>1, <1>2, PTL DEF DtSpec

\* For any services, keys, headers from outside and order of deliveries: a transaction with a
\* parent has that one's trace and decision, and others' entries are in all it hands on.
THEOREM TraceContextIsCorrect == DtSpec => []TraceContextCorrect
<1>1. DtInv => TraceContextCorrect
  <2> SUFFICES ASSUME DtInv PROVE TraceContextCorrect
    OBVIOUS
  <2>1. \A s \in Services : hop[s] \in Hop /\ HopAgrees(hop, ready, origin, s)
    BY DEF DtInv, DtTyped
  <2>2. DtTypeOK
    <3>1. ready \subseteq Services /\ \A msg \in wire : DOMAIN msg = MessageFields
      BY DEF DtInv, DtTyped, MessageAgrees
    <3>2. ASSUME NEW s \in Services
          PROVE  /\ hop[s].traceId \in DtTraceId
                 /\ hop[s].priority \in Nat \cup {NoPriority}
                 /\ hop[s].sampled \in Decision
                 /\ hop[s].parentApp \in Services \cup {"outside", NoOne}
                 /\ hop[s].accepted => hop[s].distributed
      BY <2>1 DEF Hop, HopAgrees
    <3> QED BY <3>1, <3>2 DEF DtTypeOK
  <2>3. OneDecision
    <3> SUFFICES ASSUME NEW s \in Services, NEW u \in Services, hop[s].parentApp = u
                 PROVE  /\ Padded(hop[s].traceId) = Padded(hop[u].traceId)
                        /\ hop[u].priority > 0 =>
                              /\ hop[s].priority = hop[u].priority
                              /\ hop[u].sampled # "unset" => hop[s].sampled = hop[u].sampled
      BY DEF OneDecision
    <3>1. Agrees(hop, u, hop[s].traceId, hop[s].priority, hop[s].sampled)
      BY <2>1 DEF HopAgrees
    <3> QED BY <3>1 DEF Agrees
  <2>4. VendorsPassedOn
    <3> SUFFICES ASSUME NEW s \in Services, NEW msg \in wire,
                        hop[s].accepted, origin[s].parent # NoTrace, origin[s].wellFormed,
                        msg.state # <<>>, Head(msg.state).app = s
                 PROVE  Others(s, msg.state) = Others(s, origin[s].state)
      BY DEF VendorsPassedOn
    <3>1. msg.state \in Seq(StateEntry) /\ Passes(hop, msg.state)
      BY DEF DtInv, MessageAgrees
    <3>2. msg.state[1].app = s
      BY <3>1
    <3>3. Others(s, msg.state) = Others(s, hop[s].raw)
      BY <3>1, <3>2 DEF Passes
    <3>4. Others(s, hop[s].raw) = Others(s, origin[s].state)
      BY <2>1 DEF HopAgrees
    <3> QED BY <3>3, <3>4
  <2> QED BY <2>2, <2>3, <2>4 DEF TraceContextCorrect
<1> QED BY <1>1, DtInvariant, PTL

\* Once others may have been told of a trace and its decision, neither changes, for any
\* services, keys and headers from outside.
THEOREM DecisionIsFinalCorrect == DtSpec => DecisionIsFinal
<1> DEFINE final == \A s \in Services :
                       hop[s].distributed /\ hop[s].priority # NoPriority =>
                           /\ hop'[s].traceId = hop[s].traceId
                           /\ hop'[s].priority = hop[s].priority
                           /\ hop'[s].sampled = hop[s].sampled
<1>1. DtInv /\ [DtNext]_dtVars => final
  <2> SUFFICES ASSUME DtInv, [DtNext]_dtVars,
                      NEW s \in Services, hop[s].distributed, hop[s].priority # NoPriority
               PROVE  /\ hop'[s].traceId = hop[s].traceId
                      /\ hop'[s].priority = hop[s].priority
                      /\ hop'[s].sampled = hop[s].sampled
    OBVIOUS
  <2> USE DEF DtInv, DtTyped
  <2>1. ASSUME NEW u \in Services, Decide(u)
        PROVE  hop'[s] = hop[s]
    BY <2>1 DEF Decide
  <2>2. ASSUME NEW u \in Services, NEW msg \in wire, AcceptHeaders(u, msg)
        PROVE  hop'[s] = hop[s]
    BY <2>2 DEF AcceptHeaders
  <2>3. ASSUME NEW u \in Services, InsertHeaders(u) \/ CreatePayload(u)
        PROVE  /\ hop'[s].traceId = hop[s].traceId
               /\ hop'[s].priority = hop[s].priority
               /\ hop'[s].sampled = hop[s].sampled
    <3>1. PICK h \in Prepared(hop[u]) : hop' = [hop EXCEPT ![u] = h]
      BY <2>3 DEF InsertHeaders, CreatePayload
    <3>2. hop[u] \in Hop
      OBVIOUS
    <3> QED  BY <3>1, <3>2, PreparedHop
  <2> QED  BY <2>1, <2>2, <2>3 DEF DtNext, dtVars, OutsideCall, Connected
<1>2. DtSpec => [][DtNext]_dtVars
  BY PTL DEF DtSpec
<1>3. DtInv /\ [DtNext]_dtVars => [final]_dtVars
  BY <1>1
<1> QED  BY <1>2, <1>3, DtInvariant, PTL DEF DecisionIsFinal
-----------------------------------------------------------------------------
\* The lives of transactions.
\* What names are made of.
Word == {"url", "backstop", "status", "route", "background", "custom", "userRule", "urlRule", "txRule", "terms"}
Name == Seq(Word)
Outcome == {"none", "rename", "ignore"}
LifeRecord ==
    [phase : {"none", "active", "ended"}, type : {"none", "web", "bg"}, http : BOOLEAN, url : BOOLEAN,
     route : BOOLEAN, partial : Name, name : Name, ignore : BOOLEAN, forceIgnore : {"unset", "yes", "no"},
     forceName : {NoName, <<"custom">>}, external : BOOLEAN, pending : BOOLEAN, threw : BOOLEAN,
     asked : BOOLEAN, recorded : Name, handed : Name]
RulesAreRules == rules \in [user : Outcome, url : Outcome, tx : Outcome, terms : BOOLEAN]

\* The API's name, and what the server's rules for transactions and its terms append to it.
OnlyTagged(n) ==
    /\ n # NoName /\ Head(n) = "custom"
    /\ \A i \in 2 .. Len(n) : n[i] \in {"txRule", "terms"}

LEMMA SomeNames ==
    /\ NoName \in Name
    /\ \A w \in {<<"url">>, <<"backstop">>, <<"status">>, <<"route">>, <<"background">>, <<"custom">>} :
          w \in Name /\ w # NoName
    /\ OnlyTagged(<<"custom">>)
<1>1. \A w \in Word : Append(<<>>, w) \in Name /\ Append(<<>>, w) # <<>>
  BY EmptySeq, AppendProperties DEF Name
<1>2. /\ <<"url">> = Append(<<>>, "url") /\ <<"backstop">> = Append(<<>>, "backstop")
      /\ <<"status">> = Append(<<>>, "status") /\ <<"route">> = Append(<<>>, "route")
      /\ <<"background">> = Append(<<>>, "background") /\ <<"custom">> = Append(<<>>, "custom")
  OBVIOUS
<1>3. NoName \in Name
  BY EmptySeq DEF NoName, Name
<1>4. OnlyTagged(<<"custom">>)
  <2>1. Len(<<"custom">>) = 1 /\ Head(<<"custom">>) = "custom" /\ <<"custom">> # <<>>
    OBVIOUS
  <2>2. 2 .. 1 = {}
    OBVIOUS
  <2> QED  BY <2>1, <2>2 DEF OnlyTagged, NoName
<1> QED  BY <1>1, <1>2, <1>3, <1>4 DEF NoName, Word

\* A rule's tag goes to the end of a name.
LEMMA Tagged ==
    ASSUME NEW n \in Name, NEW tag \in Word
    PROVE  /\ Append(n, tag) \in Name /\ Append(n, tag) # NoName
           /\ n # NoName => Head(Append(n, tag)) = Head(n)
           /\ tag \in {"txRule", "terms"} /\ OnlyTagged(n) => OnlyTagged(Append(n, tag))
<1>1. /\ Append(n, tag) \in Name /\ Append(n, tag) # NoName
      /\ n # NoName => Head(Append(n, tag)) = Head(n)
  BY AppendProperties, HeadTailAppend DEF Name, NoName
<1>2. PICK k \in Nat : k = Len(n)
  BY LenProperties DEF Name
<1>3. /\ Len(Append(n, tag)) = k + 1 /\ Append(n, tag)[k + 1] = tag
      /\ \A i \in 1 .. k : Append(n, tag)[i] = n[i]
  BY <1>2, AppendProperties DEF Name
<1>4. \A i \in 2 .. k + 1 : i = k + 1 \/ (i \in 2 .. k /\ i \in 1 .. k)
  BY <1>2
<1>5. tag \in {"txRule", "terms"} /\ OnlyTagged(n) => OnlyTagged(Append(n, tag))
  <2> SUFFICES ASSUME tag \in {"txRule", "terms"}, OnlyTagged(n)
               PROVE  \A i \in 2 .. k + 1 : Append(n, tag)[i] \in {"txRule", "terms"}
    BY <1>1, <1>3 DEF OnlyTagged
  <2>1. \A i \in 2 .. k : n[i] \in {"txRule", "terms"}
    BY <1>2 DEF OnlyTagged
  <2> QED  BY ONLY <1>3, <1>4, <2>1, tag \in {"txRule", "terms"}
<1> QED  BY <1>1, <1>5

LEMMA AppliedIsName ==
    ASSUME NEW rule \in Outcome, NEW tag \in Word, NEW n \in Name, n # NoName
    PROVE  /\ Applied(rule, tag, n).value \in Name /\ Applied(rule, tag, n).value # NoName
           /\ Head(Applied(rule, tag, n).value) = Head(n)
           /\ tag = "txRule" /\ OnlyTagged(n) => OnlyTagged(Applied(rule, tag, n).value)
           /\ Applied(rule, tag, n).matched \in BOOLEAN /\ Applied(rule, tag, n).ignore \in BOOLEAN
           /\ Applied(rule, tag, n).matched <=> rule = "rename"
BY Tagged DEF Applied

LEMMA UserRulesName ==
    ASSUME RulesAreRules
    PROVE  /\ RunUserNamingRules.value \in Name /\ RunUserNamingRules.value # NoName
           /\ RunUserNamingRules.matched \in BOOLEAN /\ RunUserNamingRules.ignore \in BOOLEAN
           /\ RunUserNamingRules.matched => rules.user = "rename"
<1> DEFINE user == Applied(rules.user, "userRule", <<"url">>)
           server == Applied(rules.url, "urlRule", user.value)
<1>1. rules.user \in Outcome /\ rules.url \in Outcome
  BY DEF RulesAreRules
<1>2. <<"url">> \in Name /\ <<"url">> # NoName
  BY SomeNames
<1>3. /\ user.value \in Name /\ user.value # NoName /\ user.matched \in BOOLEAN /\ user.ignore \in BOOLEAN
      /\ user.matched <=> rules.user = "rename"
  BY <1>1, <1>2, AppliedIsName DEF Word
<1>4. /\ server.value \in Name /\ server.value # NoName /\ server.ignore \in BOOLEAN
      /\ DOMAIN server = {"matched", "ignore", "value"}
  <2> HIDE DEF user
  <2>1. server.value \in Name /\ server.value # NoName /\ server.ignore \in BOOLEAN
    BY <1>1, <1>3, AppliedIsName DEF Word
  <2> QED  BY <2>1 DEF Applied
<1>5. RunUserNamingRules = IF user.matched THEN [server EXCEPT !.matched = TRUE] ELSE user
  BY DEF RunUserNamingRules
<1>7. DOMAIN server = {"matched", "ignore", "value"}
  BY DEF Applied
<1> HIDE DEF user, server
<1>6. /\ [server EXCEPT !.matched = TRUE].matched /\ [server EXCEPT !.matched = TRUE].ignore = server.ignore
      /\ [server EXCEPT !.matched = TRUE].value = server.value
  BY <1>7
<1> QED  BY <1>3, <1>4, <1>5, <1>6

LEMMA UrlNameIsName ==
    ASSUME RulesAreRules
    PROVE  UrlName.value \in Name /\ UrlName.value # NoName /\ UrlName.ignore \in BOOLEAN
           /\ DOMAIN UrlName = {"matched", "ignore", "value"}
<1> DEFINE server == Applied(rules.url, "urlRule", <<"url">>)
<1>1. rules.url \in Outcome
  BY DEF RulesAreRules
<1>2. <<"url">> \in Name /\ <<"url">> # NoName /\ <<"backstop">> \in Name /\ <<"backstop">> # NoName
  BY SomeNames
<1>3. /\ server.value \in Name /\ server.value # NoName /\ server.ignore \in BOOLEAN
      /\ DOMAIN server = {"matched", "ignore", "value"}
  <2>1. server.value \in Name /\ server.value # NoName /\ server.ignore \in BOOLEAN
    BY <1>1, <1>2, AppliedIsName DEF Word
  <2> QED  BY <2>1 DEF Applied
<1>4. UrlName = IF server.matched THEN server ELSE [server EXCEPT !.value = <<"backstop">>]
  BY DEF UrlName
<1> HIDE DEF server
<1>5. /\ [server EXCEPT !.value = <<"backstop">>].value = <<"backstop">>
      /\ [server EXCEPT !.value = <<"backstop">>].ignore = server.ignore
      /\ DOMAIN [server EXCEPT !.value = <<"backstop">>] = DOMAIN server
  BY <1>3
<1> QED  BY <1>2, <1>3, <1>4, <1>5

\* The partial name of a request: the API's name unless a rule of the user's renames the URL.
LEMMA PartialIsName ==
    ASSUME RulesAreRules, NEW x \in LifeRecord, NEW bad \in BOOLEAN
    PROVE  /\ PartialNameFromUri(x, bad).value \in Name /\ PartialNameFromUri(x, bad).value # NoName
           /\ PartialNameFromUri(x, bad).ignore \in BOOLEAN
           /\ x.forceName # NoName /\ rules.user # "rename" =>
                 PartialNameFromUri(x, bad).value = x.forceName
<1> DEFINE user == RunUserNamingRules
           p == PartialNameFromUri(x, bad)
<1>1. /\ user.value \in Name /\ user.value # NoName /\ user.matched \in BOOLEAN /\ user.ignore \in BOOLEAN
      /\ user.matched => rules.user = "rename"
  BY UserRulesName
<1>2. DOMAIN user = {"matched", "ignore", "value"}
  BY DEF RunUserNamingRules, Applied
<1>3. /\ UrlName.value \in Name /\ UrlName.value # NoName /\ UrlName.ignore \in BOOLEAN
      /\ DOMAIN UrlName = {"matched", "ignore", "value"}
  BY UrlNameIsName
<1>4. GivenName(x) \in Name /\ (x.forceName # NoName => GivenName(x) = x.forceName)
  BY SomeNames DEF GivenName, LifeRecord
<1>5. <<"status">> \in Name /\ <<"status">> # NoName
  BY SomeNames
<1> HIDE DEF user
<1>6. p = CASE user.matched -> user
            [] ~user.matched /\ GivenName(x) # NoName -> [user EXCEPT !.value = GivenName(x)]
            [] ~user.matched /\ GivenName(x) = NoName /\ bad -> [user EXCEPT !.value = <<"status">>]
            [] OTHER -> [UrlName EXCEPT !.ignore = @ \/ user.ignore]
  BY Zenon DEF PartialNameFromUri, user
<1>7. CASE user.matched
  <2>1. p = user
    BY <1>6, <1>7
  <2> QED  BY <1>1, <1>7, <2>1
<1>8. CASE ~user.matched /\ GivenName(x) # NoName
  <2>1. p = [user EXCEPT !.value = GivenName(x)]
    BY <1>6, <1>8
  <2>2. p.value = GivenName(x) /\ p.ignore = user.ignore
    BY <1>2, <2>1
  <2> QED  BY <1>1, <1>4, <1>8, <2>2
<1>9. CASE ~user.matched /\ GivenName(x) = NoName /\ bad
  <2>1. p = [user EXCEPT !.value = <<"status">>]
    BY <1>6, <1>9
  <2>2. p.value = <<"status">> /\ p.ignore = user.ignore
    BY <1>2, <2>1
  <2> QED  BY <1>1, <1>4, <1>5, <1>9, <2>2
<1>10. CASE ~user.matched /\ GivenName(x) = NoName /\ ~bad
  <2>1. p = [UrlName EXCEPT !.ignore = UrlName.ignore \/ user.ignore]
    BY <1>6, <1>10
  <2>2. p.value = UrlName.value /\ p.ignore = (UrlName.ignore \/ user.ignore)
    BY <1>3, <2>1
  <2> QED  BY <1>3, <1>4, <1>10, <2>2
<1> QED  BY <1>7, <1>8, <1>9, <1>10
-----------------------------------------------------------------------------
\* What naming leaves alone.
SameOtherwise(x, y) ==
    /\ y.phase = x.phase /\ y.type = x.type /\ y.http = x.http /\ y.url = x.url /\ y.route = x.route
    /\ y.forceIgnore = x.forceIgnore /\ y.forceName = x.forceName /\ y.external = x.external
    /\ y.pending = x.pending /\ y.threw = x.threw /\ y.asked = x.asked
    /\ y.recorded = x.recorded /\ y.handed = x.handed

\* A name as naming leaves it: what is ignored is settled with it, and the API's name is
\* the one that is kept unless a rule of the user's or a segment term is at work.
RightlyNamed(y) ==
    /\ y \in LifeRecord
    /\ IF y.name = NoName THEN y.forceName = NoName ELSE y.ignore = Forced(y, y.ignore)
    /\ y.forceName # NoName =>
          /\ y.name = ServerNamed(y.forceName).value \/ rules.user = "rename" \/ rules.terms
          /\ OnlyTagged(y.name) \/ rules.user = "rename"

WithName(x, a, b, c) == [x EXCEPT !.partial = a, !.name = b, !.ignore = c]

LEMMA Renamed ==
    ASSUME NEW x \in LifeRecord, NEW a \in Name, NEW b \in Name, NEW c \in BOOLEAN
    PROVE  /\ WithName(x, a, b, c) \in LifeRecord /\ SameOtherwise(x, WithName(x, a, b, c))
           /\ WithName(x, a, b, c).name = b /\ WithName(x, a, b, c).ignore = c
BY DEF LifeRecord, SameOtherwise, WithName

LEMMA ForcedIsFinal ==
    ASSUME NEW x \in LifeRecord, NEW y \in LifeRecord, SameOtherwise(x, y), NEW i \in BOOLEAN,
           y.ignore = Forced(x, i)
    PROVE  y.ignore = Forced(y, y.ignore) /\ Forced(x, i) \in BOOLEAN
BY DEF Forced, SameOtherwise, LifeRecord

LEMMA ServerNameIsName ==
    ASSUME RulesAreRules, NEW n \in Name, n # NoName
    PROVE  /\ ServerNamed(n).value \in Name /\ ServerNamed(n).value # NoName
           /\ OnlyTagged(n) => OnlyTagged(ServerNamed(n).value)
           /\ ServerNamed(n).ignore \in BOOLEAN
<1>1. rules.tx \in Outcome
  BY DEF RulesAreRules
<1>2. "txRule" \in Word
  BY DEF Word
<1> QED  BY <1>1, <1>2, AppliedIsName DEF ServerNamed

LEMMA FromUriIsRight ==
    ASSUME RulesAreRules, NEW x \in LifeRecord, NEW bad \in BOOLEAN
    PROVE  /\ RightlyNamed(FinalizedFromUri(x, bad)) /\ SameOtherwise(x, FinalizedFromUri(x, bad))
           /\ FinalizedFromUri(x, bad).name # NoName
<1> DEFINE p == PartialNameFromUri(x, bad)
           server == ServerNamed(p.value)
           b == IF rules.terms THEN Append(server.value, "terms") ELSE server.value
           i == x.ignore \/ p.ignore \/ server.ignore
           y == FinalizedFromUri(x, bad)
<1>1. /\ p.value \in Name /\ p.value # NoName /\ p.ignore \in BOOLEAN
      /\ x.forceName # NoName /\ rules.user # "rename" => p.value = x.forceName
  BY PartialIsName
<1> HIDE DEF p
<1>2. /\ server.value \in Name /\ server.value # NoName
      /\ OnlyTagged(p.value) => OnlyTagged(server.value)
      /\ server.ignore \in BOOLEAN
  BY <1>1, ServerNameIsName
<1>3. x.forceName # NoName /\ rules.user # "rename" => server.value = ServerNamed(x.forceName).value
  BY <1>1
<1>4. x.ignore \in BOOLEAN /\ x.forceName \in {NoName, <<"custom">>}
  BY DEF LifeRecord
<1>5. y = WithName(x, p.value, b, NamedIgnored(x, i))
  BY Zenon DEF FinalizedFromUri, p, WithName
<1> HIDE DEF server
<1>6. /\ b \in Name /\ b # NoName /\ (OnlyTagged(p.value) => OnlyTagged(b))
      /\ ~rules.terms => b = server.value
  <2>1. "terms" \in Word
    BY DEF Word
  <2> QED  BY <1>2, <2>1, Tagged
<1>7. i \in BOOLEAN /\ NamedIgnored(x, i) \in BOOLEAN
  BY <1>1, <1>2, <1>4 DEF NamedIgnored, Forced, LifeRecord
<1> HIDE DEF b, i, y
<1>8. y \in LifeRecord /\ SameOtherwise(x, y) /\ y.name = b /\ y.ignore = NamedIgnored(x, i)
  <2> DEFINE a == p.value
             c == NamedIgnored(x, i)
  <2>1. a \in Name /\ b \in Name /\ c \in BOOLEAN
    BY <1>1, <1>6, <1>7
  <2>2. y = WithName(x, a, b, c)
    BY <1>5
  <2> HIDE DEF a, c
  <2>3. y \in LifeRecord /\ SameOtherwise(x, y) /\ y.name = b /\ y.ignore = c
    BY <2>1, <2>2, Renamed
  <2> QED  BY <2>3 DEF c
<1>9. y.ignore = Forced(y, y.ignore)
  BY <1>7, <1>8, ForcedIsFinal DEF NamedIgnored
<1>10. y.forceName = x.forceName
  BY <1>8 DEF SameOtherwise
<1>11. y.forceName # NoName =>
         /\ y.name = ServerNamed(y.forceName).value \/ rules.user = "rename" \/ rules.terms
         /\ OnlyTagged(y.name) \/ rules.user = "rename"
  <2>1. OnlyTagged(<<"custom">>)
    BY SomeNames
  <2> QED  BY <1>1, <1>3, <1>4, <1>6, <1>8, <1>10, <2>1
<1> QED  BY <1>6, <1>8, <1>9, <1>11 DEF RightlyNamed, y

LEMMA FinalIsRight ==
    ASSUME RulesAreRules, NEW x \in LifeRecord, x.name = NoName
    PROVE  RightlyNamed(FinalizedName(x)) /\ SameOtherwise(x, FinalizedName(x))
<1> DEFINE partial == IF x.forceName # NoName THEN x.forceName ELSE x.partial
           y == FinalizedName(x)
<1>1. /\ partial \in Name /\ x.forceName \in {NoName, <<"custom">>} /\ x.ignore \in BOOLEAN
      /\ x.forceName # NoName => partial = x.forceName
  BY SomeNames DEF LifeRecord
<1>2. y = CASE x.type = "web" /\ x.url -> FinalizedFromUri(x, FALSE)
            [] ~(x.type = "web" /\ x.url) /\ partial = NoName -> [x EXCEPT !.partial = partial]
            [] OTHER -> [x EXCEPT !.partial = partial, !.name = ServerNamed(partial).value,
                                  !.ignore = NamedIgnored(x, x.ignore \/ ServerNamed(partial).ignore)]
  BY Zenon DEF FinalizedName
<1> HIDE DEF partial, y
<1>3. CASE x.type = "web" /\ x.url
  <2>1. y = FinalizedFromUri(x, FALSE)
    BY <1>2, <1>3
  <2> QED  BY <2>1, FromUriIsRight DEF y
<1>4. CASE ~(x.type = "web" /\ x.url) /\ partial = NoName
  <2>1. y = [x EXCEPT !.partial = partial]
    BY <1>2, <1>4
  <2>2. y \in LifeRecord /\ SameOtherwise(x, y) /\ y.name = x.name
    BY <1>1, <2>1 DEF LifeRecord, SameOtherwise
  <2>3. y.forceName = NoName
    BY <1>1, <1>4, <2>2 DEF SameOtherwise
  <2> QED  BY <2>2, <2>3 DEF RightlyNamed, y
<1>5. CASE ~(x.type = "web" /\ x.url) /\ partial # NoName
  <2> DEFINE b == ServerNamed(partial).value
             i == x.ignore \/ ServerNamed(partial).ignore
  <2>1. y = WithName(x, partial, b, NamedIgnored(x, i))
    <3>1. y = [x EXCEPT !.partial = partial, !.name = ServerNamed(partial).value,
                        !.ignore = NamedIgnored(x, x.ignore \/ ServerNamed(partial).ignore)]
      BY <1>2, <1>5
    <3> QED BY <3>1, Zenon DEF WithName
  <2>2. b \in Name /\ b # NoName /\ (OnlyTagged(partial) => OnlyTagged(b)) /\ i \in BOOLEAN
    BY <1>1, <1>5, ServerNameIsName
  <2>3. NamedIgnored(x, i) \in BOOLEAN
    BY <2>2 DEF NamedIgnored, Forced, LifeRecord
  <2>4. x.forceName # NoName => b = ServerNamed(x.forceName).value
    BY <1>1
  <2> HIDE DEF b, i
  <2>5. y \in LifeRecord /\ SameOtherwise(x, y) /\ y.name = b /\ y.ignore = NamedIgnored(x, i)
    BY <1>1, <2>1, <2>2, <2>3, Renamed
  <2>6. y.ignore = Forced(y, y.ignore) /\ y.forceName = x.forceName
    BY <2>2, <2>5, ForcedIsFinal DEF NamedIgnored, SameOtherwise
  <2>7. OnlyTagged(<<"custom">>)
    BY SomeNames
  <2> QED  BY <1>1, <2>2, <2>4, <2>5, <2>6, <2>7 DEF RightlyNamed, y
<1> QED  BY <1>3, <1>4, <1>5
-----------------------------------------------------------------------------
\* What has ended bears one name, or none in all its data.
RightlyEnded(y) ==
    /\ y.handed = NoName <=> y.recorded = NoName
    /\ y.handed # y.recorded => y.forceName # NoName /\ (rules.user = "rename" \/ rules.terms)
    /\ y.recorded # NoName /\ y.forceName # NoName => OnlyTagged(y.recorded) \/ rules.user = "rename"

RightRecord(y) ==
    /\ y \in LifeRecord
    /\ y.phase = "none" => ~y.http
    /\ y.phase # "ended" => y.name = NoName /\ y.recorded = NoName /\ y.handed = NoName
    /\ y.phase = "ended" => RightlyEnded(y)

\* The recorders and the agent come to the same decision on a transaction that ends.
LEMMA EndedNowIsRight ==
    ASSUME RulesAreRules, NEW x \in LifeRecord, x.recorded = NoName, x.handed = NoName,
           x.name = NoName \/ RightlyNamed(x)
    PROVE  LET y == EndedNow(x)
           IN  /\ RightRecord(y) /\ y.phase = "ended" /\ y.asked = x.asked
<1> DEFINE named == IF x.name = NoName THEN FinalizedName(x) ELSE x
           recorded == IF named.ignore THEN NoName ELSE named.name
           z == [named EXCEPT !.phase = "ended", !.recorded = recorded]
           y == EndedNow(x)
<1>1. RightlyNamed(named) /\ SameOtherwise(x, named)
  <2>1. CASE x.name = NoName
    BY <2>1, FinalIsRight
  <2>2. CASE x.name # NoName
    BY <2>2 DEF SameOtherwise
  <2> QED  BY <2>1, <2>2
<1>2. y = HandedOver(z)
  BY Zenon DEF EndedNow
<1> HIDE DEF named
<1>3. /\ named \in LifeRecord /\ named.recorded = NoName /\ named.handed = NoName /\ named.asked = x.asked
      /\ named.forceName \in {NoName, <<"custom">>} /\ named.ignore \in BOOLEAN /\ named.name \in Name
  BY <1>1 DEF RightlyNamed, SameOtherwise, LifeRecord
<1>4. recorded \in Name
  BY <1>3, SomeNames
<1> HIDE DEF recorded
<1>5. /\ z \in LifeRecord /\ z.phase = "ended" /\ z.recorded = recorded /\ z.handed = NoName
      /\ z.asked = x.asked /\ z.ignore = named.ignore /\ z.name = named.name
      /\ z.forceName = named.forceName /\ z.forceIgnore = named.forceIgnore
  BY <1>3, <1>4 DEF LifeRecord
<1> HIDE DEF z, y
<1>6. FullName(z) = FullName(named) /\ Forced(z, z.ignore) = Forced(named, named.ignore)
  BY <1>5 DEF FullName, Forced
<1>7. FullName(named) \in Name
  <2>1. named.forceName # NoName => ServerNamed(named.forceName).value \in Name
    BY <1>3, SomeNames, ServerNameIsName
  <2> QED  BY <1>3, <2>1 DEF FullName
<1>8. /\ y \in LifeRecord /\ y.phase = "ended" /\ y.recorded = recorded /\ y.asked = x.asked
      /\ y.forceName = named.forceName
      /\ y.handed = IF Forced(named, named.ignore) THEN NoName ELSE FullName(named)
  <2>1. CASE Forced(z, z.ignore)
    <3>1. y = [z EXCEPT !.ignore = TRUE]
      BY <1>2, <2>1 DEF HandedOver
    <3> QED  BY <1>5, <1>6, <2>1, <3>1 DEF LifeRecord
  <2>2. CASE ~Forced(z, z.ignore)
    <3>1. y = [z EXCEPT !.ignore = FALSE, !.handed = FullName(z)]
      BY <1>2, <2>2 DEF HandedOver
    <3>2. y = [z EXCEPT !.ignore = FALSE, !.handed = FullName(named)]
      BY <1>6, <3>1
    <3> QED  BY <1>5, <1>6, <1>7, <2>2, <3>2 DEF LifeRecord
  <2> QED  BY <2>1, <2>2
<1>9. /\ named.forceName # NoName =>
            /\ ServerNamed(named.forceName).value # NoName
            /\ FullName(named) = ServerNamed(named.forceName).value
      /\ named.forceName = NoName => FullName(named) = named.name
  BY <1>3, SomeNames, ServerNameIsName DEF FullName
<1>10. named.name # NoName => named.ignore = Forced(named, named.ignore)
  BY <1>1 DEF RightlyNamed
<1>11. named.name = NoName => named.forceName = NoName
  BY <1>1 DEF RightlyNamed
<1>12. y.handed = NoName <=> y.recorded = NoName
  BY <1>3, <1>8, <1>9, <1>10, <1>11 DEF recorded
<1>13. y.handed # y.recorded => y.forceName # NoName /\ (rules.user = "rename" \/ rules.terms)
  <2>1. named.forceName # NoName =>
          named.name = ServerNamed(named.forceName).value \/ rules.user = "rename" \/ rules.terms
    BY <1>1 DEF RightlyNamed
  <2> QED  BY <1>3, <1>8, <1>9, <1>10, <1>11, <2>1 DEF recorded
<1>14. y.recorded # NoName /\ y.forceName # NoName => OnlyTagged(y.recorded) \/ rules.user = "rename"
  BY <1>1, <1>8 DEF recorded, RightlyNamed
<1> QED  BY <1>8, <1>12, <1>13, <1>14 DEF RightRecord, RightlyEnded, y
-----------------------------------------------------------------------------
LifeFrame == [tx : Txs, creates : BOOLEAN]
Creators == {calls[i].tx : i \in {j \in 1 .. Len(calls) : calls[j].creates}}
Living == {t \in Txs : Alive(t)}
Minded(x) == x.http \/ x.pending \/ x.external \/ x.threw

Records ==
    /\ RulesAreRules
    /\ DOMAIN tx = Txs /\ \A t \in Txs : RightRecord(tx[t])
    /\ activeTransactions = Cardinality(Living)

\* A frame that creates a transaction is the only one of it that does; the transaction is
\* there, ends under it only when that was asked for, and is minded when it has gone.
Frames ==
    /\ calls \in Seq(LifeFrame)
    /\ \A i, j \in 1 .. Len(calls) :
          calls[i].creates /\ calls[j].creates /\ calls[i].tx = calls[j].tx => i = j
    /\ \A i \in 1 .. Len(calls) : tx[calls[i].tx].phase # "none"
    /\ \A t \in Creators : tx[t].phase = "ended" => tx[t].asked
    /\ \A t \in Txs : Alive(t) => Minded(tx[t]) \/ t \in Creators

LifeInv == Records /\ Frames

\* What an action makes of one transaction.
Becomes(t, y) == DOMAIN tx' = Txs /\ tx'[t] = y /\ \A u \in Txs : u # t => tx'[u] = tx[u]

LEMMA Counted ==
    ASSUME Records, DOMAIN tx' = Txs, NEW t \in Txs, \A u \in Txs : u # t => tx'[u] = tx[u],
           activeTransactions' = activeTransactions + (IF tx'[t].phase = "active" THEN 1 ELSE 0)
                                                    - (IF tx[t].phase = "active" THEN 1 ELSE 0)
    PROVE  activeTransactions' = Cardinality(Living')
<1>1. IsFiniteSet(Living) /\ Cardinality(Living) \in Nat
  <2>1. Living \subseteq Txs
    BY DEF Living
  <2> QED  BY <2>1, LifeAssumption, FS_Subset, FS_CardinalityType
<1>2. Living' = IF tx'[t].phase = "active" THEN Living \cup {t} ELSE Living \ {t}
  BY DEF Living, Alive
<1>3. /\ Cardinality(Living \cup {t}) = IF t \in Living THEN Cardinality(Living) ELSE Cardinality(Living) + 1
      /\ Cardinality(Living \ {t}) = IF t \in Living THEN Cardinality(Living) - 1 ELSE Cardinality(Living)
  BY <1>1, FS_AddElement, FS_RemoveElement
<1>4. t \in Living <=> tx[t].phase = "active"
  BY DEF Living, Alive
<1> QED  BY <1>1, <1>2, <1>3, <1>4 DEF Records

LEMMA CallsUnder ==
    ASSUME Frames
    PROVE  /\ Len(calls) \in Nat /\ DOMAIN calls = 1 .. Len(calls)
           /\ \A i \in 1 .. Len(calls) : calls[i].tx \in Txs /\ calls[i].creates \in BOOLEAN
           /\ calls # <<>> => Len(calls) \in 1 .. Len(calls)
<1>1. calls \in Seq(LifeFrame)
  BY DEF Frames
<1>2. \A i \in 1 .. Len(calls) : calls[i] \in LifeFrame
  BY <1>1, ElementOfSeq
<1> QED  BY <1>1, <1>2, LenProperties, EmptySeq DEF LifeFrame

\* What a call and a return make of the frames.
LEMMA Entered ==
    ASSUME Frames, NEW t \in Txs, NEW c \in BOOLEAN, Called(t, c), c => t \notin Creators
    PROVE  /\ calls' \in Seq(LifeFrame)
           /\ \A i, j \in 1 .. Len(calls') :
                 calls'[i].creates /\ calls'[j].creates /\ calls'[i].tx = calls'[j].tx => i = j
           /\ \A i \in 1 .. Len(calls') : calls'[i].tx = t \/ \E j \in 1 .. Len(calls) : calls[j] = calls'[i]
           /\ Creators' = IF c THEN Creators \cup {t} ELSE Creators
<1> DEFINE n == Len(calls)
           f == [tx |-> t, creates |-> c]
<1>1. n \in Nat /\ f \in LifeFrame /\ calls \in Seq(LifeFrame) /\ f.tx = t /\ (f.creates <=> c)
  BY CallsUnder DEF Frames, LifeFrame
<1>2. /\ calls' \in Seq(LifeFrame) /\ Len(calls') = n + 1
      /\ \A i \in 1 .. n : calls'[i] = calls[i]
      /\ calls'[n + 1] = f
  <2>1. calls' = Append(calls, f)
    BY DEF Called
  <2> HIDE DEF f
  <2> QED  BY <1>1, <2>1, AppendProperties
<1> HIDE DEF f
<1>3. \A i \in 1 .. n + 1 : i \in 1 .. n \/ i = n + 1
  BY <1>1
<1>4. \A i \in 1 .. n : calls[i].creates => calls[i].tx \in Creators
  BY DEF Creators
<1>5. \A i, j \in 1 .. n + 1 :
         calls'[i].creates /\ calls'[j].creates /\ calls'[i].tx = calls'[j].tx => i = j
  BY <1>1, <1>2, <1>3, <1>4 DEF Frames
<1>6. \A u : u \in Creators' <=> u \in Creators \/ (c /\ u = t)
  <2>1. ASSUME NEW u, u \in Creators'
        PROVE  u \in Creators \/ (c /\ u = t)
    <3>1. PICK i \in 1 .. n + 1 : calls'[i].creates /\ calls'[i].tx = u
      BY <1>2, <2>1 DEF Creators
    <3> QED  BY <1>1, <1>2, <1>3, <1>4, <3>1
  <2>2. ASSUME NEW u, u \in Creators
        PROVE  u \in Creators'
    <3>1. PICK i \in 1 .. n : calls[i].creates /\ calls[i].tx = u
      BY <2>2 DEF Creators
    <3>2. i \in 1 .. n + 1
      BY <1>1
    <3> QED  BY <1>2, <3>1, <3>2 DEF Creators
  <2>3. c => t \in Creators'
    <3>1. n + 1 \in 1 .. n + 1
      BY <1>1
    <3> QED  BY <1>1, <1>2, <3>1 DEF Creators
  <2> QED  BY <2>1, <2>2, <2>3
<1> QED  BY <1>2, <1>3, <1>5, <1>6

LEMMA LeftBehind ==
    ASSUME Frames, calls # <<>>, Left
    PROVE  /\ calls' \in Seq(LifeFrame) /\ Current \in Txs /\ Innermost.creates \in BOOLEAN
           /\ \A i, j \in 1 .. Len(calls') :
                 calls'[i].creates /\ calls'[j].creates /\ calls'[i].tx = calls'[j].tx => i = j
           /\ \A i \in 1 .. Len(calls') : \E j \in 1 .. Len(calls) : calls[j] = calls'[i]
           /\ Creators' = IF Innermost.creates THEN Creators \ {Current} ELSE Creators
<1> DEFINE n == Len(calls)
<1>1. n \in Nat \ {0} /\ n \in 1 .. n
  BY CallsUnder
<1>2. Current = calls[n].tx /\ Innermost = calls[n] /\ Current \in Txs /\ Innermost.creates \in BOOLEAN
  BY <1>1, CallsUnder DEF Current, Innermost
<1>3. \A i \in 1 .. n : i \in 1 .. n - 1 \/ i = n
  BY <1>1
<1>4. \A i \in 1 .. n - 1 : i \in 1 .. n /\ i # n
  BY <1>1
<1>5. /\ calls' \in Seq(LifeFrame) /\ Len(calls') = n - 1
      /\ \A i \in 1 .. n - 1 : calls'[i] = calls[i]
  <2>1. \A i \in 1 .. n - 1 : calls[i] \in LifeFrame
    BY <1>4, ElementOfSeq DEF Frames
  <2>2. calls' = SubSeq(calls, 1, n - 1)
    BY DEF Left
  <2>3. /\ SubSeq(calls, 1, n - 1) \in Seq(LifeFrame)
        /\ Len(SubSeq(calls, 1, n - 1)) = IF 1 <= n - 1 THEN (n - 1) - 1 + 1 ELSE 0
        /\ \A i \in 1 .. (n - 1) - 1 + 1 : SubSeq(calls, 1, n - 1)[i] = calls[1 + i - 1]
    BY <1>1, <2>1, SubSeqProperties
  <2>4. \A i \in 1 .. n - 1 : i \in 1 .. (n - 1) - 1 + 1 /\ 1 + i - 1 = i
    BY <1>1
  <2>5. (IF 1 <= n - 1 THEN (n - 1) - 1 + 1 ELSE 0) = n - 1
    <3>1. \A k \in Nat \ {0} : (IF 1 <= k - 1 THEN (k - 1) - 1 + 1 ELSE 0) = k - 1
      OBVIOUS
    <3> HIDE DEF n
    <3> QED  BY <1>1, <3>1
  <2> HIDE DEF n
  <2> QED  BY <2>2, <2>3, <2>4, <2>5
<1>6. \A i, j \in 1 .. n - 1 :
         calls'[i].creates /\ calls'[j].creates /\ calls'[i].tx = calls'[j].tx => i = j
  BY <1>4, <1>5 DEF Frames
<1>7. \A u : u \in Creators' <=> u \in Creators /\ ~(Innermost.creates /\ u = Current)
  <2>1. ASSUME NEW u, u \in Creators'
        PROVE  u \in Creators /\ ~(Innermost.creates /\ u = Current)
    <3>1. PICK i \in 1 .. n - 1 : calls'[i].creates /\ calls'[i].tx = u
      BY <1>5, <2>1 DEF Creators
    <3>2. i \in 1 .. n /\ i # n /\ calls[i].creates /\ calls[i].tx = u
      BY <1>4, <1>5, <3>1
    <3> QED  BY <1>1, <1>2, <3>2 DEF Frames, Creators
  <2>2. ASSUME NEW u, u \in Creators, ~(Innermost.creates /\ u = Current)
        PROVE  u \in Creators'
    <3>1. PICK i \in 1 .. n : calls[i].creates /\ calls[i].tx = u
      BY <2>2 DEF Creators
    <3>2. i \in 1 .. n - 1
      BY <1>2, <1>3, <2>2, <3>1
    <3> QED  BY <1>5, <3>1, <3>2 DEF Creators
  <2> QED  BY <2>1, <2>2
<1>8. \A i \in 1 .. Len(calls') : \E j \in 1 .. Len(calls) : calls[j] = calls'[i]
  BY <1>4, <1>5
<1> QED  BY <1>2, <1>5, <1>6, <1>7, <1>8

LEMMA Counting == ASSUME Records PROVE activeTransactions \in Nat
<1>1. IsFiniteSet(Living)
  <2>1. Living \subseteq Txs
    BY DEF Living
  <2> QED  BY <2>1, LifeAssumption, FS_Subset
<1> QED  BY <1>1, FS_CardinalityType DEF Records

\* One transaction becomes y, while the calls stay, grow or shrink by one of its frames.
LEMMA OneChanges ==
    ASSUME LifeInv, NEW t \in Txs, NEW y, Becomes(t, y), RightRecord(y), UNCHANGED rules,
           activeTransactions' = activeTransactions + (IF y.phase = "active" THEN 1 ELSE 0)
                                                    - (IF tx[t].phase = "active" THEN 1 ELSE 0),
           tx[t].phase # "none" => y.phase # "none",
           \/ calls' = calls
           \/ calls # <<>> /\ Left /\ Current = t
           \/ \E c \in BOOLEAN : Called(t, c) /\ (c => t \notin Creators) /\ y.phase # "none",
           y.phase = "ended" /\ t \in Creators' => y.asked,
           y.phase = "active" => Minded(y) \/ t \in Creators'
    PROVE  LifeInv'
<1>1. /\ DOMAIN tx' = Txs /\ tx'[t] = y /\ \A u \in Txs : u # t => tx'[u] = tx[u]
  BY DEF Becomes
<1>2. Records'
  <2>1. activeTransactions' = Cardinality(Living')
    BY <1>1, Counted DEF LifeInv
  <2>2. \A u \in Txs : RightRecord(tx'[u])
    BY <1>1 DEF LifeInv, Records
  <2>3. (\A u \in Txs : RightRecord(tx[u]))'
    BY <2>2 DEF RightRecord, RightlyEnded
  <2> QED  BY <1>1, <2>1, <2>3 DEF LifeInv, Records, RulesAreRules
<1>3. /\ calls' \in Seq(LifeFrame)
      /\ \A i, j \in 1 .. Len(calls') :
            calls'[i].creates /\ calls'[j].creates /\ calls'[i].tx = calls'[j].tx => i = j
      /\ \A i \in 1 .. Len(calls') : \/ calls'[i].tx = t /\ y.phase # "none"
                                     \/ \E j \in 1 .. Len(calls) : calls[j] = calls'[i]
      /\ \A u \in Txs : u # t => (u \in Creators' <=> u \in Creators)
  <2>1. CASE calls' = calls
    BY <2>1 DEF LifeInv, Frames, Creators
  <2>2. CASE calls # <<>> /\ Left /\ Current = t
    BY <2>2, LeftBehind DEF LifeInv
  <2>3. CASE \E c \in BOOLEAN : Called(t, c) /\ (c => t \notin Creators) /\ y.phase # "none"
    BY <2>3, Entered DEF LifeInv
  <2> QED  BY <2>1, <2>2, <2>3
<1>4. \A i \in 1 .. Len(calls') : tx'[calls'[i].tx].phase # "none"
  <2>1. \A j \in 1 .. Len(calls) : calls[j].tx \in Txs /\ tx[calls[j].tx].phase # "none"
    BY CallsUnder DEF LifeInv, Frames
  <2>2. \A j \in 1 .. Len(calls) : tx'[calls[j].tx].phase # "none"
    BY <1>1, <2>1
  <2> QED  BY <1>1, <1>3, <2>2
<1>5. Creators' \subseteq Txs
  <2>1. \A i \in 1 .. Len(calls') : calls'[i].tx \in Txs
    BY <1>3, CallsUnder DEF LifeInv
  <2> QED  BY <2>1 DEF Creators
<1>6. \A u \in Creators' : tx'[u].phase = "ended" => tx'[u].asked
  BY <1>1, <1>3, <1>5 DEF LifeInv, Frames
<1>7. \A u \in Txs : Alive(u)' => Minded(tx'[u]) \/ u \in Creators'
  BY <1>1, <1>3 DEF LifeInv, Frames, Alive
<1> QED  BY <1>2, <1>3, <1>4, <1>6, <1>7 DEF LifeInv, Frames

\* A transaction ends, unless it has ended.
LEMMA Ended ==
    ASSUME Records, NEW t \in Txs, NEW x \in LifeRecord, End(t, x), x.phase = tx[t].phase,
           x.phase = "active" => x.recorded = NoName /\ x.handed = NoName /\ (x.name = NoName \/ RightlyNamed(x)),
           x.phase # "active" => RightRecord(x)
    PROVE  \E y : /\ Becomes(t, y) /\ RightRecord(y)
                  /\ activeTransactions' = activeTransactions + (IF y.phase = "active" THEN 1 ELSE 0)
                                                    - (IF tx[t].phase = "active" THEN 1 ELSE 0)
                  /\ y.phase # "active" /\ (tx[t].phase # "none" => y.phase # "none") /\ y.asked = x.asked
<1>1. activeTransactions \in Nat
  BY Counting
<1>2. CASE x.phase = "active"
  <2>1. RightRecord(EndedNow(x)) /\ EndedNow(x).phase = "ended" /\ EndedNow(x).asked = x.asked
    BY <1>2, EndedNowIsRight DEF Records
  <2> DEFINE y == EndedNow(x)
  <2>2. tx' = [tx EXCEPT ![t] = y] /\ activeTransactions' = activeTransactions - 1
    BY <1>2 DEF End
  <2>3. y.phase # "active" /\ y.phase # "none"
    BY <2>1
  <2> HIDE DEF y
  <2>5. Becomes(t, y)
    BY <2>2 DEF Becomes, Records
  <2>4. activeTransactions' = activeTransactions + (IF y.phase = "active" THEN 1 ELSE 0)
                                                 - (IF tx[t].phase = "active" THEN 1 ELSE 0)
    BY <1>1, <1>2, <2>2, <2>3
  <2> QED  BY <2>1, <2>3, <2>4, <2>5 DEF y
<1>3. CASE x.phase # "active"
  <2>1. tx' = [tx EXCEPT ![t] = x] /\ activeTransactions' = activeTransactions - 0
    BY <1>3 DEF End
  <2>2. activeTransactions' = activeTransactions + (IF x.phase = "active" THEN 1 ELSE 0)
                                                 - (IF tx[t].phase = "active" THEN 1 ELSE 0)
    BY <1>1, <1>3, <2>1
  <2>3. Becomes(t, x)
    BY <2>1 DEF Becomes, Records
  <2> QED  BY <1>3, <2>2, <2>3
<1> QED  BY <1>2, <1>3
-----------------------------------------------------------------------------
\* What does not touch the names keeps a record right.
LEMMA StillRight ==
    ASSUME NEW x, RightRecord(x), NEW y \in LifeRecord, y.phase = x.phase, y.name = x.name,
           y.recorded = x.recorded, y.handed = x.handed, y.http => x.http,
           y.forceName = x.forceName \/ x.phase # "ended"
    PROVE  RightRecord(y)
BY DEF RightRecord, RightlyEnded

LEMMA FieldsSet ==
    ASSUME NEW x, RightRecord(x), NEW b \in BOOLEAN, NEW w \in {"yes", "no"}
    PROVE  /\ RightRecord([x EXCEPT !.pending = b]) /\ RightRecord([x EXCEPT !.threw = b])
           /\ RightRecord([x EXCEPT !.external = b]) /\ RightRecord([x EXCEPT !.asked = b])
           /\ RightRecord([x EXCEPT !.route = b]) /\ RightRecord([x EXCEPT !.forceIgnore = w])
           /\ RightRecord([x EXCEPT !.http = FALSE])
           /\ x.phase = "active" => RightRecord([x EXCEPT !.forceName = <<"custom">>])
<1>1. x \in LifeRecord
  BY DEF RightRecord
<1>2. ASSUME NEW y \in {[x EXCEPT !.pending = b], [x EXCEPT !.threw = b], [x EXCEPT !.external = b],
                         [x EXCEPT !.asked = b]}
      PROVE  RightRecord(y)
  <2>1. y \in LifeRecord
    BY <1>1 DEF LifeRecord
  <2>2. /\ y.phase = x.phase /\ y.name = x.name /\ y.recorded = x.recorded
        /\ y.handed = x.handed /\ y.forceName = x.forceName /\ y.http = x.http
    BY <1>1 DEF LifeRecord
  <2> QED  BY <2>1, <2>2, StillRight
<1>4. ASSUME NEW y \in {[x EXCEPT !.route = b], [x EXCEPT !.forceIgnore = w], [x EXCEPT !.http = FALSE]}
      PROVE  RightRecord(y)
  <2>1. /\ y \in LifeRecord /\ y.phase = x.phase /\ y.name = x.name /\ y.recorded = x.recorded
        /\ y.handed = x.handed /\ y.forceName = x.forceName
    BY <1>1 DEF LifeRecord
  <2>2. y.http => x.http
    BY <1>1 DEF LifeRecord
  <2> QED  BY <2>1, <2>2, StillRight
<1>3. x.phase = "active" => RightRecord([x EXCEPT !.forceName = <<"custom">>])
  <2> DEFINE y == [x EXCEPT !.forceName = <<"custom">>]
  <2>1. /\ y \in LifeRecord /\ y.phase = x.phase /\ y.name = x.name /\ y.recorded = x.recorded
        /\ y.handed = x.handed /\ y.http = x.http
    BY <1>1 DEF LifeRecord
  <2> HIDE DEF y
  <2>2. x.phase = "active" => RightRecord(y)
    BY <2>1, StillRight
  <2> QED  BY <2>2 DEF y
<1> QED  BY <1>2, <1>3, <1>4

LEMMA Held ==
    ASSUME LifeInv
    PROVE  /\ calls = <<>> => Creators = {}
           /\ calls # <<>> => Current \in Txs /\ tx[Current].phase # "none"
           /\ MayCallApi => Current \in Txs /\ tx[Current].phase = "active"
           /\ \A t \in Txs : RightRecord(tx[t]) /\ tx[t] \in LifeRecord
<1>1. Len(calls) \in Nat /\ \A i \in 1 .. Len(calls) : calls[i].tx \in Txs /\ tx[calls[i].tx].phase # "none"
  BY CallsUnder DEF LifeInv, Frames
<1>2. calls # <<>> => Len(calls) \in 1 .. Len(calls)
  BY CallsUnder DEF LifeInv
<1>3. calls = <<>> => Creators = {}
  <2>1. calls = <<>> => Len(calls) = 0
    OBVIOUS
  <2> QED  BY <2>1 DEF Creators
<1>4. calls # <<>> => Current \in Txs /\ tx[Current].phase # "none"
  BY <1>1, <1>2 DEF Current, Innermost
<1>5. MayCallApi => calls # <<>> /\ tx[Current].phase = "active"
  BY DEF MayCallApi, InTransaction, Alive
<1>6. \A t \in Txs : RightRecord(tx[t])
  BY DEF LifeInv, Records
<1>7. \A t \in Txs : tx[t] \in LifeRecord
  BY <1>6 DEF RightRecord
<1> QED  BY <1>3, <1>4, <1>5, <1>6, <1>7

LEMMA NewRecord ==
    ASSUME RulesAreRules
    PROVE  /\ RightRecord(Unborn) /\ Unborn.phase = "none"
           /\ RightRecord(Started("web")) /\ Started("web").phase = "active"
           /\ RightRecord(Started("bg")) /\ Started("bg").phase = "active"
           /\ LET y == NamedEarly([Unborn EXCEPT !.phase = "active", !.type = "web", !.http = TRUE, !.url = TRUE])
              IN  RightRecord(y) /\ y.phase = "active" /\ y.http
<1>1. NoName \in Name /\ <<"background">> \in Name /\ <<"custom">> \in Name
  BY SomeNames
<1>2. Unborn \in LifeRecord /\ Unborn.phase = "none" /\ ~Unborn.http
      /\ Unborn.name = NoName /\ Unborn.recorded = NoName /\ Unborn.handed = NoName
  BY <1>1 DEF Unborn, LifeRecord
<1>3. /\ RunUserNamingRules.ignore \in BOOLEAN
      /\ RunUserNamingRules.value \in Name /\ RunUserNamingRules.matched \in BOOLEAN
  BY UserRulesName
<1>4. ASSUME NEW x \in LifeRecord, x.phase = "active",
             x.name = NoName, x.recorded = NoName, x.handed = NoName
      PROVE  RightRecord(NamedEarly(x)) /\ NamedEarly(x).phase = "active" /\ NamedEarly(x).http = x.http
  <2> DEFINE i == RunUserNamingRules.ignore
             p == IF RunUserNamingRules.matched THEN RunUserNamingRules.value ELSE x.partial
             y == [x EXCEPT !.ignore = i, !.partial = p]
  <2>1. NamedEarly(x) = y
    BY Zenon DEF NamedEarly
  <2>2. i \in BOOLEAN /\ p \in Name
    BY <1>3, <1>4 DEF LifeRecord
  <2> HIDE DEF i, p
  <2>3. /\ y \in LifeRecord /\ y.phase = x.phase /\ y.name = x.name /\ y.recorded = x.recorded
        /\ y.handed = x.handed /\ y.http = x.http
    BY <2>2 DEF LifeRecord
  <2> HIDE DEF y
  <2> QED  BY <1>4, <2>1, <2>3 DEF RightRecord
<1>5. RightRecord(Unborn)
  BY <1>2 DEF RightRecord
<1>6. LET y == NamedEarly([Unborn EXCEPT !.phase = "active", !.type = "web", !.http = TRUE, !.url = TRUE])
      IN  RightRecord(y) /\ y.phase = "active" /\ y.http
  <2> DEFINE x == [Unborn EXCEPT !.phase = "active", !.type = "web", !.http = TRUE, !.url = TRUE]
  <2>1. /\ x \in LifeRecord /\ x.phase = "active" /\ x.http
        /\ x.name = NoName /\ x.recorded = NoName /\ x.handed = NoName
    BY <1>1 DEF Unborn, LifeRecord
  <2> HIDE DEF x
  <2>2. RightRecord(NamedEarly(x)) /\ NamedEarly(x).phase = "active" /\ NamedEarly(x).http
    BY <1>4, <2>1
  <2> QED  BY <2>2 DEF x
<1>7. RightRecord(Started("web")) /\ Started("web").phase = "active"
  <2> DEFINE x == [Unborn EXCEPT !.phase = "active", !.type = "web", !.url = TRUE, !.route = TRUE]
  <2>1. /\ x \in LifeRecord /\ x.phase = "active"
        /\ x.name = NoName /\ x.recorded = NoName /\ x.handed = NoName
    BY <1>1 DEF Unborn, LifeRecord
  <2>2. Started("web") = NamedEarly(x)
    BY DEF Started
  <2> HIDE DEF x
  <2> QED  BY <1>4, <2>1, <2>2
<1>8. RightRecord(Started("bg")) /\ Started("bg").phase = "active"
  <2> DEFINE x == [Unborn EXCEPT !.phase = "active", !.type = "bg", !.partial = <<"background">>]
  <2>1. /\ x \in LifeRecord /\ x.phase = "active"
        /\ x.name = NoName /\ x.recorded = NoName /\ x.handed = NoName
    BY <1>1 DEF Unborn, LifeRecord
  <2>2. Started("bg") = x
    BY DEF Started
  <2> HIDE DEF x
  <2> QED  BY <2>1, <2>2 DEF RightRecord
<1> QED  BY <1>2, <1>5, <1>6, <1>7, <1>8
-----------------------------------------------------------------------------
LEMMA HttpStarts == ASSUME LifeInv, NEW t \in Txs, HttpStart(t) PROVE LifeInv'
<1> DEFINE y == NamedEarly([Unborn EXCEPT !.phase = "active", !.type = "web", !.http = TRUE, !.url = TRUE])
<1>1. tx[t].phase = "none" /\ calls = <<>> /\ Called(t, FALSE) /\ UNCHANGED rules
  BY DEF HttpStart
<1>2. Becomes(t, y) /\ activeTransactions' = activeTransactions + 1
  BY Zenon DEF HttpStart, Becomes, LifeInv, Records
<1>3. RightRecord(y) /\ y.phase = "active" /\ y.http
  BY NewRecord DEF LifeInv, Records
<1> HIDE DEF y
<1>4. activeTransactions' = activeTransactions + (IF y.phase = "active" THEN 1 ELSE 0)
                                               - (IF tx[t].phase = "active" THEN 1 ELSE 0)
  BY <1>1, <1>2, <1>3, Counting DEF LifeInv
<1> QED  BY <1>1, <1>2, <1>3, <1>4, OneChanges DEF Minded

LEMMA Same ==
    ASSUME LifeInv, NEW t \in Txs, UNCHANGED <<tx, activeTransactions>>
    PROVE  /\ Becomes(t, tx[t]) /\ RightRecord(tx[t])
           /\ activeTransactions' = activeTransactions + (IF tx[t].phase = "active" THEN 1 ELSE 0)
                                                       - (IF tx[t].phase = "active" THEN 1 ELSE 0)
BY Held, Counting DEF LifeInv, Records, Becomes

LEMMA Starts == ASSUME LifeInv, NEW t \in Txs, NEW type \in {"web", "bg"}, StartTransaction(t, type) PROVE LifeInv'
<1>1. CASE Reused(type)
  <2>1. t = Current /\ UNCHANGED <<tx, rules>> /\ Called(t, FALSE) /\ calls # <<>>
    BY <1>1 DEF StartTransaction, Creates, Reused, InTransaction
  <2>2. UNCHANGED activeTransactions
    BY <1>1, Counting DEF StartTransaction, LifeInv
  <2>3. tx[t].phase # "none"
    BY <2>1, Held
  <2>4. Creators' = Creators
    BY <2>1, Entered DEF LifeInv
  <2>5. (tx[t].phase = "ended" /\ t \in Creators => tx[t].asked)
        /\ (tx[t].phase = "active" => Minded(tx[t]) \/ t \in Creators)
    BY DEF LifeInv, Frames, Alive
  <2> QED  BY <2>1, <2>2, <2>3, <2>4, <2>5, Same, OneChanges
<1>2. CASE ~Reused(type)
  <2> DEFINE y == Started(type)
  <2>1. tx[t].phase = "none" /\ Called(t, TRUE) /\ UNCHANGED rules
    BY <1>2 DEF StartTransaction, Creates
  <2>2. Becomes(t, y) /\ activeTransactions' = activeTransactions + 1
    BY <1>2, Zenon DEF StartTransaction, Becomes, LifeInv, Records
  <2>3. RightRecord(y) /\ y.phase = "active"
    BY NewRecord DEF LifeInv, Records
  <2> HIDE DEF y
  <2>4. activeTransactions' = activeTransactions + (IF y.phase = "active" THEN 1 ELSE 0)
                                                 - (IF tx[t].phase = "active" THEN 1 ELSE 0)
    BY <2>1, <2>2, <2>3, Counting DEF LifeInv
  <2>5. t \notin Creators
    BY <2>1, CallsUnder DEF LifeInv, Frames, Creators
  <2>6. t \in Creators'
    BY <2>1, <2>5, Entered DEF LifeInv
  <2> QED  BY <2>1, <2>2, <2>3, <2>4, <2>5, <2>6, OneChanges
<1> QED  BY <1>1, <1>2

LEMMA Resumes == ASSUME LifeInv, NEW t \in Txs, Resume(t) PROVE LifeInv'
<1>1. tx[t].phase # "none" /\ Called(t, FALSE) /\ UNCHANGED <<tx, activeTransactions, rules>>
  BY DEF Resume
<1>2. Creators' = Creators
  BY <1>1, Entered DEF LifeInv
<1>3. (tx[t].phase = "ended" /\ t \in Creators => tx[t].asked)
      /\ (tx[t].phase = "active" => Minded(tx[t]) \/ t \in Creators)
  BY DEF LifeInv, Frames, Alive
<1> QED  BY <1>1, <1>2, <1>3, Same, OneChanges

\* An end by the transaction's own record.
LEMMA EndedAsItIs ==
    ASSUME LifeInv, NEW t \in Txs, NEW x, RightRecord(x), End(t, x), x.phase = tx[t].phase
    PROVE  \E y : /\ Becomes(t, y) /\ RightRecord(y)
                  /\ activeTransactions' = activeTransactions + (IF y.phase = "active" THEN 1 ELSE 0)
                                                    - (IF tx[t].phase = "active" THEN 1 ELSE 0)
                  /\ y.phase # "active" /\ (tx[t].phase # "none" => y.phase # "none") /\ y.asked = x.asked
<1>1. x \in LifeRecord
  BY DEF RightRecord
<1>2. x.phase = "active" => x.recorded = NoName /\ x.handed = NoName /\ x.name = NoName
  BY DEF RightRecord
<1> QED  BY <1>1, <1>2, Ended DEF LifeInv

LEMMA Returns == ASSUME LifeInv, Return PROVE LifeInv'
<1> DEFINE t == Current
<1>1. calls # <<>> /\ Left /\ UNCHANGED rules
  BY DEF Return
<1>2. t \in Txs /\ tx[t].phase # "none" /\ RightRecord(tx[t])
  BY <1>1, Held
<1>3. Creators' = IF Innermost.creates THEN Creators \ {t} ELSE Creators
  BY <1>1, LeftBehind DEF LifeInv
<1>4. CASE Innermost.creates /\ ~tx[t].external
  <2>1. End(t, tx[t])
    BY <1>4 DEF Return
  <2> HIDE DEF t
  <2>2. PICK y : /\ Becomes(t, y) /\ RightRecord(y)
                 /\ activeTransactions' = activeTransactions + (IF y.phase = "active" THEN 1 ELSE 0)
                                                    - (IF tx[t].phase = "active" THEN 1 ELSE 0)
                 /\ y.phase # "active" /\ (tx[t].phase # "none" => y.phase # "none") /\ y.asked = tx[t].asked
    BY <1>2, <2>1, EndedAsItIs
  <2>3. t \notin Creators'
    BY <1>3, <1>4
  <2> QED  BY <1>1, <1>2, <2>2, <2>3, OneChanges DEF t
<1>5. CASE ~(Innermost.creates /\ ~tx[t].external)
  <2>1. UNCHANGED <<tx, activeTransactions>>
    BY <1>5 DEF Return
  <2>2. (tx[t].phase = "ended" /\ t \in Creators => tx[t].asked)
        /\ (tx[t].phase = "active" => Minded(tx[t]) \/ t \in Creators)
    BY <1>2 DEF LifeInv, Frames, Alive
  <2>3. tx[t].phase = "active" => Minded(tx[t]) \/ t \in Creators'
    BY <1>3, <1>5, <2>2 DEF Minded
  <2>4. t \in Creators' => t \in Creators
    BY <1>3
  <2> QED  BY <1>1, <1>2, <2>1, <2>2, <2>3, <2>4, Same, OneChanges
<1> QED  BY <1>4, <1>5

\* A step that leaves the phase of the transaction alone.
LEMMA Touched ==
    ASSUME LifeInv, NEW t \in Txs, NEW y, tx' = [tx EXCEPT ![t] = y], RightRecord(y), y.phase = tx[t].phase,
           UNCHANGED <<activeTransactions, rules>>
    PROVE  /\ Becomes(t, y)
           /\ activeTransactions' = activeTransactions + (IF y.phase = "active" THEN 1 ELSE 0)
                                                       - (IF tx[t].phase = "active" THEN 1 ELSE 0)
           /\ tx[t].phase # "none" => y.phase # "none"
BY Counting DEF LifeInv, Records, Becomes

LEMMA ReturnsPromise == ASSUME LifeInv, ReturnPromise PROVE LifeInv'
<1> DEFINE t == Current
           y == [tx[t] EXCEPT !.pending = TRUE]
<1>1. /\ calls # <<>> /\ Left /\ Innermost.creates /\ UNCHANGED <<activeTransactions, rules>>
      /\ tx' = [tx EXCEPT ![t] = y]
  BY Zenon DEF ReturnPromise, Awaits
<1>2. t \in Txs /\ RightRecord(tx[t]) /\ tx[t] \in LifeRecord
  BY <1>1, Held
<1>3. Creators' = Creators \ {t}
  BY <1>1, LeftBehind DEF LifeInv
<1>4. RightRecord(y) /\ y.phase = tx[t].phase /\ Minded(y)
  BY <1>2, FieldsSet DEF LifeRecord, Minded
<1> HIDE DEF y
<1> QED  BY <1>1, <1>2, <1>3, <1>4, Touched, OneChanges

LEMMA Throws == ASSUME LifeInv, Throw PROVE LifeInv'
<1> DEFINE t == Current
           b == tx[t].threw \/ Innermost.creates
           y == [tx[t] EXCEPT !.threw = b]
<1>1. /\ calls # <<>> /\ Left /\ UNCHANGED <<activeTransactions, rules>>
      /\ tx' = [tx EXCEPT ![t] = y]
  BY Zenon DEF Throw
<1>2. t \in Txs /\ RightRecord(tx[t]) /\ tx[t] \in LifeRecord
  BY <1>1, Held
<1>3. Creators' = (IF Innermost.creates THEN Creators \ {t} ELSE Creators) /\ Innermost.creates \in BOOLEAN
  BY <1>1, LeftBehind DEF LifeInv
<1>4. b \in BOOLEAN
  BY <1>2, <1>3 DEF LifeRecord
<1>5. (tx[t].phase = "ended" /\ t \in Creators => tx[t].asked)
      /\ (tx[t].phase = "active" => Minded(tx[t]) \/ t \in Creators)
  BY <1>2 DEF LifeInv, Frames, Alive
<1>6. /\ RightRecord(y) /\ y.phase = tx[t].phase /\ y.asked = tx[t].asked
      /\ (y.threw <=> b) /\ y.http = tx[t].http /\ y.pending = tx[t].pending /\ y.external = tx[t].external
  <2> HIDE DEF b, t
  <2> QED  BY <1>2, <1>4, FieldsSet DEF LifeRecord
<1>7. (y.phase = "ended" /\ t \in Creators' => y.asked) /\ (y.phase = "active" => Minded(y) \/ t \in Creators')
  BY <1>3, <1>5, <1>6 DEF Minded
<1> HIDE DEF y
<1> QED  BY <1>1, <1>2, <1>6, <1>7, Touched, OneChanges

\* What stays minded: the frames are the same, and nobody's mind is changed.
LEMMA StillHeld ==
    ASSUME LifeInv, NEW t \in Txs, NEW y, tx' = [tx EXCEPT ![t] = y], RightRecord(y), y.phase = tx[t].phase,
           UNCHANGED <<calls, activeTransactions, rules>>, y.asked = tx[t].asked, Minded(tx[t]) => Minded(y)
    PROVE  LifeInv'
<1>1. (tx[t].phase = "ended" /\ t \in Creators => tx[t].asked)
      /\ (tx[t].phase = "active" => Minded(tx[t]) \/ t \in Creators)
  BY DEF LifeInv, Frames, Alive
<1>2. Creators' = Creators
  BY DEF Creators
<1> QED  BY <1>1, <1>2, Touched, OneChanges

LEMMA Renames == ASSUME LifeInv, SetTransactionName PROVE LifeInv'
<1> DEFINE t == Current
           y == [tx[t] EXCEPT !.forceName = <<"custom">>]
<1>1. tx' = [tx EXCEPT ![t] = y] /\ UNCHANGED <<calls, activeTransactions, rules>> /\ MayCallApi
  BY Zenon DEF SetTransactionName
<1>2. t \in Txs /\ RightRecord(tx[t]) /\ tx[t] \in LifeRecord /\ tx[t].phase = "active"
  BY <1>1, Held
<1>3. RightRecord(y)
  BY <1>2, FieldsSet
<1>4. y.phase = tx[t].phase /\ y.asked = tx[t].asked /\ (Minded(tx[t]) => Minded(y))
  BY <1>2 DEF LifeRecord, Minded
<1> HIDE DEF y
<1> QED  BY <1>1, <1>2, <1>3, <1>4, StillHeld

LEMMA Routes == ASSUME LifeInv, SetRoute PROVE LifeInv'
<1> DEFINE t == Current
           y == [tx[t] EXCEPT !.route = TRUE]
<1>1. tx' = [tx EXCEPT ![t] = y] /\ UNCHANGED <<calls, activeTransactions, rules>> /\ MayCallApi
  BY Zenon DEF SetRoute
<1>2. t \in Txs /\ RightRecord(tx[t]) /\ tx[t] \in LifeRecord
  BY <1>1, Held
<1>3. RightRecord(y)
  BY <1>2, FieldsSet
<1>4. y.phase = tx[t].phase /\ y.asked = tx[t].asked /\ (Minded(tx[t]) => Minded(y))
  BY <1>2 DEF LifeRecord, Minded
<1> HIDE DEF y
<1> QED  BY <1>1, <1>2, <1>3, <1>4, StillHeld

LEMMA Ignores == ASSUME LifeInv, NEW t \in Txs, NEW value \in {"yes", "no"}, SetIgnore(t, value) PROVE LifeInv'
<1> DEFINE y == [tx[t] EXCEPT !.forceIgnore = value]
<1>1. tx' = [tx EXCEPT ![t] = y] /\ UNCHANGED <<calls, activeTransactions, rules>>
  BY Zenon DEF SetIgnore
<1>2. RightRecord(tx[t]) /\ tx[t] \in LifeRecord
  BY Held
<1>3. RightRecord(y)
  BY <1>2, FieldsSet
<1>4. y.phase = tx[t].phase /\ y.asked = tx[t].asked /\ (Minded(tx[t]) => Minded(y))
  BY <1>2 DEF LifeRecord, Minded
<1> HIDE DEF y
<1> QED  BY <1>1, <1>2, <1>3, <1>4, StillHeld

LEMMA Gives == ASSUME LifeInv, GetTransaction PROVE LifeInv'
<1> DEFINE t == Current
           y == [tx[t] EXCEPT !.external = TRUE]
<1>1. tx' = [tx EXCEPT ![t] = y] /\ UNCHANGED <<calls, activeTransactions, rules>> /\ MayCallApi
  BY Zenon DEF GetTransaction
<1>2. t \in Txs /\ RightRecord(tx[t]) /\ tx[t] \in LifeRecord
  BY <1>1, Held
<1>3. RightRecord(y)
  BY <1>2, FieldsSet
<1>4. y.phase = tx[t].phase /\ y.asked = tx[t].asked /\ (Minded(tx[t]) => Minded(y))
  BY <1>2 DEF LifeRecord, Minded
<1> HIDE DEF y
<1> QED  BY <1>1, <1>2, <1>3, <1>4, StillHeld

\* An end by which nothing is left undone: nobody's frame is there, or it was asked for.
LEMMA EndsWell ==
    ASSUME LifeInv, NEW t \in Txs, NEW x \in LifeRecord, End(t, x), x.phase = tx[t].phase,
           x.phase = "active" => x.recorded = NoName /\ x.handed = NoName /\ (x.name = NoName \/ RightlyNamed(x)),
           x.phase # "active" => RightRecord(x),
           UNCHANGED <<calls, rules>>, calls = <<>> \/ x.asked
    PROVE  LifeInv'
<1>1. PICK y : /\ Becomes(t, y) /\ RightRecord(y)
               /\ activeTransactions' = activeTransactions + (IF y.phase = "active" THEN 1 ELSE 0)
                                                 - (IF tx[t].phase = "active" THEN 1 ELSE 0)
               /\ y.phase # "active" /\ (tx[t].phase # "none" => y.phase # "none") /\ y.asked = x.asked
  BY Ended DEF LifeInv
<1>2. Creators' = Creators /\ (calls = <<>> => Creators = {})
  BY Held DEF Creators
<1> QED  BY <1>1, <1>2, OneChanges

LEMMA TaskSettles == ASSUME LifeInv, NEW t \in Txs, PromiseSettled(t) PROVE LifeInv'
<1> DEFINE x == [tx[t] EXCEPT !.pending = FALSE]
<1>1. calls = <<>> /\ End(t, x) /\ UNCHANGED <<calls, rules>>
  BY DEF PromiseSettled
<1>2. RightRecord(tx[t]) /\ tx[t] \in LifeRecord
  BY Held
<1>3. RightRecord(x)
  BY <1>2, FieldsSet
<1>4. x.phase = tx[t].phase
  BY <1>2 DEF LifeRecord
<1> HIDE DEF x
<1> QED  BY <1>1, <1>3, <1>4, EndsWell DEF RightRecord

LEMMA HandleEnds == ASSUME LifeInv, NEW t \in Txs, HandleEnd(t) PROVE LifeInv'
<1> DEFINE x == [tx[t] EXCEPT !.asked = TRUE]
<1>1. End(t, x) /\ UNCHANGED <<calls, rules>>
  BY DEF HandleEnd
<1>2. RightRecord(tx[t]) /\ tx[t] \in LifeRecord
  BY Held
<1>3. RightRecord(x)
  BY <1>2, FieldsSet
<1>4. x.phase = tx[t].phase /\ x.asked
  BY <1>2 DEF LifeRecord
<1> HIDE DEF x
<1> QED  BY <1>1, <1>3, <1>4, EndsWell DEF RightRecord

LEMMA ApiEnds == ASSUME LifeInv, EndTransaction PROVE LifeInv'
<1> DEFINE t == Current
           x == [tx[t] EXCEPT !.asked = TRUE]
           y == IF x.type = "web" THEN FinalizedFromUri(x, FALSE) ELSE x
<1>1. MayCallApi /\ End(t, y) /\ UNCHANGED <<calls, rules>>
  BY Zenon DEF EndTransaction
<1>2. t \in Txs /\ RightRecord(tx[t]) /\ tx[t] \in LifeRecord /\ tx[t].phase = "active"
  BY <1>1, Held
<1>3. RightRecord(x)
  BY <1>2, FieldsSet
<1>4. x.phase = tx[t].phase /\ x.asked
  BY <1>2 DEF LifeRecord
<1> HIDE DEF x
<1>5. x \in LifeRecord /\ x.name = NoName /\ x.recorded = NoName /\ x.handed = NoName
  BY <1>2, <1>3, <1>4 DEF RightRecord
<1>6. RightlyNamed(FinalizedFromUri(x, FALSE)) /\ SameOtherwise(x, FinalizedFromUri(x, FALSE))
  BY <1>5, FromUriIsRight DEF LifeInv, Records
<1>7. CASE x.type = "web"
  <2>1. y \in LifeRecord /\ y.phase = tx[t].phase /\ y.recorded = NoName /\ y.handed = NoName /\ y.asked
    BY <1>4, <1>5, <1>6, <1>7 DEF RightlyNamed, SameOtherwise
  <2>2. RightlyNamed(y)
    BY <1>6, <1>7
  <2> HIDE DEF y
  <2> QED  BY <1>1, <1>2, <2>1, <2>2, EndsWell
<1>8. CASE x.type # "web"
  <2>1. y = x
    BY <1>8
  <2> HIDE DEF y
  <2> QED  BY <1>1, <1>2, <1>4, <1>5, <2>1, EndsWell
<1> QED  BY <1>7, <1>8

LEMMA HttpFinishes == ASSUME LifeInv, NEW t \in Txs, NEW bad \in BOOLEAN, HttpFinish(t, bad) PROVE LifeInv'
<1> DEFINE x == FinalizedFromUri(tx[t], bad)
           y == [x EXCEPT !.http = FALSE]
<1>1. tx[t].http /\ calls = <<>> /\ End(t, y) /\ UNCHANGED <<calls, rules>>
  BY Zenon DEF HttpFinish
<1>2. RightRecord(tx[t]) /\ tx[t] \in LifeRecord
  BY Held
<1>3. RightlyNamed(x) /\ SameOtherwise(tx[t], x)
  BY <1>2, FromUriIsRight DEF LifeInv, Records
<1> HIDE DEF x
<1>4. /\ y \in LifeRecord /\ y.phase = x.phase /\ y.name = x.name /\ y.ignore = x.ignore /\ ~y.http
      /\ y.forceName = x.forceName /\ y.forceIgnore = x.forceIgnore
      /\ y.recorded = x.recorded /\ y.handed = x.handed
  BY <1>3 DEF RightlyNamed, LifeRecord
<1> HIDE DEF y
<1>5. RightlyNamed(y)
  BY <1>3, <1>4 DEF RightlyNamed, Forced
<1>6. y.phase = tx[t].phase /\ y.recorded = tx[t].recorded /\ y.handed = tx[t].handed
      /\ y.forceName = tx[t].forceName
  BY <1>3, <1>4 DEF SameOtherwise
<1>7. y.phase = "active" => y.recorded = NoName /\ y.handed = NoName
  BY <1>2, <1>6 DEF RightRecord
<1>8. tx[t].phase # "none"
  BY <1>1, <1>2 DEF RightRecord
<1>9. y.phase # "active" => RightRecord(y)
  BY <1>2, <1>4, <1>6, <1>8 DEF RightRecord, RightlyEnded, LifeRecord
<1> QED  BY <1>1, <1>4, <1>5, <1>6, <1>7, <1>9, EndsWell

\* Rules come, but a user's rule and the segment terms do not go.
LEMMA RulesCome ==
    ASSUME LifeInv, UNCHANGED <<tx, calls, activeTransactions>>, RulesAreRules',
           rules.user = "rename" => rules'.user = "rename", rules.terms => rules'.terms
    PROVE  LifeInv'
<1>1. \A t \in Txs : RightRecord(tx[t])'
  BY DEF LifeInv, Records, RightRecord, RightlyEnded
<1>2. Living' = Living /\ Creators' = Creators
  BY DEF Living, Alive, Creators
<1>3. Records'
  BY <1>1, <1>2 DEF LifeInv, Records
<1>4. Frames'
  BY <1>2 DEF LifeInv, Frames, Alive
<1> QED  BY <1>3, <1>4 DEF LifeInv

LEMMA RulesLoad == ASSUME LifeInv, NEW loaded \in ServerRules, LoadRules(loaded) PROVE LifeInv'
<1>1. loaded \in [url : Outcome, tx : Outcome, terms : BOOLEAN]
  BY LifeAssumption DEF Outcome
<1>2. rules' = [rules EXCEPT !.url = loaded.url, !.tx = loaded.tx, !.terms = loaded.terms] /\ ~rules.terms
      /\ UNCHANGED <<tx, calls, activeTransactions>>
  BY DEF LoadRules
<1>3. rules \in [user : Outcome, url : Outcome, tx : Outcome, terms : BOOLEAN]
  BY DEF LifeInv, Records, RulesAreRules
<1>4. RulesAreRules' /\ rules'.user = rules.user
  BY <1>1, <1>2, <1>3 DEF RulesAreRules
<1> QED  BY <1>2, <1>4, RulesCome

LEMMA UserRuleIsAdded == ASSUME LifeInv, NEW rule \in UserRules, AddUserRule(rule) PROVE LifeInv'
<1>1. rule \in Outcome
  BY LifeAssumption DEF Outcome
<1>2. rules' = [rules EXCEPT !.user = rule] /\ rules.user = "none"
      /\ UNCHANGED <<tx, calls, activeTransactions>>
  BY DEF AddUserRule
<1>3. rules \in [user : Outcome, url : Outcome, tx : Outcome, terms : BOOLEAN]
  BY DEF LifeInv, Records, RulesAreRules
<1>4. RulesAreRules' /\ rules'.terms = rules.terms
  BY <1>1, <1>2, <1>3 DEF RulesAreRules
<1> QED  BY <1>2, <1>4, RulesCome
-----------------------------------------------------------------------------
LEMMA LifeBegins == LifeInit => LifeInv
<1> SUFFICES ASSUME LifeInit PROVE LifeInv
  OBVIOUS
<1>1. RulesAreRules
  BY DEF LifeInit, RulesAreRules, Outcome
<1>2. DOMAIN tx = Txs /\ \A t \in Txs : tx[t] = Unborn
  BY Zenon DEF LifeInit
<1>3. RightRecord(Unborn) /\ Unborn.phase = "none"
  BY <1>1, NewRecord
<1>4. Living = {} /\ activeTransactions = 0
  BY <1>2, <1>3 DEF Living, Alive, LifeInit
<1>5. Records
  BY <1>1, <1>2, <1>3, <1>4, FS_EmptySet DEF Records
<1>6. calls = <<>> /\ calls \in Seq(LifeFrame) /\ Len(calls) = 0
  BY EmptySeq DEF LifeInit
<1>7. Frames
  BY <1>2, <1>3, <1>6 DEF Frames, Creators, Alive
<1> QED  BY <1>5, <1>7 DEF LifeInv

LEMMA LifeSteps == LifeInv /\ [LifeNext]_lifeVars => LifeInv'
<1> SUFFICES ASSUME LifeInv, [LifeNext]_lifeVars PROVE LifeInv'
  OBVIOUS
<1>1. CASE Return  BY <1>1, Returns
<1>2. CASE ReturnPromise  BY <1>2, ReturnsPromise
<1>3. CASE Throw  BY <1>3, Throws
<1>4. CASE SetTransactionName  BY <1>4, Renames
<1>5. CASE SetRoute  BY <1>5, Routes
<1>6. CASE GetTransaction  BY <1>6, Gives
<1>7. CASE EndTransaction  BY <1>7, ApiEnds
<1>8. ASSUME NEW t \in Txs, HttpStart(t) PROVE LifeInv'  BY <1>8, HttpStarts
<1>9. ASSUME NEW t \in Txs, Resume(t) PROVE LifeInv'  BY <1>9, Resumes
<1>10. ASSUME NEW t \in Txs, PromiseSettled(t) PROVE LifeInv'  BY <1>10, TaskSettles
<1>11. ASSUME NEW t \in Txs, HandleEnd(t) PROVE LifeInv'  BY <1>11, HandleEnds
<1>12. ASSUME NEW t \in Txs, NEW type \in {"web", "bg"}, StartTransaction(t, type) PROVE LifeInv'
  BY <1>12, Starts
<1>13. ASSUME NEW t \in Txs, NEW value \in {"yes", "no"}, SetIgnore(t, value) PROVE LifeInv'
  BY <1>13, Ignores
<1>14. ASSUME NEW t \in Txs, NEW bad \in BOOLEAN, HttpFinish(t, bad) PROVE LifeInv'
  BY <1>14, HttpFinishes
<1>15. ASSUME NEW loaded \in ServerRules, LoadRules(loaded) PROVE LifeInv'  BY <1>15, RulesLoad
<1>16. ASSUME NEW rule \in UserRules, AddUserRule(rule) PROVE LifeInv'  BY <1>16, UserRuleIsAdded
<1>17. CASE UNCHANGED lifeVars
  <2>1. UNCHANGED <<tx, calls, activeTransactions>> /\ UNCHANGED rules
    BY <1>17 DEF lifeVars
  <2>2. RulesAreRules'
    BY <2>1 DEF LifeInv, Records, RulesAreRules
  <2> QED  BY <2>1, <2>2, RulesCome
<1> QED  BY <1>1, <1>2, <1>3, <1>4, <1>5, <1>6, <1>7, <1>8, <1>9, <1>10, <1>11, <1>12, <1>13,
            <1>14, <1>15, <1>16, <1>17 DEF LifeNext

\* What the invariant says of the transactions: they end once, by whom they should, and
\* under one name.
LEMMA LivesFollow == LifeInv => LivesCorrect
<1> SUFFICES ASSUME LifeInv PROVE LivesCorrect
  OBVIOUS
<1>1. LifeTypeOK
  BY Held DEF LifeTypeOK, LifeInv, Records, Living, LifeRecord
<1>2. IgnoredRecordsNothing
  BY Held DEF IgnoredRecordsNothing, RightRecord, RightlyEnded
<1>3. OneName
  BY Held DEF OneName, RightRecord, RightlyEnded, LifeRecord
<1>4. ApiNameWins
  BY Held DEF ApiNameWins, RightRecord, RightlyEnded, LifeRecord, OnlyTagged
<1>5. RunsToReturn
  BY CallsUnder DEF RunsToReturn, LifeInv, Frames, Creators
<1>6. NoneForgotten
  BY CallsUnder DEF NoneForgotten, LifeInv, Frames, Creators, Minded
<1> QED  BY <1>1, <1>2, <1>3, <1>4, <1>5, <1>6 DEF LivesCorrect

\* Whatever transactions and rules there are: a transaction is counted while it is active
\* and not after, it ends by its handler's return unless the application asks for an
\* earlier end, someone always has to end it, it is recorded and handed over under one
\* name or not at all, and the API's name comes out, with what the server's rules for
\* transactions and its terms append, unless a rule of the user's renames.
THEOREM LivesAreCorrect == LifeSpec => []LivesCorrect
<1>1. LifeSpec => []LifeInv
  BY LifeBegins, LifeSteps, PTL DEF LifeSpec
<1> QED  BY <1>1, LivesFollow, PTL

-----------------------------------------------------------------------------
(***************************************************************************)
(* Cross application tracing.  A transaction that was called keeps what it *)
(* took from its request, and its caller answers for that: the trip is the *)
(* caller's, and the path hash is among those the caller remembers, unless *)
(* its list is full.                                                       *)
(***************************************************************************)
CallFields == {"state", "name", "hashes", "referring", "guid", "trip", "client", "invalid"}
RequestFields == {"from", "by", "headers", "state", "segment", "appData"}

\* c remembers the hash h.
Remembers(c, h) == h \in catCalls[c].hashes \/ Cardinality(catCalls[c].hashes) = PathHashLimit

CallsAreWhole ==
    /\ DOMAIN catCalls = Calls
    /\ \A t \in Calls :
        LET c == catCalls[t] IN
        /\ DOMAIN c = CallFields
        /\ c.state \in {"none", "open", "ended"} /\ c.name \in NamesOf(t) \cup {0}
        /\ IsFiniteSet(c.hashes) /\ Cardinality(c.hashes) <= PathHashLimit
        /\ c.guid # "none" => /\ c.guid \in Calls /\ catCalls[c.guid].state # "none"
                              /\ c.trip = TripOf(c.guid)
                              /\ Remembers(c.guid, c.referring)

\* What the headers h say of the request's sender, t.
Tells(t, h) ==
    h # Nothing => /\ h.guid = t /\ h.account = AccountOf(AppOf(t)) /\ h.trip = TripOf(t)
                   /\ Remembers(t, h.hash)

\* What the response data d say of the sender's callee, t.
DataOf(t, from, d) ==
    d # Nothing => /\ t \in Calls /\ d.guid = t /\ d.account = AccountOf(AppOf(t))
                   /\ AccountOf(AppOf(from)) \in Trusts(AppOf(t))

WholeRequest(q) ==
    /\ DOMAIN q = RequestFields
    /\ q.from \in Calls /\ catCalls[q.from].state # "none"
    /\ q.state \in {"sent", "served", "responding", "over"}
    /\ Tells(q.from, q.headers)
    /\ q.by # "none" => /\ q.by \in Calls /\ catCalls[q.by].state # "none"
                        /\ catCalls[q.by].client.kind = "account" =>
                               catCalls[q.by].client.id = AccountOf(AppOf(q.from))
    /\ q.state = "served" => q.by # "none"
    /\ q.state = "sent" => q.segment = Nothing /\ q.appData = Nothing
    /\ q.state = "served" => q.segment = Nothing
    /\ q.state = "responding" => q.segment = Nothing
    /\ DataOf(q.by, q.from, q.appData)
    /\ q.segment # Nothing => /\ q.segment.guid = q.by
                              /\ AccountOf(AppOf(q.by)) \in Trusts(AppOf(q.from))
                              /\ AccountOf(AppOf(q.from)) \in Trusts(AppOf(q.by))

AllSent == {outbound[r] : r \in 1 .. Len(outbound)}

RequestsAreWhole ==
    /\ outbound \in Seq(AllSent)
    /\ \A q \in AllSent : WholeRequest(q)

\* What was reported is what the transaction has had since it ended.
ReportsAreTrue ==
    /\ DOMAIN catReported = Calls
    /\ \A t \in Calls :
        /\ catReported[t] = Nothing <=> catCalls[t].state # "ended"
        /\ Traced(t) => /\ catReported[t].caller = catCalls[t].guid
                        /\ catReported[t].hash = PathHash(t, catCalls[t].name)
                        /\ catReported[t].referring = catCalls[t].referring
                        /\ catReported[t].alternates = Alternates(t)

CatInv == CallsAreWhole /\ RequestsAreWhole /\ ReportsAreTrue

-----------------------------------------------------------------------------
LEMMA Limits ==
    /\ First \in Calls /\ "none" \notin Calls /\ PathHashLimit \in Nat
    /\ \A t \in Calls : 0 \notin NamesOf(t) /\ NamesOf(t) \subseteq Nat
BY CatAssumption

\* A sequence of anything is one of its own elements.
LEMMA OwnElements ==
    ASSUME NEW S, NEW s \in Seq(S)
    PROVE  s \in Seq({s[i] : i \in 1 .. Len(s)})
<1> DEFINE T == {s[i] : i \in 1 .. Len(s)}
<1>1. Len(s) \in Nat
  BY LenProperties
<1>2. \A i \in 1 .. Len(s) : s[i] \in T
  OBVIOUS
<1> HIDE DEF T
<1>3. SubSeq(s, 1, Len(s)) \in Seq(T)
  BY <1>1, <1>2, SubSeqProperties
<1>4. SubSeq(s, 1, Len(s)) = s
  BY SubSeqFull
<1> QED  BY <1>3, <1>4 DEF T

LEMMA OutboundIsASequence ==
    ASSUME RequestsAreWhole
    PROVE  Len(outbound) \in Nat /\ DOMAIN outbound = 1 .. Len(outbound)
BY LenProperties DEF RequestsAreWhole

LEMMA RequestAdded ==
    ASSUME RequestsAreWhole, NEW q, outbound' = Append(outbound, q), WholeRequest(q)',
           \A x : WholeRequest(x) => WholeRequest(x)'
    PROVE  RequestsAreWhole'
<1> DEFINE S == AllSent \cup {q}
<1>1. outbound \in Seq(S) /\ q \in S
  BY SeqMonotonic DEF RequestsAreWhole
<1> HIDE DEF S
<1>2. /\ Append(outbound, q) \in Seq(S) /\ Len(outbound) \in Nat
      /\ Len(Append(outbound, q)) = Len(outbound) + 1
      /\ \A i \in 1 .. Len(outbound) : Append(outbound, q)[i] = outbound[i]
      /\ Append(outbound, q)[Len(outbound) + 1] = q
  BY <1>1, AppendProperties, LenProperties
<1>3. outbound' \in Seq(AllSent')
  BY <1>2, OwnElements DEF AllSent
<1>4. \A x \in AllSent' : x = q \/ x \in AllSent
  <2>1. \A r \in 1 .. Len(outbound') : r \in 1 .. Len(outbound) \/ r = Len(outbound) + 1
    BY <1>2
  <2> QED  BY <1>2, <2>1 DEF AllSent
<1>5. \A x \in AllSent' : WholeRequest(x)'
  BY <1>4 DEF RequestsAreWhole
<1> QED  BY <1>3, <1>5 DEF RequestsAreWhole

LEMMA RequestReplaced ==
    ASSUME RequestsAreWhole, NEW r \in 1 .. Len(outbound), NEW q, outbound' = [outbound EXCEPT ![r] = q],
           WholeRequest(q)', \A x : WholeRequest(x) => WholeRequest(x)'
    PROVE  RequestsAreWhole'
<1> DEFINE S == AllSent \cup {q}
<1>1. outbound \in Seq(S) /\ q \in S
  BY SeqMonotonic DEF RequestsAreWhole
<1> HIDE DEF S
<1>2. /\ outbound' \in Seq(S) /\ Len(outbound') = Len(outbound)
      /\ \A j \in 1 .. Len(outbound) : outbound'[j] = IF j = r THEN q ELSE outbound[j]
  BY <1>1, ExceptSeq
<1>3. outbound' \in Seq(AllSent')
  <2>1. outbound' \in Seq({outbound'[i] : i \in 1 .. Len(outbound')})
    <3>1. PICK s : s = outbound'
      OBVIOUS
    <3>2. s \in Seq(S)
      BY <1>2, <3>1
    <3>3. s \in Seq({s[i] : i \in 1 .. Len(s)})
      BY <3>2, OwnElements, Zenon
    <3> QED  BY <3>1, <3>3, Zenon
  <2> QED  BY <2>1 DEF AllSent
<1>4. \A x \in AllSent' : x = q \/ x \in AllSent
  BY <1>2 DEF AllSent
<1>5. \A x \in AllSent' : WholeRequest(x)'
  BY <1>4 DEF RequestsAreWhole
<1> QED  BY <1>3, <1>5 DEF RequestsAreWhole

\* Calls go on: what one has taken from its request stays, and it forgets no hash.
GoesOnWith(t) ==
    catCalls[t].state # "none" =>
        /\ catCalls'[t].state # "none"
        /\ catCalls'[t].guid = catCalls[t].guid /\ catCalls'[t].trip = catCalls[t].trip
        /\ catCalls'[t].referring = catCalls[t].referring /\ catCalls'[t].client = catCalls[t].client
        /\ \A h : Remembers(t, h) => Remembers(t, h)'

LEMMA WholeStays ==
    ASSUME \A t \in Calls : GoesOnWith(t), NEW q, WholeRequest(q)
    PROVE  WholeRequest(q)'
<1>1. GoesOnWith(q.from) /\ catCalls[q.from].state # "none"
  BY DEF WholeRequest
<1>2. TripOf(q.from)' = TripOf(q.from)
  BY <1>1 DEF GoesOnWith, TripOf
<1>3. Tells(q.from, q.headers)'
  BY <1>1, <1>2 DEF WholeRequest, Tells, GoesOnWith
<1>4. q.by # "none" => /\ catCalls'[q.by].state # "none" /\ catCalls'[q.by].client = catCalls[q.by].client
  BY DEF WholeRequest, GoesOnWith
<1> QED  BY <1>1, <1>3, <1>4 DEF WholeRequest, DataOf, GoesOnWith

LEMMA CallsStayWhole ==
    ASSUME CallsAreWhole, NEW t \in Calls, NEW c, catCalls' = [catCalls EXCEPT ![t] = c],
           GoesOnWith(t), catCalls[t].state # "none",
           DOMAIN c = CallFields, c.state \in {"none", "open", "ended"}, c.name \in NamesOf(t) \cup {0},
           IsFiniteSet(c.hashes), Cardinality(c.hashes) <= PathHashLimit
    PROVE  CallsAreWhole' /\ \A u \in Calls : GoesOnWith(u)
<1>1. DOMAIN catCalls' = Calls /\ catCalls'[t] = c /\ \A u \in Calls : u # t => catCalls'[u] = catCalls[u]
  BY DEF CallsAreWhole
<1>2. \A u \in Calls : GoesOnWith(u)
  BY <1>1 DEF GoesOnWith, Remembers
<1>3. \A u \in Calls : catCalls'[u].guid = catCalls[u].guid /\ catCalls'[u].trip = catCalls[u].trip
                       /\ catCalls'[u].referring = catCalls[u].referring
  BY <1>1 DEF GoesOnWith
<1>4. ASSUME NEW u \in Calls, catCalls'[u].guid # "none"
      PROVE  /\ catCalls'[u].guid \in Calls /\ catCalls'[catCalls'[u].guid].state # "none"
             /\ catCalls'[u].trip = TripOf(catCalls[u].guid)'
             /\ Remembers(catCalls[u].guid, catCalls[u].referring)'
  <2>1. PICK g, h : g = catCalls[u].guid /\ h = catCalls[u].referring
    OBVIOUS
  <2>2. /\ g \in Calls /\ catCalls[g].state # "none" /\ catCalls[u].trip = TripOf(g)
        /\ Remembers(g, h) /\ catCalls'[u].guid = g /\ catCalls'[u].referring = h
    BY <1>3, <1>4, <2>1 DEF CallsAreWhole
  <2>3. TripOf(g)' = TripOf(g)
    BY <1>3, <2>2 DEF TripOf
  <2>4. catCalls'[g].state # "none" /\ Remembers(g, h)'
    BY <1>2, <2>2 DEF GoesOnWith
  <2>5. TripOf(catCalls[u].guid)' = TripOf(g)' /\ Remembers(catCalls[u].guid, catCalls[u].referring)'
    BY <2>2, <2>4 DEF TripOf, Remembers
  <2> QED  BY <1>3, <2>2, <2>3, <2>4, <2>5
<1>5. ASSUME NEW u \in Calls
      PROVE  /\ DOMAIN catCalls'[u] = CallFields
             /\ catCalls'[u].state \in {"none", "open", "ended"} /\ catCalls'[u].name \in NamesOf(u) \cup {0}
             /\ IsFiniteSet(catCalls'[u].hashes) /\ Cardinality(catCalls'[u].hashes) <= PathHashLimit
  BY <1>1 DEF CallsAreWhole
<1> QED  BY <1>1, <1>2, <1>4, <1>5 DEF CallsAreWhole

\* A transaction that is not over has not been reported.
LEMMA ReportsStay ==
    ASSUME ReportsAreTrue, UNCHANGED catReported,
           \A u \in Calls : /\ catCalls[u].state = "ended" => catCalls'[u] = catCalls[u]
                            /\ catCalls'[u].state = "ended" => catCalls[u].state = "ended"
    PROVE  ReportsAreTrue'
<1>1. ASSUME NEW u \in Calls
      PROVE  /\ catReported[u] = Nothing <=> catCalls'[u].state # "ended"
             /\ Traced(u) => /\ catReported[u].caller = catCalls'[u].guid
                             /\ catReported[u].hash = PathHash(u, catCalls[u].name)'
                             /\ catReported[u].referring = catCalls'[u].referring
                             /\ catReported[u].alternates = Alternates(u)'
  <2>1. catReported[u] = Nothing <=> catCalls'[u].state # "ended"
    BY DEF ReportsAreTrue
  <2>2. CASE catCalls[u].state = "ended"
    BY <2>1, <2>2 DEF ReportsAreTrue, PathHash, Alternates
  <2>3. CASE catCalls[u].state # "ended"
    <3>1. catReported[u] = Nothing
      BY <2>3 DEF ReportsAreTrue
    <3>2. ~Traced(u)
      BY <3>1 DEF Traced, Nothing
    <3> QED  BY <2>1, <3>2
  <2> QED  BY <2>2, <2>3
<1> QED  BY <1>1 DEF ReportsAreTrue, Traced

\* The first hashes are kept, and once the list is full no more come in.
LEMMA PushedRemembers ==
    ASSUME NEW H, IsFiniteSet(H), Cardinality(H) <= PathHashLimit, NEW h
    PROVE  /\ IsFiniteSet(Pushed(H, h)) /\ Cardinality(Pushed(H, h)) <= PathHashLimit
           /\ H \subseteq Pushed(H, h)
           /\ h \in Pushed(H, h) \/ Cardinality(Pushed(H, h)) = PathHashLimit
           /\ Cardinality(H) = PathHashLimit => Pushed(H, h) = H
<1>1. Cardinality(H) \in Nat /\ PathHashLimit \in Nat
  BY FS_CardinalityType, Limits
<1>2. CASE Cardinality(H) >= PathHashLimit
  BY <1>1, <1>2 DEF Pushed
<1>3. CASE ~(Cardinality(H) >= PathHashLimit)
  <2>1. Pushed(H, h) = H \cup {h}
    BY <1>3 DEF Pushed
  <2>2. IsFiniteSet(H \cup {h}) /\ Cardinality(H \cup {h}) \in {Cardinality(H), Cardinality(H) + 1}
    BY FS_AddElement
  <2>3. Cardinality(H \cup {h}) <= PathHashLimit
    BY <1>1, <1>3, <2>2
  <2> QED  BY <1>1, <1>3, <2>1, <2>2, <2>3
<1> QED  BY <1>2, <1>3

LEMMA RequestsAreSent ==
    ASSUME CatInv, NEW t \in Calls, SendRequest(t)
    PROVE  CatInv'
<1>0. PICK h, x0 : h = CatHeaders(t) /\ x0 = PathHash(t, catCalls[t].name)
  OBVIOUS
<1> DEFINE H == catCalls[t].hashes
           q == [from |-> t, by |-> "none", headers |-> h, state |-> "sent", segment |-> Nothing, appData |-> Nothing]
<1>c. PICK c : c = [catCalls[t] EXCEPT !.hashes = IF h = Nothing THEN H ELSE Pushed(H, x0)]
  OBVIOUS
<1>1. /\ catCalls[t].state = "open" /\ outbound' = Append(outbound, q)
      /\ catCalls' = [catCalls EXCEPT ![t] = c] /\ UNCHANGED catReported
  BY <1>0, <1>c DEF SendRequest
<1>2. /\ DOMAIN catCalls = Calls /\ DOMAIN catCalls[t] = CallFields /\ catCalls[t].name \in NamesOf(t) \cup {0}
      /\ IsFiniteSet(H) /\ Cardinality(H) <= PathHashLimit
  BY DEF CatInv, CallsAreWhole
<1>3. /\ DOMAIN c = CallFields /\ c.state = "open" /\ c.name = catCalls[t].name /\ c.guid = catCalls[t].guid
      /\ c.trip = catCalls[t].trip /\ c.referring = catCalls[t].referring /\ c.client = catCalls[t].client
      /\ c.hashes = IF h = Nothing THEN H ELSE Pushed(H, x0)
  BY <1>1, <1>2, <1>c DEF CallFields
<1>4. catCalls'[t] = c
  BY <1>1, <1>2
<1>5. /\ IsFiniteSet(c.hashes) /\ Cardinality(c.hashes) <= PathHashLimit
      /\ \A x : Remembers(t, x) => Remembers(t, x)'
      /\ h # Nothing => Remembers(t, x0)'
  <2>2. CASE h = Nothing
    BY <1>2, <1>3, <1>4, <2>2 DEF Remembers
  <2>3. CASE h # Nothing
    <3>1. /\ IsFiniteSet(c.hashes) /\ Cardinality(c.hashes) <= PathHashLimit /\ H \subseteq c.hashes
          /\ x0 \in c.hashes \/ Cardinality(c.hashes) = PathHashLimit
          /\ Cardinality(H) = PathHashLimit => c.hashes = H
      BY <1>2, <1>3, <2>3, PushedRemembers
    <3> QED  BY <1>4, <3>1 DEF Remembers
  <2> QED  BY <2>2, <2>3
<1>6. GoesOnWith(t)
  BY <1>3, <1>4, <1>5 DEF GoesOnWith
<1>7. CallsAreWhole' /\ \A u \in Calls : GoesOnWith(u)
  BY <1>1, <1>2, <1>3, <1>5, <1>6, CallsStayWhole DEF CatInv
<1>8. TripOf(t)' = TripOf(t)
  BY <1>3, <1>4 DEF TripOf
<1>9. Tells(t, h)'
  <2>1. h # Nothing => h.guid = t /\ h.account = AccountOf(AppOf(t)) /\ h.trip = TripOf(t)
                       /\ h.hash = x0
    BY <1>0 DEF CatHeaders
  <2> QED  BY <1>5, <1>8, <2>1 DEF Tells
<1>10. WholeRequest(q)'
  <2>1. DOMAIN q = RequestFields
    BY DEF RequestFields
  <2>2. catCalls'[t].state # "none"
    BY <1>3, <1>4
  <2> QED  BY <1>9, <2>1, <2>2 DEF WholeRequest, DataOf, Nothing
<1>11. RequestsAreWhole'
  <2>1. \A x : WholeRequest(x) => WholeRequest(x)'
    BY <1>7, WholeStays
  <2> QED  BY <1>1, <1>10, <2>1, RequestAdded DEF CatInv
<1>12. ReportsAreTrue'
  BY <1>1, <1>2, <1>3, <1>4, ReportsStay DEF CatInv
<1> QED  BY <1>7, <1>11, <1>12 DEF CatInv

\* A name, or the end, changes neither the hashes nor what was taken.
LEMMA CallChanges ==
    ASSUME CatInv, NEW t \in Calls, catCalls[t].state = "open", NEW c,
           c \in {[catCalls[t] EXCEPT !.name = n] : n \in NamesOf(t)} \cup {[catCalls[t] EXCEPT !.state = "ended"]},
           catCalls' = [catCalls EXCEPT ![t] = c], UNCHANGED outbound
    PROVE  /\ CallsAreWhole' /\ RequestsAreWhole'
           /\ catCalls'[t] = c /\ c.hashes = catCalls[t].hashes
           /\ c.guid = catCalls[t].guid /\ c.referring = catCalls[t].referring
<1>1. /\ DOMAIN catCalls = Calls /\ DOMAIN catCalls[t] = CallFields
      /\ catCalls[t].name \in NamesOf(t) \cup {0}
      /\ IsFiniteSet(catCalls[t].hashes) /\ Cardinality(catCalls[t].hashes) <= PathHashLimit
  BY DEF CatInv, CallsAreWhole
<1>2. /\ DOMAIN c = CallFields /\ c.state \in {"open", "ended"} /\ c.name \in NamesOf(t) \cup {0}
      /\ c.guid = catCalls[t].guid /\ c.trip = catCalls[t].trip /\ c.referring = catCalls[t].referring
      /\ c.client = catCalls[t].client /\ c.hashes = catCalls[t].hashes
  BY <1>1 DEF CallFields
<1>3. catCalls'[t] = c
  BY <1>1
<1>4. GoesOnWith(t)
  BY <1>2, <1>3 DEF GoesOnWith, Remembers
<1>5. CallsAreWhole' /\ \A u \in Calls : GoesOnWith(u)
  BY <1>1, <1>2, <1>4, CallsStayWhole DEF CatInv
<1>6. RequestsAreWhole'
  <2>1. \A x : WholeRequest(x) => WholeRequest(x)'
    BY <1>5, WholeStays
  <2> QED  BY <2>1 DEF CatInv, RequestsAreWhole, AllSent
<1> QED  BY <1>2, <1>3, <1>5, <1>6

LEMMA CallsAreNamed ==
    ASSUME CatInv, NEW t \in Calls, NEW n \in NamesOf(t), NameCall(t, n)
    PROVE  CatInv'
<1> DEFINE c == [catCalls[t] EXCEPT !.name = n]
<1>1. /\ catCalls[t].state = "open" /\ UNCHANGED <<outbound, catReported>>
      /\ catCalls' = [catCalls EXCEPT ![t] = c]
  BY DEF NameCall
<1>2. DOMAIN catCalls = Calls /\ DOMAIN catCalls[t] = CallFields
  BY DEF CatInv, CallsAreWhole
<1>3. CallsAreWhole' /\ RequestsAreWhole'
  BY <1>1, CallChanges
<1>4. c.state = "open"
  BY <1>1, <1>2 DEF CallFields
<1>5. ReportsAreTrue'
  BY <1>1, <1>2, <1>4, ReportsStay DEF CatInv
<1> QED  BY <1>3, <1>5 DEF CatInv

LEMMA CallsEnd ==
    ASSUME CatInv, NEW t \in Calls, EndCall(t)
    PROVE  CatInv'
<1> DEFINE c == [catCalls[t] EXCEPT !.state = "ended"]
<1>1. /\ catCalls[t].state = "open" /\ UNCHANGED outbound
      /\ catCalls' = [catCalls EXCEPT ![t] = c]
      /\ catReported' = [catReported EXCEPT ![t] = CatIntrinsics(t)]
  BY DEF EndCall
<1>2. DOMAIN catCalls = Calls /\ DOMAIN catCalls[t] = CallFields /\ DOMAIN catReported = Calls
  BY DEF CatInv, CallsAreWhole, ReportsAreTrue
<1>3. /\ CallsAreWhole' /\ RequestsAreWhole' /\ catCalls'[t] = c /\ c.hashes = catCalls[t].hashes
      /\ c.guid = catCalls[t].guid /\ c.referring = catCalls[t].referring
  BY <1>1, CallChanges
<1>4. c.state = "ended" /\ c.name = catCalls[t].name
  BY <1>1, <1>2 DEF CallFields
<1> HIDE DEF c
<1>5. PathHash(t, catCalls[t].name)' = PathHash(t, catCalls[t].name) /\ Alternates(t)' = Alternates(t)
  BY <1>3, <1>4 DEF PathHash, Alternates
<1>6. catReported'[t] = CatIntrinsics(t)
  BY <1>1, <1>2
<1>7. /\ CatIntrinsics(t).kind \in {"intrinsics", "plain"}
      /\ CatIntrinsics(t).kind = "intrinsics" =>
            /\ CatIntrinsics(t).caller = catCalls[t].guid
            /\ CatIntrinsics(t).hash = PathHash(t, catCalls[t].name)
            /\ CatIntrinsics(t).referring = catCalls[t].referring
            /\ CatIntrinsics(t).alternates = Alternates(t)
  BY DEF CatIntrinsics
<1>8. ASSUME NEW u \in Calls
      PROVE  /\ catReported'[u] = Nothing <=> catCalls'[u].state # "ended"
             /\ Traced(u)' => /\ catReported'[u].caller = catCalls'[u].guid
                              /\ catReported'[u].hash = PathHash(u, catCalls[u].name)'
                              /\ catReported'[u].referring = catCalls'[u].referring
                              /\ catReported'[u].alternates = Alternates(u)'
  <2>1. CASE u = t
    <3>1. catReported'[u] # Nothing
      BY <1>6, <1>7, <2>1 DEF Nothing
    <3> QED  BY <1>3, <1>4, <1>5, <1>6, <1>7, <2>1, <3>1 DEF Traced
  <2>2. CASE u # t
    <3>1. catReported'[u] = catReported[u] /\ catCalls'[u] = catCalls[u]
      BY <1>1, <1>2, <2>2
    <3> QED  BY <3>1 DEF CatInv, ReportsAreTrue, Traced, PathHash, Alternates
  <2> QED  BY <2>1, <2>2
<1>9. DOMAIN catReported' = Calls
  BY <1>1, <1>2
<1> QED  BY <1>3, <1>8, <1>9 DEF CatInv, ReportsAreTrue

\* What a transaction takes from headers that can be trusted to be whole.
LEMMA TakenIsWhole ==
    ASSUME NEW t \in Calls, NEW from \in Calls, NEW h, Tells(from, h)
    PROVE  LET c == TakenFrom(t, h) IN
           /\ DOMAIN c = CallFields /\ c.state = "open" /\ c.name = 0 /\ c.hashes = {}
           /\ c.guid # "none" => c.guid = from /\ c.trip = TripOf(from) /\ Remembers(from, c.referring)
           /\ c.client.kind = "account" => c.client.id = AccountOf(AppOf(from))
<1> DEFINE c == TakenFrom(t, h)
           n == [NotCalled EXCEPT !.state = "open"]
           g == [NotCalled EXCEPT !.state = "open", !.client = [kind |-> "garbage"]]
           w == [NotCalled EXCEPT !.state = "open", !.referring = h.hash, !.guid = h.guid,
                                  !.trip = h.trip, !.client = [kind |-> "account", id |-> h.account]]
<1>1. c = n \/ c = g \/ (h # Nothing /\ c = w)
  BY DEF TakenFrom
<1>2. /\ DOMAIN n = CallFields /\ n.state = "open" /\ n.name = 0 /\ n.hashes = {} /\ n.guid = "none"
      /\ n.client.kind = "nothing"
  BY DEF NotCalled, CallFields, Nothing
<1>3. /\ DOMAIN g = CallFields /\ g.state = "open" /\ g.name = 0 /\ g.hashes = {} /\ g.guid = "none"
      /\ g.client.kind = "garbage"
  BY DEF NotCalled, CallFields
<1>4. /\ DOMAIN w = CallFields /\ w.state = "open" /\ w.name = 0 /\ w.hashes = {} /\ w.guid = h.guid
      /\ w.trip = h.trip /\ w.referring = h.hash /\ w.client.id = h.account
  BY DEF NotCalled, CallFields
<1> HIDE DEF c, n, g, w
<1>5. CASE c = n \/ c = g
  BY <1>2, <1>3, <1>5 DEF c
<1>6. CASE h # Nothing /\ c = w
  BY <1>4, <1>6 DEF Tells, c
<1> QED  BY <1>1, <1>5, <1>6

LEMMA RequestsAreServed ==
    ASSUME CatInv, NEW t \in Calls, NEW r \in DOMAIN outbound, ServeRequest(r, t)
    PROVE  CatInv'
<1>0. PICK q, c, p : q = outbound[r] /\ c = TakenFrom(t, q.headers) /\ p = [q EXCEPT !.state = "served", !.by = t]
  OBVIOUS
<1>1. /\ q.state = "sent" /\ catCalls[t].state = "none" /\ UNCHANGED catReported
      /\ catCalls' = [catCalls EXCEPT ![t] = c]
  BY <1>0 DEF ServeRequest
<1>2. r \in 1 .. Len(outbound) /\ DOMAIN outbound = 1 .. Len(outbound)
  BY OutboundIsASequence DEF CatInv
<1>3. WholeRequest(q)
  BY <1>0, <1>2 DEF CatInv, RequestsAreWhole, AllSent
<1>4. DOMAIN q = RequestFields
  BY <1>3 DEF WholeRequest
<1>5. outbound' = [outbound EXCEPT ![r] = p]
  BY <1>0 DEF ServeRequest
<1>6. /\ DOMAIN p = RequestFields /\ p.from = q.from /\ p.by = t /\ p.headers = q.headers /\ p.state = "served"
      /\ p.segment = q.segment /\ p.appData = q.appData
  BY <1>0, <1>4 DEF RequestFields
<1>7. DOMAIN catCalls = Calls
  BY DEF CatInv, CallsAreWhole
<1>8. /\ DOMAIN c = CallFields /\ c.state = "open" /\ c.name = 0 /\ c.hashes = {}
      /\ c.guid # "none" => c.guid = q.from /\ c.trip = TripOf(q.from) /\ Remembers(q.from, c.referring)
      /\ c.client.kind = "account" => c.client.id = AccountOf(AppOf(q.from))
  BY <1>0, <1>3, TakenIsWhole DEF WholeRequest
<1>9. catCalls'[t] = c /\ \A u \in Calls : u # t => catCalls'[u] = catCalls[u]
  BY <1>1, <1>7
<1>10. \A u \in Calls : GoesOnWith(u)
  BY <1>1, <1>9 DEF GoesOnWith, Remembers
<1>11. /\ q.from \in Calls /\ catCalls[q.from].state # "none" /\ q.from # t
       /\ TripOf(q.from)' = TripOf(q.from) /\ \A x : Remembers(q.from, x) => Remembers(q.from, x)'
  <2>1. q.from \in Calls /\ catCalls[q.from].state # "none"
    BY <1>3 DEF WholeRequest
  <2> QED  BY <1>1, <1>9, <2>1 DEF TripOf, Remembers
<1>12. CallsAreWhole'
  <2>1. ASSUME NEW u \in Calls, catCalls'[u].guid # "none"
        PROVE  /\ catCalls'[u].guid \in Calls /\ catCalls'[catCalls'[u].guid].state # "none"
               /\ catCalls'[u].trip = TripOf(catCalls[u].guid)'
               /\ Remembers(catCalls[u].guid, catCalls[u].referring)'
    <3>1. CASE u = t
      <4>1. catCalls'[q.from].state # "none"
        BY <1>9, <1>11
      <4>2. /\ catCalls'[u] = c /\ c.guid = q.from /\ c.trip = TripOf(q.from) /\ Remembers(q.from, c.referring)'
        BY <1>8, <1>9, <1>11, <2>1, <3>1
      <4>3. TripOf(catCalls[u].guid)' = TripOf(q.from)' /\ Remembers(catCalls[u].guid, catCalls[u].referring)'
        BY <4>2 DEF TripOf, Remembers
      <4> QED  BY <1>11, <4>1, <4>2, <4>3
    <3>2. CASE u # t
      <4>1. PICK f, h : f = catCalls[u].guid /\ h = catCalls[u].referring
        OBVIOUS
      <4>2. /\ catCalls'[u] = catCalls[u] /\ f \in Calls /\ catCalls[f].state # "none"
            /\ catCalls[u].trip = TripOf(f) /\ Remembers(f, h)
        BY <1>9, <2>1, <3>2, <4>1 DEF CatInv, CallsAreWhole
      <4>3. f # t /\ catCalls'[f] = catCalls[f]
        BY <1>1, <1>9, <4>2
      <4>4. TripOf(f)' = TripOf(f) /\ Remembers(f, h)'
        BY <4>2, <4>3 DEF TripOf, Remembers
      <4>5. TripOf(catCalls[u].guid)' = TripOf(f)' /\ Remembers(catCalls[u].guid, catCalls[u].referring)'
        BY <4>1, <4>2, <4>4 DEF TripOf, Remembers
      <4> QED  BY <4>1, <4>2, <4>3, <4>4, <4>5
    <3> QED  BY <3>1, <3>2
  <2>2. IsFiniteSet({}) /\ Cardinality({}) = 0 /\ 0 <= PathHashLimit
    BY FS_EmptySet, Limits
  <2>3. ASSUME NEW u \in Calls
        PROVE  /\ DOMAIN catCalls'[u] = CallFields
               /\ catCalls'[u].state \in {"none", "open", "ended"} /\ catCalls'[u].name \in NamesOf(u) \cup {0}
               /\ IsFiniteSet(catCalls'[u].hashes) /\ Cardinality(catCalls'[u].hashes) <= PathHashLimit
    <3>1. CASE u = t
      BY <1>8, <1>9, <2>2, <3>1
    <3>2. CASE u # t
      BY <1>9, <3>2 DEF CatInv, CallsAreWhole
    <3> QED  BY <3>1, <3>2
  <2>4. DOMAIN catCalls' = Calls
    BY <1>1, <1>7
  <2> QED  BY <2>1, <2>3, <2>4 DEF CallsAreWhole
<1>13. WholeRequest(p)'
  <2>1. Tells(q.from, q.headers)'
    BY <1>3, <1>11 DEF WholeRequest, Tells
  <2>2. q.segment = Nothing /\ q.appData = Nothing
    BY <1>1, <1>3 DEF WholeRequest
  <2>3. catCalls'[q.from].state # "none" /\ catCalls'[t].state # "none" /\ t # "none"
    BY <1>8, <1>9, <1>11, Limits
  <2> QED  BY <1>6, <1>8, <1>9, <1>11, <2>1, <2>2, <2>3 DEF WholeRequest, DataOf
<1>14. RequestsAreWhole'
  <2>1. \A x : WholeRequest(x) => WholeRequest(x)'
    BY <1>10, WholeStays
  <2> QED  BY <1>2, <1>5, <1>13, <2>1, RequestReplaced DEF CatInv
<1>15. ReportsAreTrue'
  BY <1>1, <1>8, <1>9, ReportsStay DEF CatInv
<1> QED  BY <1>12, <1>14, <1>15 DEF CatInv

\* The response: nothing of the calls changes.
LEMMA OnlyOutbound ==
    ASSUME CatInv, UNCHANGED <<catCalls, catReported>>, NEW r \in 1 .. Len(outbound), NEW p,
           outbound' = [outbound EXCEPT ![r] = p], WholeRequest(p)
    PROVE  CatInv'
<1>1. CallsAreWhole' /\ ReportsAreTrue'
  BY DEF CatInv, CallsAreWhole, ReportsAreTrue, TripOf, Remembers, Traced, PathHash, Alternates
<1>2. \A t \in Calls : GoesOnWith(t)
  BY DEF GoesOnWith, Remembers
<1>3. \A x : WholeRequest(x) => WholeRequest(x)'
  BY <1>2, WholeStays
<1> QED  BY <1>1, <1>3, RequestReplaced DEF CatInv

LEMMA ResponsesAreWhole ==
    ASSUME CatInv, NEW r \in DOMAIN outbound, WriteHead(r) \/ HandleResponse(r)
    PROVE  CatInv'
<1> DEFINE q == outbound[r]
<1>1. r \in 1 .. Len(outbound) /\ DOMAIN outbound = 1 .. Len(outbound)
  BY OutboundIsASequence DEF CatInv
<1>2. WholeRequest(q) /\ DOMAIN q = RequestFields
  BY <1>1 DEF CatInv, RequestsAreWhole, AllSent, WholeRequest
<1>3. UNCHANGED <<catCalls, catReported>>
  BY DEF WriteHead, HandleResponse
<1>4. CASE WriteHead(r)
  <2> DEFINE t == q.by
             app == AppOf(t)
             client == catCalls[t].client
             named == client.kind = "account" /\ client.id \in Trusts(app) /\ EncodingKey(app) # "none"
             data == [kind |-> "data", key |-> EncodingKey(app), account |-> AccountOf(app), app |-> app,
                      name |-> catCalls[t].name, guid |-> t]
             d == IF named THEN data ELSE Nothing
             p == [q EXCEPT !.state = "responding", !.appData = d]
  <2>1. q.state = "served" /\ outbound' = [outbound EXCEPT ![r] = p]
    BY <1>4 DEF WriteHead
  <2>2. t \in Calls /\ q.segment = Nothing /\ (client.kind = "account" => client.id = AccountOf(AppOf(q.from)))
    BY <1>2, <2>1 DEF WholeRequest
  <2>3. d # Nothing => d.guid = t /\ d.account = AccountOf(app) /\ named
    OBVIOUS
  <2> HIDE DEF d
  <2>4. DataOf(t, q.from, d)
    BY <2>2, <2>3 DEF DataOf
  <2>5. /\ DOMAIN p = RequestFields /\ p.from = q.from /\ p.by = q.by /\ p.headers = q.headers
        /\ p.state = "responding" /\ p.segment = q.segment /\ p.appData = d
    BY <1>2 DEF RequestFields
  <2> HIDE DEF p
  <2>6. WholeRequest(p)
    BY <1>2, <2>2, <2>4, <2>5 DEF WholeRequest
  <2> QED  BY <1>1, <1>3, <2>1, <2>6, OnlyOutbound
<1>5. CASE HandleResponse(r)
  <2> DEFINE data == q.appData
             app == AppOf(q.from)
             named == data # Nothing /\ EncodingKey(app) \in {"none", data.key} /\ data.account \in Trusts(app)
             s == IF named THEN data ELSE Nothing
             p == [q EXCEPT !.state = "over", !.segment = s]
  <2>1. q.state = "responding" /\ outbound' = [outbound EXCEPT ![r] = p]
    BY <1>5 DEF HandleResponse
  <2>2. DataOf(q.by, q.from, data)
    BY <1>2 DEF WholeRequest
  <2>3. s # Nothing => s = data /\ named
    OBVIOUS
  <2> HIDE DEF s
  <2>4. s # Nothing => /\ s.guid = q.by
                       /\ AccountOf(AppOf(q.by)) \in Trusts(app)
                       /\ AccountOf(app) \in Trusts(AppOf(q.by))
    BY <2>2, <2>3 DEF DataOf
  <2>5. /\ DOMAIN p = RequestFields /\ p.from = q.from /\ p.by = q.by /\ p.headers = q.headers
        /\ p.state = "over" /\ p.segment = s /\ p.appData = data
    BY <1>2 DEF RequestFields
  <2> HIDE DEF p
  <2>6. WholeRequest(p)
    BY <1>2, <2>4, <2>5 DEF WholeRequest
  <2> QED  BY <1>1, <1>3, <2>1, <2>6, OnlyOutbound
<1> QED  BY <1>4, <1>5

LEMMA CatInvAlways == CatSpec => []CatInv
<1>1. CatInit => CatInv
  <2> SUFFICES ASSUME CatInit PROVE CatInv
    OBVIOUS
  <2>1. IsFiniteSet({}) /\ Cardinality({}) = 0 /\ 0 <= PathHashLimit
    BY FS_EmptySet, Limits
  <2>2. \A t \in Calls : catCalls[t] = NotCalled \/ catCalls[t] = [NotCalled EXCEPT !.state = "open"]
    BY DEF CatInit
  <2>3. \A c \in {NotCalled, [NotCalled EXCEPT !.state = "open"]} :
           /\ DOMAIN c = CallFields /\ c.state \in {"none", "open"} /\ c.name = 0 /\ c.hashes = {} /\ c.guid = "none"
    BY DEF NotCalled, CallFields
  <2>4. \A t \in Calls :
           /\ DOMAIN catCalls[t] = CallFields /\ catCalls[t].state \in {"none", "open"} /\ catCalls[t].name = 0
           /\ catCalls[t].hashes = {} /\ catCalls[t].guid = "none"
    BY <2>2, <2>3
  <2>5. CallsAreWhole
    BY <2>1, <2>4 DEF CallsAreWhole, CatInit
  <2>6. RequestsAreWhole
    <3>1. outbound = <<>>
      BY DEF CatInit
    <3>2. Len(<<>>) = 0 /\ \A S : <<>> \in Seq(S)
      BY EmptySeq
    <3> QED  BY <3>1, <3>2 DEF RequestsAreWhole, AllSent
  <2>7. ReportsAreTrue
    <3>1. DOMAIN catReported = Calls /\ \A t \in Calls : catReported[t] = Nothing
      BY DEF CatInit
    <3>2. Nothing.kind # "intrinsics"
      BY DEF Nothing
    <3> QED  BY <2>4, <3>1, <3>2 DEF ReportsAreTrue, Traced
  <2> QED  BY <2>5, <2>6, <2>7 DEF CatInv
<1>2. CatInv /\ [CatNext]_catVars => CatInv'
  <2> SUFFICES ASSUME CatInv, [CatNext]_catVars PROVE CatInv'
    OBVIOUS
  <2>1. CASE UNCHANGED catVars
    BY <2>1 DEF catVars, CatInv, CallsAreWhole, RequestsAreWhole, AllSent, ReportsAreTrue, WholeRequest, Tells, DataOf,
                TripOf, Remembers, Traced, PathHash, Alternates
  <2>2. CASE CatNext
    BY <2>2, RequestsAreSent, CallsAreNamed, CallsEnd, RequestsAreServed, ResponsesAreWhole DEF CatNext
  <2> QED  BY <2>1, <2>2
<1> QED  BY <1>1, <1>2, PTL DEF CatSpec

\* For any applications, keys, accounts and names: a path that was called along is one the caller
\* answers for, however it was renamed between its requests; a trip is one for all that are on
\* it; and a segment names another application's transaction only where each trusts the other.
THEOREM AcrossApplicationsIsCorrect == CatSpec => []CrossApplicationCorrect
<1>1. CatInv => CrossApplicationCorrect
  <2> SUFFICES ASSUME CatInv PROVE CrossApplicationCorrect
    OBVIOUS
  <2>1. DOMAIN outbound = 1 .. Len(outbound)
    BY OutboundIsASequence DEF CatInv
  <2>2. CatTypeOK
    BY <2>1 DEF CatTypeOK, CatInv, CallsAreWhole, RequestsAreWhole, AllSent, WholeRequest, ReportsAreTrue
  <2>3. AlternatesAreOthers
    BY DEF AlternatesAreOthers, Alternates, CatInv, ReportsAreTrue
  <2>4. ASSUME NEW t \in Calls, NEW c \in Calls, Traced(t), catReported[t].caller = c
        PROVE  catCalls[t].trip = TripOf(c) /\ Remembers(c, catReported[t].referring)
    <3>1. catCalls[t].guid = c /\ c # "none" /\ catReported[t].referring = catCalls[t].referring
      BY <2>4, Limits DEF CatInv, ReportsAreTrue
    <3> QED  BY <3>1 DEF CatInv, CallsAreWhole
  <2>5. OneTrip
    BY <2>4 DEF OneTrip
  <2>6. ASSUME NEW t \in Calls, NEW c \in Calls, Traced(t), Traced(c), catReported[t].caller = c
        PROVE  \/ catReported[t].referring \in {catReported[c].hash} \cup catReported[c].alternates
               \/ Cardinality(catCalls[c].hashes) = PathHashLimit
    <3>1. catReported[c].hash = PathHash(c, catCalls[c].name) /\ catReported[c].alternates = Alternates(c)
      BY <2>6 DEF CatInv, ReportsAreTrue
    <3> QED  BY <2>4, <2>6, <3>1 DEF Remembers, Alternates
  <2>7. OnlyTrustedAreNamed
    BY <2>1 DEF OnlyTrustedAreNamed, CatInv, RequestsAreWhole, AllSent, WholeRequest
  <2> QED  BY <2>2, <2>3, <2>5, <2>6, <2>7 DEF CrossApplicationCorrect, PathsMeet
<1> QED  BY <1>1, CatInvAlways, PTL

-----------------------------------------------------------------------------
(***************************************************************************)
(* The context that code runs in.  A segment and the transaction code is   *)
(* part of fit if they are the same or if neither is active.  The segment  *)
(* that is current fits the innermost frame, what a frame restores fits    *)
(* the frame below, and so do what a task is bound to and what a promise   *)
(* has in the map.                                                         *)
(***************************************************************************)
JsFrame == [kind : {"bound", "hook"}, prev : Anyone, promise : Promises \cup {NoTx}, part : Anyone]
PromiseState == [phase : {"none", "waiting", "running", "done", "rejected", "gone"}, part : Anyone]

AsyncShape ==
    /\ current \in Anyone
    /\ jsFrames \in Seq(JsFrame)
    /\ tasks \subseteq [bound : Anyone, part : Anyone]
    /\ segmentMap \in [Promises -> Anyone \cup {Absent}]
    /\ promise \in [Promises -> PromiseState]
    /\ state \in [AsyncTxs -> {"none", "active", "ended"}]

\* A transaction that something refers to has begun.
Begun(r) == r = NoTx \/ state[r] # "none"

OnlyBegun ==
    /\ Begun(current)
    /\ \A i \in 1 .. Len(jsFrames) : Begun(jsFrames[i].prev) /\ Begun(jsFrames[i].part)
    /\ \A t \in tasks : Begun(t.bound) /\ Begun(t.part)
    /\ \A p \in Promises : /\ Begun(promise[p].part)
                           /\ segmentMap[p] # Absent => Begun(segmentMap[p])

Fits(segment, part) == segment = part \/ (~Active(segment) /\ ~Active(part))

\* The outermost frame is the one that leaves nothing behind: it was entered without a
\* segment, and a hook's promise holds none for it.
Outermost(f) ==
    IF f.kind = "bound" THEN f.prev = NoTx
    ELSE /\ f.promise \in Promises /\ promise[f.promise].phase = "running" /\ promise[f.promise].part = f.part
         /\ segmentMap[f.promise] = Absent => IF Len(jsFrames) = 1 THEN current = NoTx ELSE jsFrames[2].prev = NoTx

StackFits ==
    /\ jsFrames = <<>> => current = NoTx
    /\ jsFrames # <<>> => Fits(current, jsFrames[Len(jsFrames)].part) /\ Outermost(jsFrames[1])
    /\ \A i \in 2 .. Len(jsFrames) :
          jsFrames[i].kind = "bound" /\ Fits(jsFrames[i].prev, jsFrames[i - 1].part)

NoSegmentIn(p) == segmentMap[p] \in {NoTx, Absent}

PromisesFit ==
    \A p \in Promises :
        /\ segmentMap[p] # Absent => promise[p].phase \notin {"none", "gone"}
        /\ segmentMap[p] \in {promise[p].part, NoTx, Absent}
        /\ promise[p].phase = "running" => NoSegmentIn(p)
        /\ promise[p].phase \in {"waiting", "done", "rejected"} /\ NoSegmentIn(p) => ~Active(promise[p].part)

TasksFit == \A t \in tasks : Fits(t.bound, t.part)

AsyncInv == AsyncShape /\ OnlyBegun /\ StackFits /\ TasksFit /\ PromisesFit

-----------------------------------------------------------------------------
LEMMA NobodyIsATransaction ==
    ~Active(NoTx) /\ ~Active(Absent) /\ NoTx # Absent /\ NoTx \in Anyone /\ NoTx \notin AsyncTxs
    /\ NoTx \notin Promises /\ AsyncTxs \subseteq Anyone /\ Absent \notin Anyone
BY AsyncAssumption DEF Active, Anyone, NoTx, Absent

\* What has begun goes on or ends.
Ages == \A r \in Anyone : Begun(r) => Begun(r)' /\ (Active(r)' => Active(r))

LEMMA FitsStays ==
    ASSUME Ages, NEW c \in Anyone, NEW p \in Anyone, Begun(c), Begun(p), Fits(c, p)
    PROVE  Fits(c, p)'
BY DEF Ages, Fits

LEMMA StateAges ==
    ASSUME AsyncShape,
           \/ UNCHANGED state
           \/ \E t \in AsyncTxs : state[t] = "none" /\ state' = [state EXCEPT ![t] = "active"]
           \/ \E t \in AsyncTxs : state[t] = "active" /\ state' = [state EXCEPT ![t] = "ended"]
    PROVE  Ages /\ state' \in [AsyncTxs -> {"none", "active", "ended"}]
<1>1. CASE UNCHANGED state
  BY <1>1 DEF AsyncShape, Ages, Begun, Active
<1>2. ASSUME NEW t \in AsyncTxs, state[t] = "none", state' = [state EXCEPT ![t] = "active"]
      PROVE  Ages /\ state' \in [AsyncTxs -> {"none", "active", "ended"}]
  BY <1>2, NobodyIsATransaction DEF AsyncShape, Ages, Begun, Active, Anyone
<1>3. ASSUME NEW t \in AsyncTxs, state[t] = "active", state' = [state EXCEPT ![t] = "ended"]
      PROVE  Ages /\ state' \in [AsyncTxs -> {"none", "active", "ended"}]
  BY <1>3, NobodyIsATransaction DEF AsyncShape, Ages, Begun, Active, Anyone
<1> QED  BY <1>1, <1>2, <1>3

LEMMA StackProperties ==
    ASSUME AsyncShape
    PROVE  /\ Len(jsFrames) \in Nat /\ DOMAIN jsFrames = 1 .. Len(jsFrames)
           /\ jsFrames = <<>> <=> Len(jsFrames) = 0
           /\ \A i \in 1 .. Len(jsFrames) : jsFrames[i] \in JsFrame
<1>1. jsFrames \in Seq(JsFrame)
  BY DEF AsyncShape
<1> QED  BY <1>1, LenProperties, ElementOfSeq, EmptySeq

LEMMA FramePushed ==
    ASSUME AsyncShape, NEW f \in JsFrame, jsFrames' = Append(jsFrames, f)
    PROVE  /\ jsFrames' \in Seq(JsFrame) /\ jsFrames' # <<>>
           /\ Len(jsFrames') = Len(jsFrames) + 1 /\ jsFrames'[Len(jsFrames) + 1] = f
           /\ \A i \in 1 .. Len(jsFrames) : jsFrames'[i] = jsFrames[i]
BY AppendProperties, StackProperties DEF AsyncShape

LEMMA FramePopped ==
    ASSUME AsyncShape, Running, jsFrames' = SubSeq(jsFrames, 1, Len(jsFrames) - 1)
    PROVE  /\ jsFrames' \in Seq(JsFrame) /\ Len(jsFrames') = Len(jsFrames) - 1
           /\ jsFrames' = <<>> <=> Len(jsFrames) = 1
           /\ \A i \in 1 .. Len(jsFrames) - 1 : jsFrames'[i] = jsFrames[i]
<1>1. PICK s, n : s = jsFrames /\ n = Len(jsFrames)
  OBVIOUS
<1>2. s \in Seq(JsFrame) /\ n = Len(s) /\ n \in Nat /\ n >= 1 /\ \A i \in 1 .. n : s[i] \in JsFrame
  BY <1>1, StackProperties DEF Running, AsyncShape
<1>3. n - 1 \in Nat /\ \A i \in 1 .. n - 1 : s[i] \in JsFrame
  BY <1>2
<1>4. /\ SubSeq(s, 1, n - 1) \in Seq(JsFrame) /\ Len(SubSeq(s, 1, n - 1)) = n - 1
      /\ \A i \in 1 .. n - 1 : SubSeq(s, 1, n - 1)[i] = s[i]
  <2>1. /\ SubSeq(s, 1, n - 1) \in Seq(JsFrame)
        /\ Len(SubSeq(s, 1, n - 1)) = (IF 1 <= n - 1 THEN (n - 1) - 1 + 1 ELSE 0)
        /\ \A i \in 1 .. (n - 1) - 1 + 1 : SubSeq(s, 1, n - 1)[i] = s[1 + i - 1]
    BY <1>2, <1>3, SubSeqProperties
  <2> QED  BY <1>2, <1>3, <2>1
<1>5. SubSeq(s, 1, n - 1) = <<>> <=> n - 1 = 0
  BY <1>4, EmptySeq
<1> QED  BY <1>1, <1>2, <1>4, <1>5

LEMMA CurrentFits ==
    ASSUME AsyncInv
    PROVE  Fits(current, Part) /\ Begun(Part) /\ Part \in Anyone /\ Begun(current) /\ current \in Anyone
<1>1. CASE ~Running
  BY <1>1, NobodyIsATransaction DEF Running, AsyncInv, StackFits, Fits, Part, Begun
<1>2. CASE Running
  <2>1. Len(jsFrames) \in 1 .. Len(jsFrames) /\ jsFrames[Len(jsFrames)] \in JsFrame
    BY <1>2, StackProperties DEF Running, AsyncInv
  <2> QED  BY <1>2, <2>1 DEF Running, AsyncInv, AsyncShape, OnlyBegun, StackFits, Part, LastFrame, JsFrame
<1>3. Begun(current) /\ current \in Anyone
  BY DEF AsyncInv, OnlyBegun, AsyncShape
<1> QED  BY <1>1, <1>2, <1>3

\* What a step leaves alone stays right while transactions begin and end.
LEMMA TasksStay ==
    ASSUME AsyncInv, Ages, tasks' \subseteq tasks
    PROVE  /\ tasks' \subseteq [bound : Anyone, part : Anyone] /\ TasksFit'
           /\ \A t \in tasks' : Begun(t.bound)' /\ Begun(t.part)'
<1>1. ASSUME NEW t \in tasks'
      PROVE  /\ t \in [bound : Anyone, part : Anyone]
             /\ Fits(t.bound, t.part)' /\ Begun(t.bound)' /\ Begun(t.part)'
  <2>1. /\ t.bound \in Anyone /\ t.part \in Anyone /\ Begun(t.bound) /\ Begun(t.part) /\ Fits(t.bound, t.part)
        /\ t \in [bound : Anyone, part : Anyone]
    BY <1>1 DEF AsyncInv, AsyncShape, OnlyBegun, TasksFit
  <2> QED  BY <2>1, FitsStays DEF Ages
<1> QED  BY <1>1 DEF TasksFit

LEMMA PromiseStays ==
    ASSUME AsyncInv, Ages, NEW p \in Promises, promise'[p] = promise[p], segmentMap'[p] = segmentMap[p]
    PROVE  /\ Begun(promise[p].part)' /\ (segmentMap'[p] # Absent => Begun(segmentMap[p])')
           /\ segmentMap'[p] # Absent => promise'[p].phase \notin {"none", "gone"}
           /\ segmentMap'[p] \in {promise'[p].part, NoTx, Absent}
           /\ promise'[p].phase = "running" => NoSegmentIn(p)'
           /\ promise'[p].phase \in {"waiting", "done", "rejected"} /\ NoSegmentIn(p)' => ~Active(promise[p].part)'
<1>1. PICK u, m : u = promise[p] /\ m = segmentMap[p]
  OBVIOUS
<1>2. u \in PromiseState /\ m \in Anyone \cup {Absent} /\ u.part \in Anyone
  BY <1>1 DEF AsyncInv, AsyncShape, PromiseState
<1>3. /\ Begun(u.part) /\ (m # Absent => Begun(m))
      /\ m # Absent => u.phase \notin {"none", "gone"}
      /\ m \in {u.part, NoTx, Absent}
      /\ u.phase = "running" => m \in {NoTx, Absent}
      /\ u.phase \in {"waiting", "done", "rejected"} /\ m \in {NoTx, Absent} => ~Active(u.part)
  BY <1>1 DEF AsyncInv, OnlyBegun, PromisesFit, NoSegmentIn
<1>4. Begun(u.part)' /\ (m # Absent => Begun(m)') /\ (~Active(u.part) => ~Active(u.part)')
  BY <1>2, <1>3 DEF Ages
<1>5. promise'[p] = u /\ segmentMap'[p] = m
  BY <1>1
<1> QED  BY <1>3, <1>4, <1>5 DEF NoSegmentIn, Begun, Active

LEMMA PromisesStay ==
    ASSUME AsyncInv, Ages, UNCHANGED <<segmentMap, promise>>
    PROVE  /\ PromisesFit' /\ segmentMap' \in [Promises -> Anyone \cup {Absent}] /\ promise' \in [Promises -> PromiseState]
           /\ \A p \in Promises : Begun(promise[p].part)' /\ (segmentMap'[p] # Absent => Begun(segmentMap[p])')
BY PromiseStays DEF PromisesFit, AsyncInv, AsyncShape

LEMMA StackStays ==
    ASSUME AsyncInv, Ages, UNCHANGED <<current, jsFrames>>,
           \A p \in Promises : promise[p].phase = "running" => promise'[p] = promise[p] /\ segmentMap'[p] = segmentMap[p]
    PROVE  /\ StackFits' /\ Begun(current)'
           /\ \A i \in 1 .. Len(jsFrames) : Begun(jsFrames[i].prev)' /\ Begun(jsFrames[i].part)'
<1>1. /\ \A i \in 1 .. Len(jsFrames) : jsFrames[i] \in JsFrame
      /\ Len(jsFrames) \in Nat /\ (jsFrames = <<>> <=> Len(jsFrames) = 0)
  BY StackProperties DEF AsyncInv
<1>2. \A i \in 1 .. Len(jsFrames) :
        jsFrames[i].prev \in Anyone /\ jsFrames[i].part \in Anyone /\ Begun(jsFrames[i].prev) /\ Begun(jsFrames[i].part)
  BY <1>1 DEF AsyncInv, OnlyBegun, JsFrame
<1>3. \A i \in 1 .. Len(jsFrames) : Begun(jsFrames[i].prev)' /\ Begun(jsFrames[i].part)'
  BY <1>2 DEF Ages, Begun
<1>4. Begun(current)' /\ current \in Anyone
  BY DEF AsyncInv, OnlyBegun, AsyncShape, Ages, Begun
<1>5. jsFrames # <<>> => Fits(current, jsFrames[Len(jsFrames)].part)'
  <2> SUFFICES ASSUME jsFrames # <<>> PROVE Fits(current, jsFrames[Len(jsFrames)].part)'
    OBVIOUS
  <2>1. PICK c, q : c = current /\ q = jsFrames[Len(jsFrames)].part
    OBVIOUS
  <2>2. c \in Anyone /\ q \in Anyone /\ Begun(c) /\ Begun(q) /\ Fits(c, q)
    BY <1>1, <1>2, <1>4, <2>1 DEF AsyncInv, StackFits, OnlyBegun
  <2>3. Fits(c, q)'
    BY <2>2, FitsStays
  <2> QED  BY <2>1, <2>3 DEF Fits, Active
<1>6. jsFrames # <<>> => Outermost(jsFrames[1])'
  BY DEF AsyncInv, StackFits, Outermost
<1>7. ASSUME NEW i \in 2 .. Len(jsFrames)
      PROVE  jsFrames[i].kind = "bound" /\ Fits(jsFrames[i].prev, jsFrames[i - 1].part)'
  <2>1. PICK c, q : c = jsFrames[i].prev /\ q = jsFrames[i - 1].part
    OBVIOUS
  <2>2. i \in 1 .. Len(jsFrames) /\ i - 1 \in 1 .. Len(jsFrames)
    BY <1>1
  <2>3. c \in Anyone /\ q \in Anyone /\ Begun(c) /\ Begun(q) /\ Fits(c, q) /\ jsFrames[i].kind = "bound"
    BY <1>2, <2>1, <2>2 DEF AsyncInv, StackFits
  <2>4. Fits(c, q)'
    BY <2>3, FitsStays
  <2> QED  BY <2>1, <2>3, <2>4 DEF Fits, Active
<1>8. jsFrames = <<>> => current = NoTx
  BY DEF AsyncInv, StackFits
<1> QED  BY <1>3, <1>4, <1>5, <1>6, <1>7, <1>8 DEF StackFits

\* A bound function is entered with a segment and a part that fit, whatever is below.
LEMMA EnterFits ==
    ASSUME AsyncInv, Ages, NEW s \in Anyone, NEW q \in Anyone, Enter(s, q),
           Begun(s)', Begun(q)', Fits(s, q)', UNCHANGED <<segmentMap, promise>>
    PROVE  /\ current' \in Anyone /\ Begun(current)' /\ jsFrames' \in Seq(JsFrame) /\ StackFits'
           /\ \A i \in 1 .. Len(jsFrames') : Begun(jsFrames[i].prev)' /\ Begun(jsFrames[i].part)'
<1>1. PICK f : f = [kind |-> "bound", prev |-> current, promise |-> NoTx, part |-> q]
  OBVIOUS
<1> DEFINE n == Len(jsFrames)
<1>2. f \in JsFrame /\ jsFrames' = Append(jsFrames, f) /\ current' = s
  BY <1>1 DEF Enter, JsFrame, AsyncInv, AsyncShape
<1>3. /\ jsFrames' \in Seq(JsFrame) /\ jsFrames' # <<>> /\ Len(jsFrames') = n + 1 /\ jsFrames'[n + 1] = f
      /\ \A i \in 1 .. n : jsFrames'[i] = jsFrames[i]
  BY <1>2, FramePushed DEF AsyncInv
<1>4. /\ n \in Nat /\ (jsFrames = <<>> <=> n = 0) /\ \A i \in 1 .. n : jsFrames[i] \in JsFrame
  BY StackProperties DEF AsyncInv
<1>5. current \in Anyone /\ Begun(current) /\ Begun(current)
      /\ \A i \in 1 .. n : /\ jsFrames[i].prev \in Anyone /\ jsFrames[i].part \in Anyone
                           /\ Begun(jsFrames[i].prev) /\ Begun(jsFrames[i].part)
  BY <1>4 DEF AsyncInv, OnlyBegun, AsyncShape, JsFrame
<1>6. PICK cur : cur = current
  OBVIOUS
<1>7. Begun(cur)' /\ f.prev = cur /\ f.part = q /\ f.kind = "bound"
  BY <1>1, <1>5, <1>6 DEF Ages
<1>8. ASSUME NEW i \in 1 .. n + 1
      PROVE  Begun(jsFrames[i].prev)' /\ Begun(jsFrames[i].part)'
  <2>1. CASE i = n + 1
    BY <1>3, <1>7, <2>1 DEF Begun
  <2>2. CASE i # n + 1
    <3>1. i \in 1 .. n
      BY <1>4, <2>2
    <3>2. jsFrames'[i] = jsFrames[i]
      BY <1>3, <3>1
    <3>3. PICK a, b : a = jsFrames[i].prev /\ b = jsFrames[i].part
      OBVIOUS
    <3>4. Begun(a)' /\ Begun(b)'
      BY <1>5, <3>1, <3>3 DEF Ages
    <3> QED  BY <3>2, <3>3, <3>4 DEF Begun
  <2> QED  BY <2>1, <2>2
<1>9. Fits(current, jsFrames[Len(jsFrames)].part)'
  BY <1>2, <1>3, <1>7 DEF Fits, Active
<1>10. Outermost(jsFrames[1])'
  <2>1. CASE n = 0
    <3>1. jsFrames'[1] = f /\ current = NoTx
      BY <1>3, <1>4, <2>1 DEF AsyncInv, StackFits
    <3> QED  BY <1>6, <1>7, <3>1 DEF Outermost
  <2>2. CASE n > 0
    <3>1. jsFrames'[1] = jsFrames[1] /\ Outermost(jsFrames[1]) /\ Len(jsFrames') # 1
      BY <1>3, <1>4, <2>2 DEF AsyncInv, StackFits
    <3>2. n = 1 => jsFrames'[2] = f
      BY <1>3
    <3>3. n # 1 => 2 \in 1 .. n
      BY <1>4, <2>2
    <3>4. n # 1 => jsFrames'[2] = jsFrames[2]
      BY <1>3, <3>3
    <3> QED  BY <1>6, <1>7, <3>1, <3>2, <3>4 DEF Outermost
  <2> QED  BY <1>4, <2>1, <2>2
<1>11. ASSUME NEW i \in 2 .. n + 1
       PROVE  jsFrames'[i].kind = "bound" /\ Fits(jsFrames[i].prev, jsFrames[i - 1].part)'
  <2>1. i - 1 \in 1 .. n /\ jsFrames'[i - 1] = jsFrames[i - 1]
    BY <1>3, <1>4
  <2>2. PICK c, b : c = jsFrames'[i].prev /\ b = jsFrames[i - 1].part
    OBVIOUS
  <2>3. CASE i = n + 1
    <3>1. c = cur /\ jsFrames'[i].kind = "bound" /\ b \in Anyone /\ Begun(b)
      BY <1>3, <1>5, <1>7, <2>1, <2>2, <2>3
    <3>2. Fits(cur, b)
      <4>1. jsFrames # <<>> /\ i - 1 = n
        BY <1>4, <2>1, <2>3
      <4> QED  BY <1>6, <2>2, <4>1 DEF AsyncInv, StackFits
    <3>3. Fits(cur, b)'
      BY <1>5, <1>6, <3>1, <3>2, FitsStays
    <3> QED  BY <2>1, <2>2, <3>1, <3>3 DEF Fits, Active
  <2>4. CASE i # n + 1
    <3>1. i \in 2 .. n /\ i \in 1 .. n /\ jsFrames'[i] = jsFrames[i]
      BY <1>3, <1>4, <2>4
    <3>2. jsFrames[i].kind = "bound" /\ Fits(c, b) /\ c \in Anyone /\ b \in Anyone /\ Begun(c) /\ Begun(b)
      BY <1>5, <2>1, <2>2, <3>1 DEF AsyncInv, StackFits
    <3>3. Fits(c, b)'
      BY <3>2, FitsStays
    <3> QED  BY <2>1, <2>2, <3>1, <3>2, <3>3 DEF Fits, Active
  <2> QED  BY <2>3, <2>4
<1>12. StackFits'
  BY <1>3, <1>9, <1>10, <1>11 DEF StackFits
<1>13. Begun(current)'
  BY <1>2 DEF Begun
<1> QED  BY <1>2, <1>3, <1>8, <1>12, <1>13

\* Whatever enters a bound function otherwise only starts a transaction or takes a task.
LEMMA BoundEntered ==
    ASSUME AsyncInv, Ages, state' \in [AsyncTxs -> {"none", "active", "ended"}], tasks' \subseteq tasks,
           NEW s \in Anyone, NEW q \in Anyone, Enter(s, q),
           Begun(s)', Begun(q)', Fits(s, q)', UNCHANGED <<segmentMap, promise>>
    PROVE  AsyncInv'
BY EnterFits, TasksStay, PromisesStay DEF AsyncInv, AsyncShape, OnlyBegun

-----------------------------------------------------------------------------
\* The actions.
LEMMA RequestFits == ASSUME AsyncInv, NEW t \in Requests, Request(t) PROVE AsyncInv'
<1>1. t \in AsyncTxs /\ t \in Anyone /\ current = NoTx /\ ~Reuses
  BY DEF Request, Running, AsyncInv, StackFits, Reuses, AsyncTxs, Anyone
<1>2. /\ Enter(t, t) /\ state[t] = "none" /\ state' = [state EXCEPT ![t] = "active"]
      /\ UNCHANGED <<tasks, segmentMap, promise>>
  BY <1>1 DEF Request
<1>3. Ages /\ state' \in [AsyncTxs -> {"none", "active", "ended"}]
  BY <1>1, <1>2, StateAges DEF AsyncInv
<1>4. Begun(t)' /\ Fits(t, t)'
  BY <1>1, <1>2 DEF AsyncInv, AsyncShape, Begun, Fits
<1> QED  BY <1>1, <1>2, <1>3, <1>4, BoundEntered

LEMMA NestedFits ==
    ASSUME AsyncInv, NEW t \in Nested, NEW sameType, StartNested(t, sameType)
    PROVE  AsyncInv'
<1>1. t \in AsyncTxs /\ t \in Anyone /\ state[t] = "none" /\ UNCHANGED <<tasks, segmentMap, promise>>
  BY DEF StartNested, AsyncTxs, Anyone
<1>2. CASE ActiveContext # NoTx /\ sameType
  <2>1. PICK c, q : c = current /\ q = Part
    OBVIOUS
  <2>2. Enter(c, q) /\ UNCHANGED state
    BY <1>2, <2>1 DEF StartNested, Enter
  <2>3. c \in Anyone /\ q \in Anyone /\ Begun(c) /\ Begun(q) /\ Fits(c, q)
    BY <2>1, CurrentFits
  <2>4. Ages /\ state' \in [AsyncTxs -> {"none", "active", "ended"}]
    BY <2>2, StateAges DEF AsyncInv
  <2>5. Begun(c)' /\ Begun(q)' /\ Fits(c, q)'
    BY <2>3, <2>4, FitsStays DEF Ages
  <2> QED  BY <1>1, <2>2, <2>3, <2>4, <2>5, BoundEntered
<1>3. CASE ~(ActiveContext # NoTx /\ sameType)
  <2>1. Enter(t, t) /\ state' = [state EXCEPT ![t] = "active"]
    BY <1>3 DEF StartNested
  <2>2. Ages /\ state' \in [AsyncTxs -> {"none", "active", "ended"}]
    BY <1>1, <2>1, StateAges DEF AsyncInv
  <2>3. Begun(t)' /\ Fits(t, t)'
    BY <1>1, <2>1 DEF AsyncInv, AsyncShape, Begun, Fits
  <2> QED  BY <1>1, <2>1, <2>2, <2>3, BoundEntered
<1> QED  BY <1>2, <1>3

LEMMA EndFits == ASSUME AsyncInv, EndCurrent PROVE AsyncInv'
<1>1. Active(current) /\ ActiveContext = current
  BY DEF EndCurrent, ActiveContext
<1>2. PICK t \in AsyncTxs : state[t] = "active" /\ state' = [state EXCEPT ![t] = "ended"]
  BY <1>1 DEF EndCurrent, Active
<1>3. Ages /\ state' \in [AsyncTxs -> {"none", "active", "ended"}]
  BY <1>2, StateAges DEF AsyncInv
<1>4. UNCHANGED <<current, jsFrames, tasks, segmentMap, promise>>
  BY DEF EndCurrent
<1> QED  BY <1>3, <1>4, StackStays, TasksStay, PromisesStay DEF AsyncInv, AsyncShape, OnlyBegun

LEMMA NoneAge == ASSUME AsyncInv, UNCHANGED state PROVE Ages /\ state' \in [AsyncTxs -> {"none", "active", "ended"}]
BY StateAges DEF AsyncInv

LEMMA ScheduleFits == ASSUME AsyncInv, Schedule PROVE AsyncInv'
<1>1. PICK c, q, t : c = current /\ q = Part /\ t = [bound |-> c, part |-> q]
  OBVIOUS
<1>2. tasks' = tasks \cup {t} /\ UNCHANGED <<current, jsFrames, segmentMap, promise, state>>
  BY <1>1 DEF Schedule, ScheduleBound
<1>3. Ages /\ state' \in [AsyncTxs -> {"none", "active", "ended"}]
  BY <1>2, NoneAge
<1>4. t.bound = c /\ t.part = q /\ c \in Anyone /\ q \in Anyone /\ Fits(c, q) /\ Begun(c) /\ Begun(q)
  BY <1>1, CurrentFits
<1>5. Fits(c, q)' /\ Begun(c)' /\ Begun(q)' /\ t \in [bound : Anyone, part : Anyone]
  BY <1>1, <1>3, <1>4, FitsStays DEF Ages
<1>6. \A u \in tasks' : /\ u \in [bound : Anyone, part : Anyone]
                        /\ Fits(u.bound, u.part)' /\ Begun(u.bound)' /\ Begun(u.part)'
  <2>1. ASSUME NEW u \in tasks
        PROVE  /\ u \in [bound : Anyone, part : Anyone]
               /\ Fits(u.bound, u.part)' /\ Begun(u.bound)' /\ Begun(u.part)'
    <3>1. /\ u \in [bound : Anyone, part : Anyone] /\ u.bound \in Anyone /\ u.part \in Anyone
          /\ Fits(u.bound, u.part) /\ Begun(u.bound) /\ Begun(u.part)
      BY <2>1 DEF AsyncInv, AsyncShape, TasksFit, OnlyBegun
    <3> QED  BY <1>3, <3>1, FitsStays DEF Ages
  <2> QED  BY <1>2, <1>4, <1>5, <2>1
<1> QED  BY <1>2, <1>3, <1>6, StackStays, PromisesStay DEF AsyncInv, AsyncShape, OnlyBegun, TasksFit

LEMMA RunTaskFits == ASSUME AsyncInv, NEW t \in tasks, RunTask(t) PROVE AsyncInv'
<1>1. /\ t.bound \in Anyone /\ t.part \in Anyone /\ Begun(t.bound) /\ Begun(t.part) /\ Fits(t.bound, t.part)
  BY DEF AsyncInv, AsyncShape, TasksFit, OnlyBegun
<1>2. Enter(t.bound, t.part) /\ tasks' \subseteq tasks /\ UNCHANGED <<segmentMap, promise, state>>
  BY DEF RunTask
<1>3. Ages /\ state' \in [AsyncTxs -> {"none", "active", "ended"}]
  BY <1>2, NoneAge
<1>4. Begun(t.bound)' /\ Begun(t.part)' /\ Fits(t.bound, t.part)'
  BY <1>1, <1>3, FitsStays DEF Ages
<1> QED  BY <1>1, <1>2, <1>3, <1>4, BoundEntered

LEMMA LeaveBoundFits == ASSUME AsyncInv, NEW throws, LeaveBound(throws) PROVE AsyncInv'
<1> DEFINE n == Len(jsFrames)
<1>1. /\ Running /\ jsFrames[n].kind = "bound" /\ jsFrames' = SubSeq(jsFrames, 1, n - 1)
      /\ UNCHANGED <<tasks, segmentMap, promise, state>>
  BY DEF LeaveBound, LastFrame
<1>2. /\ n \in Nat /\ n >= 1 /\ \A i \in 1 .. n : jsFrames[i] \in JsFrame
  BY <1>1, StackProperties DEF AsyncInv, Running
<1>3. /\ jsFrames' \in Seq(JsFrame) /\ Len(jsFrames') = n - 1 /\ (jsFrames' = <<>> <=> n = 1)
      /\ \A i \in 1 .. n - 1 : jsFrames'[i] = jsFrames[i]
  BY <1>1, FramePopped DEF AsyncInv
<1>4. PICK c : c = jsFrames[n].prev
  OBVIOUS
<1>5. n = 1 => c = NoTx
  BY <1>1, <1>2, <1>4 DEF AsyncInv, StackFits, Outermost, Running
<1>6. current' = c
  BY <1>4, <1>5 DEF LeaveBound, RestoredAlways, LastFrame
<1>7. Begun(c) /\ c \in Anyone /\ \A i \in 1 .. n - 1 : Begun(jsFrames[i].prev) /\ Begun(jsFrames[i].part)
  BY <1>2, <1>4 DEF AsyncInv, OnlyBegun, JsFrame
<1>8. Ages /\ state' \in [AsyncTxs -> {"none", "active", "ended"}] /\ state' = state
  BY <1>1, NoneAge
<1>9. Begun(current)' /\ \A i \in 1 .. Len(jsFrames') : Begun(jsFrames[i].prev)' /\ Begun(jsFrames[i].part)'
  BY <1>3, <1>6, <1>7, <1>8 DEF Begun
<1>10. n # 1 => Fits(current, jsFrames[Len(jsFrames)].part)'
  <2> SUFFICES ASSUME n # 1 PROVE Fits(current, jsFrames[Len(jsFrames)].part)'
    OBVIOUS
  <2>1. n \in 2 .. n /\ n - 1 \in 1 .. n - 1
    BY <1>2
  <2>2. Fits(c, jsFrames[n - 1].part)
    BY <1>4, <2>1 DEF AsyncInv, StackFits
  <2>3. jsFrames'[Len(jsFrames')] = jsFrames[n - 1]
    BY <1>3, <2>1
  <2> QED  BY <1>6, <1>8, <2>2, <2>3 DEF Fits, Active
<1>11. n # 1 => Outermost(jsFrames[1])'
  <2> SUFFICES ASSUME n # 1 PROVE Outermost(jsFrames[1])'
    OBVIOUS
  <2>1. jsFrames'[1] = jsFrames[1] /\ Outermost(jsFrames[1])
    BY <1>1, <1>2, <1>3 DEF AsyncInv, StackFits, Running
  <2>2. n = 2 => Len(jsFrames') = 1 /\ c = jsFrames[2].prev
    BY <1>3, <1>4
  <2>3. n # 2 => Len(jsFrames') # 1 /\ jsFrames'[2] = jsFrames[2]
    BY <1>2, <1>3
  <2> QED  BY <1>1, <1>6, <2>1, <2>2, <2>3 DEF Outermost
<1>12. \A i \in 2 .. Len(jsFrames') : jsFrames'[i].kind = "bound" /\ Fits(jsFrames[i].prev, jsFrames[i - 1].part)'
  <2> SUFFICES ASSUME NEW i \in 2 .. n - 1
               PROVE  jsFrames'[i].kind = "bound" /\ Fits(jsFrames[i].prev, jsFrames[i - 1].part)'
    BY <1>3
  <2>1. i \in 2 .. n /\ jsFrames'[i] = jsFrames[i] /\ jsFrames'[i - 1] = jsFrames[i - 1]
    BY <1>2, <1>3
  <2>2. jsFrames[i].kind = "bound" /\ Fits(jsFrames[i].prev, jsFrames[i - 1].part)
    BY <2>1 DEF AsyncInv, StackFits
  <2> QED  BY <1>8, <2>1, <2>2 DEF Fits, Active
<1>13. StackFits'
  BY <1>3, <1>5, <1>6, <1>10, <1>11, <1>12 DEF StackFits
<1> QED  BY <1>1, <1>3, <1>6, <1>7, <1>8, <1>9, <1>13, TasksStay, PromisesStay DEF AsyncInv, AsyncShape, OnlyBegun

\* What may be the state of a promise and its entry in the map.
Entry(u, m) ==
    /\ u \in PromiseState /\ m \in Anyone \cup {Absent}
    /\ Begun(u.part)
    /\ m # Absent => Begun(m) /\ u.phase \notin {"none", "gone"}
    /\ m \in {u.part, NoTx, Absent}
    /\ u.phase = "running" => m \in {NoTx, Absent}
    /\ u.phase \in {"waiting", "done", "rejected"} /\ m \in {NoTx, Absent} => ~Active(u.part)

LEMMA EntriesAre == ASSUME AsyncInv, NEW p \in Promises PROVE Entry(promise[p], segmentMap[p])
BY DEF AsyncInv, AsyncShape, OnlyBegun, PromisesFit, NoSegmentIn, Entry

\* One promise changes, to u with m in the map.
PromiseBecomes(p, u, m) ==
    /\ promise' \in [Promises -> PromiseState] /\ segmentMap' \in [Promises -> Anyone \cup {Absent}]
    /\ promise'[p] = u /\ segmentMap'[p] = m
    /\ \A r \in Promises \ {p} : promise'[r] = promise[r] /\ segmentMap'[r] = segmentMap[r]

LEMMA PromiseChanges ==
    ASSUME AsyncInv, UNCHANGED state, NEW p \in Promises, NEW u, NEW m, Entry(u, m), PromiseBecomes(p, u, m)
    PROVE  /\ PromisesFit' /\ segmentMap' \in [Promises -> Anyone \cup {Absent}] /\ promise' \in [Promises -> PromiseState]
           /\ \A r \in Promises : Begun(promise[r].part)' /\ (segmentMap'[r] # Absent => Begun(segmentMap[r])')
<1>1. ASSUME NEW r \in Promises
      PROVE  \E v, k : Entry(v, k) /\ promise'[r] = v /\ segmentMap'[r] = k
  <2>1. CASE r = p
    BY <2>1 DEF PromiseBecomes
  <2>2. CASE r # p
    <3>1. PICK v, k : v = promise[r] /\ k = segmentMap[r]
      OBVIOUS
    <3>2. Entry(v, k)
      BY <3>1, EntriesAre
    <3>3. promise'[r] = v /\ segmentMap'[r] = k
      BY <2>2, <3>1 DEF PromiseBecomes
    <3> QED  BY <3>2, <3>3
  <2> QED  BY <2>1, <2>2
<1>2. ASSUME NEW r \in Promises
      PROVE  /\ Begun(promise[r].part)' /\ (segmentMap'[r] # Absent => Begun(segmentMap[r])')
             /\ segmentMap'[r] # Absent => promise'[r].phase \notin {"none", "gone"}
             /\ segmentMap'[r] \in {promise'[r].part, NoTx, Absent}
             /\ promise'[r].phase = "running" => NoSegmentIn(r)'
             /\ promise'[r].phase \in {"waiting", "done", "rejected"} /\ NoSegmentIn(r)' => ~Active(promise[r].part)'
  <2>1. PICK v, k : Entry(v, k) /\ promise'[r] = v /\ segmentMap'[r] = k
    BY <1>1
  <2> QED  BY <2>1 DEF Entry, Begun, Active, NoSegmentIn
<1> QED  BY <1>2 DEF PromisesFit, PromiseBecomes

\* A promise that does not run changes and nothing else does.
LEMMA OnlyPromise ==
    ASSUME AsyncInv, UNCHANGED <<current, jsFrames, tasks, state>>,
           NEW p \in Promises, NEW u, NEW m, Entry(u, m), promise[p].phase # "running", PromiseBecomes(p, u, m)
    PROVE  AsyncInv'
<1>1. Ages /\ state' \in [AsyncTxs -> {"none", "active", "ended"}]
  BY NoneAge
<1>2. \A r \in Promises : promise[r].phase = "running" => promise'[r] = promise[r] /\ segmentMap'[r] = segmentMap[r]
  BY DEF PromiseBecomes
<1>3. /\ StackFits' /\ Begun(current)'
      /\ \A i \in 1 .. Len(jsFrames) : Begun(jsFrames[i].prev)' /\ Begun(jsFrames[i].part)'
  BY <1>1, <1>2, StackStays
<1>4. /\ PromisesFit' /\ segmentMap' \in [Promises -> Anyone \cup {Absent}] /\ promise' \in [Promises -> PromiseState]
      /\ \A r \in Promises : Begun(promise[r].part)' /\ (segmentMap'[r] # Absent => Begun(segmentMap[r])')
  BY PromiseChanges
<1>5. tasks' \subseteq tasks
  OBVIOUS
<1> QED  BY <1>1, <1>3, <1>4, <1>5, TasksStay DEF AsyncInv, AsyncShape, OnlyBegun

LEMMA CreateFits ==
    ASSUME AsyncInv, NEW p \in Promises, NEW trigger \in Promises \cup {Absent}, CreatePromise(p, trigger)
    PROVE  AsyncInv'
<1>1. PICK parent, c, w, q :
        /\ parent = Inherited(trigger) /\ c = current /\ w = Part
        /\ q = IF Active(Part) \/ Inherited(trigger) \in {Absent, NoTx} THEN Part ELSE promise[trigger].part
  OBVIOUS
<1>2. PICK u : u = [phase |-> "waiting", part |-> q]
  OBVIOUS
<1>3. /\ promise[p].phase = "none" /\ promise' = [promise EXCEPT ![p] = u]
      /\ UNCHANGED <<current, jsFrames, tasks, state>>
  BY <1>1, <1>2 DEF CreatePromise
<1>4. IF parent \in {Absent, NoTx} /\ ActiveContext = NoTx
      THEN UNCHANGED segmentMap
      ELSE segmentMap' = [segmentMap EXCEPT ![p] = IF ActiveContext # NoTx THEN ActiveContext ELSE parent]
  BY <1>1 DEF CreatePromise, HookInit
<1>5. /\ segmentMap \in [Promises -> Anyone \cup {Absent}] /\ promise \in [Promises -> PromiseState]
      /\ segmentMap[p] = Absent
  BY <1>3 DEF AsyncInv, AsyncShape, PromisesFit
<1>6. w \in Anyone /\ Begun(w) /\ c \in Anyone /\ Begun(c) /\ Fits(c, w)
  BY <1>1, CurrentFits
<1>7. \E m : Entry(u, m) /\ PromiseBecomes(p, u, m)
  <2>1. CASE Active(w)
    <3>1. c = w /\ ActiveContext = w /\ q = w /\ w # NoTx /\ w # Absent
      BY <1>1, <1>6, <2>1, NobodyIsATransaction DEF Fits, ActiveContext
    <3>2. segmentMap' = [segmentMap EXCEPT ![p] = w]
      BY <1>4, <3>1
    <3>3. u \in PromiseState /\ u.part = w /\ u.phase = "waiting"
      BY <1>2, <1>6, <3>1 DEF PromiseState
    <3>4. Entry(u, w)
      BY <1>6, <3>1, <3>3 DEF Entry
    <3>5. PromiseBecomes(p, u, w)
      BY <1>3, <1>5, <1>6, <3>2, <3>3 DEF PromiseBecomes
    <3> QED  BY <3>4, <3>5
  <2>2. CASE ~Active(w)
    <3>1. ActiveContext = NoTx
      BY <1>1, <1>6, <2>2 DEF Fits, ActiveContext
    <3>2. CASE parent \in {Absent, NoTx}
      <4>1. UNCHANGED segmentMap /\ q = w
        BY <1>1, <1>4, <3>1, <3>2
      <4>2. u \in PromiseState /\ u.part = w /\ u.phase = "waiting"
        BY <1>2, <1>6, <4>1 DEF PromiseState
      <4>3. Entry(u, Absent)
        BY <1>6, <2>2, <4>2 DEF Entry
      <4>4. PromiseBecomes(p, u, Absent)
        BY <1>3, <1>5, <4>1, <4>2 DEF PromiseBecomes
      <4> QED  BY <4>3, <4>4
    <3>3. CASE parent \notin {Absent, NoTx}
      <4>1. trigger \in Promises /\ parent = segmentMap[trigger] /\ q = promise[trigger].part
        BY <1>1, <2>2, <3>3 DEF Inherited
      <4>2. parent = q /\ q \in Anyone /\ Begun(q)
        BY <3>3, <4>1, EntriesAre DEF Entry, PromiseState
      <4>3. segmentMap' = [segmentMap EXCEPT ![p] = q]
        BY <1>4, <3>1, <3>3, <4>2
      <4>4. u \in PromiseState /\ u.part = q /\ u.phase = "waiting"
        BY <1>2, <4>2 DEF PromiseState
      <4>5. Entry(u, q)
        BY <3>3, <4>2, <4>4 DEF Entry
      <4>6. PromiseBecomes(p, u, q)
        BY <1>3, <1>5, <4>2, <4>3, <4>4 DEF PromiseBecomes
      <4> QED  BY <4>5, <4>6
    <3> QED  BY <3>2, <3>3
  <2> QED  BY <2>1, <2>2
<1> QED  BY <1>3, <1>7, OnlyPromise

LEMMA DestroyFits == ASSUME AsyncInv, NEW p \in Promises, Destroy(p) PROVE AsyncInv'
<1>1. PICK q : q = promise[p].part
  OBVIOUS
<1>2. PICK u : u = [phase |-> "gone", part |-> q]
  OBVIOUS
<1>3. /\ segmentMap \in [Promises -> Anyone \cup {Absent}] /\ promise \in [Promises -> PromiseState]
      /\ q \in Anyone /\ Begun(q)
  BY <1>1 DEF AsyncInv, AsyncShape, OnlyBegun, PromiseState
<1>4. promise' = [promise EXCEPT ![p] = u]
  <2>1. promise[p] \in PromiseState /\ promise' = [promise EXCEPT ![p] = [promise[p] EXCEPT !.phase = "gone"]]
    BY <1>3 DEF Destroy
  <2>2. [promise[p] EXCEPT !.phase = "gone"] = u
    BY <1>1, <1>2, <2>1 DEF PromiseState
  <2> QED  BY <2>1, <2>2
<1>5. promise[p].phase # "running" /\ segmentMap' = [segmentMap EXCEPT ![p] = Absent]
      /\ UNCHANGED <<current, jsFrames, tasks, state>>
  BY DEF Destroy, Forgotten
<1>6. u \in PromiseState /\ u.phase = "gone" /\ u.part = q
  BY <1>2, <1>3 DEF PromiseState
<1>7. Entry(u, Absent)
  BY <1>3, <1>6 DEF Entry
<1>8. PromiseBecomes(p, u, Absent)
  BY <1>3, <1>4, <1>5, <1>6 DEF PromiseBecomes
<1> QED  BY <1>5, <1>7, <1>8, OnlyPromise

LEMMA RunCallbackFits == ASSUME AsyncInv, NEW p \in Promises, RunCallback(p) PROVE AsyncInv'
<1>1. PICK q, s : q = promise[p].part /\ s = segmentMap[p]
  OBVIOUS
<1>2. PICK u, f : /\ u = [phase |-> "running", part |-> q]
                  /\ f = [kind |-> "hook", prev |-> NoTx, promise |-> p, part |-> q]
  OBVIOUS
<1>3. /\ segmentMap \in [Promises -> Anyone \cup {Absent}] /\ promise \in [Promises -> PromiseState]
      /\ current = NoTx /\ promise[p].phase = "waiting"
  BY DEF RunCallback, Running, AsyncInv, AsyncShape, StackFits
<1>4. /\ q \in Anyone /\ Begun(q) /\ s \in {q, NoTx, Absent} /\ s \in Anyone \cup {Absent}
      /\ s \in {NoTx, Absent} => ~Active(q)
  BY <1>1, <1>3, EntriesAre DEF Entry, PromiseState
<1>5. promise' = [promise EXCEPT ![p] = u] /\ jsFrames' = <<f>> /\ UNCHANGED <<tasks, state>>
  <2>1. promise[p] \in PromiseState /\ promise' = [promise EXCEPT ![p] = [promise[p] EXCEPT !.phase = "running"]]
    BY <1>3 DEF RunCallback
  <2>2. [promise[p] EXCEPT !.phase = "running"] = u
    BY <1>1, <1>2, <2>1 DEF PromiseState
  <2>3. jsFrames' = <<f>> /\ UNCHANGED <<tasks, state>>
    BY <1>1, <1>2 DEF RunCallback
  <2> QED  BY <2>1, <2>2, <2>3
<1>6. u \in PromiseState /\ u.phase = "running" /\ u.part = q
  BY <1>2, <1>4 DEF PromiseState
<1>7. f \in JsFrame /\ f.kind = "hook" /\ f.promise = p /\ f.part = q /\ f.prev = NoTx
  BY <1>2, <1>4, NobodyIsATransaction DEF JsFrame
<1>8. /\ jsFrames' \in Seq(JsFrame) /\ jsFrames' # <<>> /\ Len(jsFrames') = 1 /\ jsFrames'[1] = f
  BY <1>5, <1>7
<1>9. Ages /\ state' \in [AsyncTxs -> {"none", "active", "ended"}] /\ state' = state
  BY <1>5, NoneAge
<1>10. PICK c, m : c = current' /\ m = segmentMap'[p]
  OBVIOUS
<1>11. /\ PromiseBecomes(p, u, m) /\ Entry(u, m) /\ c \in Anyone /\ Begun(c) /\ Fits(c, q)
       /\ m = Absent => c = NoTx
  <2>1. CASE s \in {Absent, NoTx}
    <3>1. UNCHANGED <<current, segmentMap>>
      BY <1>1, <2>1 DEF RunCallback, HookBefore
    <3>2. m = s /\ c = NoTx
      BY <1>1, <1>3, <1>10, <3>1
    <3>3. PromiseBecomes(p, u, m)
      BY <1>3, <1>5, <1>6, <1>10, <3>1 DEF PromiseBecomes
    <3>4. Entry(u, m)
      BY <1>4, <1>6, <2>1, <3>2, NobodyIsATransaction DEF Entry, Begun
    <3>5. Fits(c, q) /\ Begun(c) /\ c \in Anyone
      BY <1>4, <2>1, <3>2, NobodyIsATransaction DEF Fits, Begun
    <3> QED  BY <3>2, <3>3, <3>4, <3>5
  <2>2. CASE s \notin {Absent, NoTx}
    <3>1. current' = s /\ segmentMap' = [segmentMap EXCEPT ![p] = ActiveContext]
      BY <1>1, <2>2 DEF RunCallback, HookBefore
    <3>2. ActiveContext = NoTx
      BY <1>3, NobodyIsATransaction DEF ActiveContext
    <3>3. segmentMap' = [segmentMap EXCEPT ![p] = NoTx]
      BY <3>1, <3>2
    <3>4. m = NoTx /\ c = q
      BY <1>3, <1>4, <1>10, <2>2, <3>1, <3>3
    <3>5. PromiseBecomes(p, u, m)
      BY <1>3, <1>5, <1>6, <3>3, <3>4, NobodyIsATransaction DEF PromiseBecomes
    <3>6. Entry(u, m)
      BY <1>4, <1>6, <3>4, NobodyIsATransaction DEF Entry, Begun
    <3> QED  BY <1>4, <3>4, <3>5, <3>6, NobodyIsATransaction DEF Fits
  <2> QED  BY <2>1, <2>2
<1>12. /\ PromisesFit' /\ segmentMap' \in [Promises -> Anyone \cup {Absent}] /\ promise' \in [Promises -> PromiseState]
       /\ \A r \in Promises : Begun(promise[r].part)' /\ (segmentMap'[r] # Absent => Begun(segmentMap[r])')
  BY <1>5, <1>11, PromiseChanges
<1>13. Fits(current, jsFrames[Len(jsFrames)].part)'
  BY <1>7, <1>8, <1>9, <1>10, <1>11 DEF Fits, Active
<1>14. Outermost(jsFrames[1])'
  BY <1>6, <1>7, <1>8, <1>10, <1>11 DEF Outermost, PromiseBecomes
<1>15. StackFits'
  BY <1>8, <1>13, <1>14 DEF StackFits
<1>16. Begun(current)' /\ Begun(jsFrames[1].prev)' /\ Begun(jsFrames[1].part)' /\ current' \in Anyone
  BY <1>4, <1>7, <1>8, <1>9, <1>10, <1>11 DEF Begun
<1>17. \A i \in 1 .. Len(jsFrames') : Begun(jsFrames[i].prev)' /\ Begun(jsFrames[i].part)'
  BY <1>8, <1>16
<1> QED  BY <1>5, <1>8, <1>9, <1>12, <1>15, <1>16, <1>17, TasksStay DEF AsyncInv, AsyncShape, OnlyBegun

LEMMA LeaveCallbackFits ==
    ASSUME AsyncInv, NEW phase \in {"waiting", "done", "rejected"}, LeaveCallback(phase)
    PROVE  AsyncInv'
<1>1. /\ Len(jsFrames) \in Nat /\ Len(jsFrames) >= 1 /\ jsFrames[1] \in JsFrame /\ jsFrames[Len(jsFrames)].kind = "hook"
  BY StackProperties DEF LeaveCallback, Running, LastFrame, AsyncInv
<1>2. Len(jsFrames) = 1
  <2>1. PICK n : n = Len(jsFrames)
    OBVIOUS
  <2>2. CASE n \in 2 .. n
    BY <1>1, <2>1, <2>2 DEF AsyncInv, StackFits
  <2>3. n \in Nat /\ n >= 1
    BY <1>1, <2>1
  <2>4. CASE n \notin 2 .. n
    BY <2>1, <2>3, <2>4
  <2> QED  BY <2>2, <2>4
<1>3. PICK p, q, c : p = jsFrames[1].promise /\ q = jsFrames[1].part /\ c = current
  OBVIOUS
<1>4. PICK u : u = [phase |-> phase, part |-> q]
  OBVIOUS
<1>5. /\ p \in Promises /\ promise[p].phase = "running" /\ promise[p].part = q /\ Fits(c, q)
      /\ segmentMap[p] = Absent => c = NoTx
  BY <1>1, <1>2, <1>3 DEF AsyncInv, StackFits, Outermost, LeaveCallback, Running
<1>6. /\ segmentMap \in [Promises -> Anyone \cup {Absent}] /\ promise \in [Promises -> PromiseState]
      /\ c \in Anyone /\ Begun(c)
  BY <1>3 DEF AsyncInv, AsyncShape, OnlyBegun
<1>7. q \in Anyone /\ Begun(q) /\ segmentMap[p] \in {NoTx, Absent}
  BY <1>5, EntriesAre DEF Entry, PromiseState
<1>8. HookAfter(p) /\ promise' = [promise EXCEPT ![p].phase = phase] /\ jsFrames' = <<>> /\ UNCHANGED <<tasks, state>>
  BY <1>2, <1>3 DEF LeaveCallback, LastFrame
<1>9. promise' = [promise EXCEPT ![p] = u]
  <2>1. promise[p] \in PromiseState /\ promise' = [promise EXCEPT ![p] = [promise[p] EXCEPT !.phase = phase]]
    BY <1>5, <1>6, <1>8
  <2>2. [promise[p] EXCEPT !.phase = phase] = u
    BY <1>4, <1>5, <2>1 DEF PromiseState
  <2> QED  BY <2>1, <2>2
<1>10. u \in PromiseState /\ u.phase = phase /\ u.part = q
  BY <1>4, <1>7 DEF PromiseState
<1>11. current' = NoTx /\ \E m : Entry(u, m) /\ PromiseBecomes(p, u, m)
  <2>1. CASE segmentMap[p] = Absent
    <3>1. UNCHANGED <<current, segmentMap>> /\ c = NoTx
      BY <1>5, <1>8, <2>1 DEF HookAfter
    <3>2. Entry(u, Absent)
      BY <1>5, <1>7, <1>10, <3>1, NobodyIsATransaction DEF Entry, Fits
    <3>3. PromiseBecomes(p, u, Absent)
      BY <1>5, <1>6, <1>9, <1>10, <2>1, <3>1 DEF PromiseBecomes
    <3> QED  BY <1>3, <3>1, <3>2, <3>3
  <2>2. CASE segmentMap[p] = NoTx
    <3>1. PICK m : m = ActiveContext
      OBVIOUS
    <3>2. current' = NoTx /\ segmentMap' = [segmentMap EXCEPT ![p] = m]
      BY <1>8, <2>2, <3>1, NobodyIsATransaction DEF HookAfter
    <3>3. m \in {q, NoTx} /\ (m = NoTx => ~Active(q))
      BY <1>3, <1>5, <3>1, NobodyIsATransaction DEF ActiveContext, Fits
    <3>4. Entry(u, m)
      BY <1>7, <1>10, <3>3, NobodyIsATransaction DEF Entry, Begun
    <3>5. PromiseBecomes(p, u, m)
      BY <1>5, <1>6, <1>7, <1>9, <1>10, <3>2, <3>3, NobodyIsATransaction DEF PromiseBecomes
    <3> QED  BY <3>2, <3>4, <3>5
  <2> QED  BY <1>7, <2>1, <2>2
<1>12. /\ PromisesFit' /\ segmentMap' \in [Promises -> Anyone \cup {Absent}] /\ promise' \in [Promises -> PromiseState]
       /\ \A r \in Promises : Begun(promise[r].part)' /\ (segmentMap'[r] # Absent => Begun(segmentMap[r])')
  BY <1>5, <1>8, <1>11, PromiseChanges
<1>13. jsFrames' \in Seq(JsFrame) /\ Len(jsFrames') = 0
  BY <1>8
<1>14. StackFits' /\ Begun(current)' /\ current' \in Anyone
  BY <1>8, <1>11, <1>13, NobodyIsATransaction DEF StackFits, Begun
<1>15. \A i \in 1 .. Len(jsFrames') : Begun(jsFrames[i].prev)' /\ Begun(jsFrames[i].part)'
  BY <1>13
<1>16. Ages /\ state' \in [AsyncTxs -> {"none", "active", "ended"}]
  BY <1>8, NoneAge
<1>17. tasks' \subseteq tasks
  BY <1>8
<1> QED  BY <1>12, <1>13, <1>14, <1>15, <1>16, <1>17, TasksStay DEF AsyncInv, AsyncShape, OnlyBegun

LEMMA AsyncInvAlways == AsyncSpec => []AsyncInv
<1>1. AsyncInit => AsyncInv
  <2> SUFFICES ASSUME AsyncInit PROVE AsyncInv
    OBVIOUS
  <2>1. /\ jsFrames \in Seq(JsFrame) /\ Len(jsFrames) = 0 /\ jsFrames = <<>> /\ current = NoTx /\ tasks = {}
        /\ state \in [AsyncTxs -> {"none", "active", "ended"}]
    BY DEF AsyncInit
  <2>2. /\ segmentMap \in [Promises -> Anyone \cup {Absent}] /\ promise \in [Promises -> PromiseState]
        /\ \A p \in Promises : segmentMap[p] = Absent /\ promise[p].part = NoTx /\ promise[p].phase = "none"
    BY NobodyIsATransaction DEF AsyncInit, PromiseState
  <2> QED  BY <2>1, <2>2, NobodyIsATransaction
           DEF AsyncInv, AsyncShape, OnlyBegun, StackFits, TasksFit, PromisesFit, Begun, NoSegmentIn
<1>2. AsyncInv /\ [AsyncNext]_asyncVars => AsyncInv'
  <2> SUFFICES ASSUME AsyncInv, [AsyncNext]_asyncVars PROVE AsyncInv'
    OBVIOUS
  <2>1. CASE UNCHANGED asyncVars
    BY <2>1 DEF asyncVars, AsyncInv, AsyncShape, OnlyBegun, StackFits, TasksFit, PromisesFit, Begun, NoSegmentIn,
       Outermost, Fits, Active
  <2>2. CASE AsyncNext
    BY <2>2, RequestFits, NestedFits, EndFits, ScheduleFits, RunTaskFits, LeaveBoundFits, CreateFits, RunCallbackFits,
       DestroyFits, LeaveCallbackFits DEF AsyncNext
  <2> QED  BY <2>1, <2>2
<1> QED  BY <1>1, <1>2, PTL DEF AsyncSpec

\* For any requests, transactions and promises, and stacks of any depth: no segment is left for
\* the next callback, code runs in the transaction it is part of while that is active and in none
\* otherwise, and a rejection is found in the transaction that caused it.
THEOREM ContextIsCorrect == AsyncSpec => []ContextCorrect
<1>1. AsyncInv => ContextCorrect
  <2> SUFFICES ASSUME AsyncInv PROVE ContextCorrect
    OBVIOUS
  <2>1. Fits(current, Part) /\ DOMAIN jsFrames = 1 .. Len(jsFrames) /\ \A i \in 1 .. Len(jsFrames) : jsFrames[i] \in JsFrame
    BY CurrentFits, StackProperties DEF AsyncInv
  <2>2. ContextTypeOK
    BY <2>1 DEF AsyncInv, AsyncShape, JsFrame, ContextTypeOK, PromisesFit
  <2>3. NothingLeftBehind /\ ContextFollowsCause
    BY <2>1 DEF NothingLeftBehind, ContextFollowsCause, AsyncInv, StackFits, Running, ActiveContext, Fits
  <2>4. RejectionsBelong
    BY DEF RejectionsBelong, AsyncInv, PromisesFit, NoSegmentIn
  <2> QED  BY <2>2, <2>3, <2>4 DEF ContextCorrect
<1> QED  BY <1>1, AsyncInvAlways, PTL

-----------------------------------------------------------------------------
(***************************************************************************)
(* Recorded calls.  A frame is right if its code runs under a segment that *)
(* is right for it: the opaque call it is part of, until that is answered  *)
(* or a call that shares its segment has made it visible,                  *)
(* and for code of the application a segment of its own transaction, which *)
(* is opaque only if a row or an event of that call is being handled.      *)
(* What waits is right if the frame it will make is.                       *)
(***************************************************************************)
CallSegType ==
    [tx : Clients, kind : {"root", "call", "callback", "rows", "event"}, opaque : BOOLEAN, internal : BOOLEAN,
     shim : {"other", "datastore"}, hid : Nat]
CallFrameType ==
    [prev : Nat, by : Codes, tx : Clients, hid : Nat, live : BOOLEAN, spec : SpecType, seg : Nat]
WaitType ==
    [kind : {"callback", "bound", "row", "settle", "boundSettle", "stream", "boundStream"}, seg : Nat, by : Codes,
     tx : Clients, hid : Nat, made : Nat]

CallShape ==
    /\ callSegs \in Seq(CallSegType)
    /\ running \in Nat
    /\ callStack \in Seq(CallFrameType)
    /\ pending \subseteq WaitType
    /\ over \subseteq Clients
    /\ answered \subseteq Nat
    /\ revealed \subseteq Nat

Number(n) == n \in 0 .. Len(callSegs)
Shielded(hid) == hid # NoCall /\ hid \notin answered \cup revealed
\* Rows and events of a call do not end it.
Shown(s) == \E t \in pending : t.kind \in {"row", "stream"} /\ t.made = s /\ t.seg = s

\* The segment that is current while frame i is the innermost one.
Under(i) == IF i = Len(callStack) THEN running ELSE callStack[i + 1].prev

FrameIsRight(f, u) ==
    /\ Number(f.prev) /\ Number(f.seg) /\ Number(u)
    /\ f.by = "app" => f.hid = NoCall
    /\ f.live \/ f.tx \in over
    /\ Shielded(f.hid) => u = f.hid /\ callSegs[u].opaque
    /\ f.by = "app" /\ f.live =>
          u # NoCall /\ callSegs[u].tx = f.tx /\ (callSegs[u].opaque => Shown(u))

WaitIsRight(t) ==
    /\ t.seg \in 1 .. Len(callSegs) /\ Number(t.made)
    /\ t.by = "app" => t.hid = NoCall
    /\ Shielded(t.hid) => t.seg = t.hid /\ t.kind \in {"bound", "boundStream"} /\ callSegs[t.seg].opaque
    /\ t.by = "app" /\ t.tx \notin over /\ t.kind \notin {"settle", "boundSettle"} =>
          /\ callSegs[t.seg].tx = t.tx
          /\ t.kind \in {"bound", "boundStream"} /\ callSegs[t.seg].opaque => Shown(t.seg)
    /\ t.made # NoCall =>
          /\ t.kind \in {"row", "stream"}
          /\ callSegs[t.made].opaque => t.made = t.seg
          /\ t.by = "app" /\ t.tx \notin over => callSegs[t.made].tx = t.tx

SegIsRight(s) == callSegs[s].hid \in {NoCall} \cup revealed /\ (callSegs[s].kind = "root" => ~callSegs[s].opaque)

CallInv ==
    /\ CallShape
    /\ Number(running)
    /\ \A s \in 1 .. Len(callSegs) : SegIsRight(s)
    /\ IF callStack = <<>> THEN running = NoCall ELSE callStack[1].prev = NoCall
    /\ \A i \in 1 .. Len(callStack) : FrameIsRight(callStack[i], Under(i))
    /\ \A t \in pending : WaitIsRight(t)

\* Segment s is no longer one that is opaque until its call is answered.
Cleared(s) ==
    /\ answered \subseteq answered' /\ answered' \subseteq answered \cup {s}
    /\ revealed \subseteq revealed' /\ revealed' \subseteq revealed \cup {s}
    /\ s \in answered' \cup revealed'

\* A step that answers calls and makes segments, and forgets none that is shown.
Evolves ==
    /\ Len(callSegs) <= Len(callSegs')
    /\ \A s \in 1 .. Len(callSegs) :
          /\ callSegs'[s].tx = callSegs[s].tx
          /\ callSegs'[s].opaque => callSegs[s].opaque /\ (Shown(s) => Shown(s)')
          /\ callSegs[s].opaque => callSegs'[s].opaque \/ s \in answered' \cup revealed'
    /\ answered \subseteq answered' /\ revealed \subseteq revealed' /\ over \subseteq over'

\* What a frame with this code on it is to be run under.
Runs(by, client, hid, u) ==
    /\ Number(u)
    /\ by = "app" => hid = NoCall
    /\ Shielded(hid) => u = hid /\ callSegs[u].opaque
    /\ by = "app" /\ client \notin over => u # NoCall /\ callSegs[u].tx = client /\ (callSegs[u].opaque => Shown(u))

LEMMA FrameStays ==
    ASSUME callSegs \in Seq(CallSegType), callSegs' \in Seq(CallSegType), Evolves,
           NEW f, NEW u, FrameIsRight(f, u)
    PROVE  FrameIsRight(f, u)'
<1>1. Len(callSegs) \in Nat /\ Len(callSegs)' \in Nat /\ Len(callSegs) <= Len(callSegs)'
  BY DEF Evolves
<1>2. Number(f.prev)' /\ Number(f.seg)' /\ Number(u)'
  BY <1>1 DEF FrameIsRight, Number
<1>3. (f.by = "app" => f.hid = NoCall) /\ (f.live \/ f.tx \in over')
  BY DEF FrameIsRight, Evolves
<1>4. Shielded(f.hid)' => u = f.hid /\ callSegs'[u].opaque
  BY <1>1 DEF FrameIsRight, Evolves, Shielded, Number, NoCall
<1>5. ASSUME f.by = "app", f.live
      PROVE  u # NoCall /\ callSegs'[u].tx = f.tx /\ (callSegs'[u].opaque => Shown(u)')
  BY <1>1, <1>5 DEF FrameIsRight, Evolves, Number, NoCall
<1> QED
  BY <1>2, <1>3, <1>4, <1>5 DEF FrameIsRight

LEMMA WaitStays ==
    ASSUME callSegs \in Seq(CallSegType), callSegs' \in Seq(CallSegType), Evolves,
           NEW t, WaitIsRight(t)
    PROVE  WaitIsRight(t)'
<1>1. Len(callSegs) \in Nat /\ Len(callSegs)' \in Nat /\ Len(callSegs) <= Len(callSegs)'
  BY DEF Evolves
<1>2. t.seg \in 1 .. Len(callSegs) /\ t.seg \in 1 .. Len(callSegs)' /\ Number(t.made) /\ Number(t.made)'
  BY <1>1 DEF WaitIsRight, Number
<1>3. t.by = "app" => t.hid = NoCall
  BY DEF WaitIsRight
<1>4. Shielded(t.hid)' => t.seg = t.hid /\ t.kind \in {"bound", "boundStream"} /\ callSegs'[t.seg].opaque
  BY <1>2 DEF WaitIsRight, Evolves, Shielded
<1>5. ASSUME t.by = "app", t.tx \notin over', t.kind \notin {"settle", "boundSettle"}
      PROVE  /\ callSegs'[t.seg].tx = t.tx
             /\ t.kind \in {"bound", "boundStream"} /\ callSegs'[t.seg].opaque => Shown(t.seg)'
  BY <1>2, <1>5 DEF WaitIsRight, Evolves
<1>6. ASSUME t.made # NoCall
      PROVE  /\ t.kind \in {"row", "stream"}
             /\ callSegs'[t.made].opaque => t.made = t.seg
             /\ t.by = "app" /\ t.tx \notin over' => callSegs'[t.made].tx = t.tx
  <2>1. t.made \in 1 .. Len(callSegs)
    BY <1>1, <1>2, <1>6 DEF Number, NoCall
  <2> QED
    BY <2>1, <1>6 DEF WaitIsRight, Evolves
<1> QED
  BY <1>2, <1>3, <1>4, <1>5, <1>6 DEF WaitIsRight

FramesRight ==
    /\ Number(running)
    /\ IF callStack = <<>> THEN running = NoCall ELSE callStack[1].prev = NoCall
    /\ \A i \in 1 .. Len(callStack) : FrameIsRight(callStack[i], Under(i))

\* Frames are right after a step that only evolves what they rest on.
LEMMA CallFramesStay ==
    ASSUME CallInv, callSegs' \in Seq(CallSegType), Evolves, UNCHANGED <<running, callStack>>
    PROVE  FramesRight'
<1>0. callSegs \in Seq(CallSegType) /\ callStack \in Seq(CallFrameType)
  BY DEF CallInv, CallShape
<1>1. Number(running)'
  BY <1>0 DEF CallInv, Number, Evolves
<1>2. ASSUME NEW i \in 1 .. Len(callStack)
      PROVE  FrameIsRight(callStack[i], Under(i))'
  <2>1. PICK f : f = callStack[i]
    OBVIOUS
  <2>2. PICK u : u = Under(i)
    OBVIOUS
  <2>3. FrameIsRight(f, u)
    BY <2>1, <2>2 DEF CallInv
  <2>4. FrameIsRight(f, u)'
    BY <2>3, <1>0, FrameStays
  <2>5. f = callStack'[i] /\ u = Under(i)'
    BY <2>1, <2>2 DEF Under
  <2> QED
    BY <2>4, <2>5 DEF FrameIsRight
<1> QED
  BY <1>1, <1>2 DEF CallInv, FramesRight

LEMMA PushStays ==
    ASSUME CallInv, callSegs' \in Seq(CallSegType), Evolves, over' = over,
           NEW seg \in Nat, NEW by \in Codes, NEW client \in Clients, NEW hid \in Nat, NEW spec \in SpecType,
           seg <= Len(callSegs)',
           Push(seg, Code(by, client, hid, spec)),
           NEW u, u = (IF seg = NoCall THEN running ELSE seg), Runs(by, client, hid, u)'
    PROVE  FramesRight' /\ callStack' \in Seq(CallFrameType) /\ running' \in Nat
<1>0. callSegs \in Seq(CallSegType) /\ callStack \in Seq(CallFrameType) /\ running \in Nat /\ Number(running)
  BY DEF CallInv, CallShape
<1>1. PICK g : g = [prev |-> running, by |-> by, tx |-> client, hid |-> hid, live |-> client \notin over, spec |-> spec, seg |-> seg]
  OBVIOUS
<1>2. g \in CallFrameType
  BY <1>0, <1>1 DEF CallFrameType
<1>3. callStack' = Append(callStack, g)
  <2>1. PICK c : c = Code(by, client, hid, spec)
    OBVIOUS
  <2>2. c = [prev |-> NoCall, by |-> by, tx |-> client, hid |-> hid, live |-> TRUE, spec |-> spec, seg |-> NoCall]
    BY <2>1 DEF Code
  <2>3. [c EXCEPT !.prev = running, !.seg = seg, !.live = client \notin over] = g
    <3>1. PICK r : r = running
      OBVIOUS
    <3>2. PICK l : l = (client \notin over)
      OBVIOUS
    <3>3. PICK d : d = [c EXCEPT !.prev = r]
      OBVIOUS
    <3>4. d = [prev |-> r, by |-> by, tx |-> client, hid |-> hid, live |-> TRUE, spec |-> spec, seg |-> NoCall]
      BY <3>3, <2>2
    <3>5. PICK e : e = [d EXCEPT !.seg = seg]
      OBVIOUS
    <3>6. e = [prev |-> r, by |-> by, tx |-> client, hid |-> hid, live |-> TRUE, spec |-> spec, seg |-> seg]
      BY <3>5, <3>4
    <3>7. [e EXCEPT !.live = l]
          = [prev |-> r, by |-> by, tx |-> client, hid |-> hid, live |-> l, spec |-> spec, seg |-> seg]
      BY <3>6
    <3> QED
      BY <3>1, <3>2, <3>3, <3>5, <3>7, <1>1
  <2>4. callStack' = Append(callStack, [c EXCEPT !.prev = running, !.seg = seg, !.live = c.tx \notin over])
    BY <2>1 DEF Push
  <2>5. c.tx = client
    BY <2>2
  <2> QED
    BY <2>3, <2>4, <2>5
<1>4. running' = u /\ u \in Nat
  BY <1>0 DEF Push
<1>5. FrameIsRight(g, u)'
  <2>1. Number(g.prev)' /\ Number(g.seg)'
    BY <1>0, <1>1 DEF Number, Evolves
  <2>2. g.by = by /\ g.tx = client /\ g.hid = hid /\ g.live = (client \notin over)
    BY <1>1
  <2> QED
    BY <2>1, <2>2 DEF FrameIsRight, Runs
<1>6. Len(callStack') = Len(callStack) + 1 /\ callStack'[Len(callStack) + 1] = g
      /\ \A i \in 1 .. Len(callStack) : callStack'[i] = callStack[i]
  BY <1>0, <1>3
<1>7. ASSUME NEW i \in 1 .. Len(callStack')
      PROVE  FrameIsRight(callStack[i], Under(i))'
  <2>1. CASE i = Len(callStack) + 1
    <3>1. callStack'[i] = g /\ Under(i)' = u
      BY <2>1, <1>6, <1>4 DEF Under
    <3> QED
      BY <3>1, <1>5 DEF FrameIsRight
  <2>2. CASE i # Len(callStack) + 1
    <3>0. i \in 1 .. Len(callStack)
      BY <2>2, <1>6, <1>0
    <3>1. PICK f : f = callStack[i]
      OBVIOUS
    <3>2. PICK v : v = Under(i)
      OBVIOUS
    <3>3. FrameIsRight(f, v)'
      <4>1. FrameIsRight(f, v)
        BY <3>0, <3>1, <3>2 DEF CallInv
      <4> QED
        BY <4>1, <1>0, FrameStays
    <3>4. callStack'[i] = f
      BY <3>0, <3>1, <1>6
    <3>5. Under(i)' = v
      <4>1. Under(i)' = callStack'[i + 1].prev
        BY <3>0, <1>6, <1>0 DEF Under
      <4>2. CASE i = Len(callStack)
        BY <4>1, <4>2, <3>2, <1>6, <1>1 DEF Under
      <4>3. CASE i # Len(callStack)
        <5>1. i + 1 \in 1 .. Len(callStack)
          BY <4>3, <3>0, <1>0
        <5> QED
          BY <5>1, <4>1, <4>3, <3>2, <1>6 DEF Under
      <4> QED
        BY <4>2, <4>3
    <3> QED
      BY <3>3, <3>4, <3>5 DEF FrameIsRight
  <2> QED
    BY <2>1, <2>2
<1>8. callStack' # <<>> /\ callStack'[1].prev = NoCall
  <2>1. CASE callStack = <<>>
    <3>1. callStack'[1].prev = running /\ running = NoCall
      <4>1. Len(callStack) = 0
        BY <2>1
      <4>2. callStack'[1] = g
        BY <4>1, <1>6
      <4> QED
        BY <4>2, <1>1, <2>1 DEF CallInv
    <3> QED
      BY <3>1, <1>6, <1>0
  <2>2. CASE callStack # <<>>
    <3>1. 1 \in 1 .. Len(callStack)
      BY <2>2, <1>0
    <3> QED
      BY <3>1, <2>2, <1>6, <1>0 DEF CallInv
  <2> QED
    BY <2>1, <2>2, <1>6, <1>0
<1>9. Number(running)'
  BY <1>4 DEF Runs, Number
<1> QED
  BY <1>0, <1>2, <1>3, <1>4, <1>7, <1>8, <1>9 DEF FramesRight

LEMMA UnhiddenIs ==
    ASSUME callSegs \in Seq(CallSegType), NEW s \in 1 .. Len(callSegs)
    PROVE  /\ Unhidden(s) \in Seq(CallSegType) /\ Len(Unhidden(s)) = Len(callSegs)
           /\ \A x \in 1 .. Len(callSegs) :
                 /\ Unhidden(s)[x].tx = callSegs[x].tx /\ Unhidden(s)[x].hid = callSegs[x].hid
                 /\ Unhidden(s)[x].kind = callSegs[x].kind
                 /\ Unhidden(s)[x].opaque = (x # s /\ callSegs[x].opaque)
<1>1. PICK r : r = [callSegs[s] EXCEPT !.opaque = FALSE]
  OBVIOUS
<1>2. callSegs[s] \in CallSegType
  OBVIOUS
<1>3. r \in CallSegType /\ r.tx = callSegs[s].tx /\ r.hid = callSegs[s].hid /\ r.kind = callSegs[s].kind /\ r.opaque = FALSE
  BY <1>1, <1>2 DEF CallSegType
<1>4. Unhidden(s) = [callSegs EXCEPT ![s] = r]
  BY <1>1 DEF Unhidden
<1>5. \A x \in 1 .. Len(callSegs) : Unhidden(s)[x] = IF x = s THEN r ELSE callSegs[x]
  BY <1>4
<1>6. ASSUME NEW x \in 1 .. Len(callSegs)
      PROVE  /\ Unhidden(s)[x].tx = callSegs[x].tx /\ Unhidden(s)[x].hid = callSegs[x].hid
             /\ Unhidden(s)[x].kind = callSegs[x].kind
             /\ Unhidden(s)[x].opaque = (x # s /\ callSegs[x].opaque)
  <2>1. PICK o : o = callSegs[x]
    OBVIOUS
  <2>2. o \in CallSegType
    BY <2>1
  <2>3. o.opaque \in BOOLEAN
    BY <2>2 DEF CallSegType
  <2>4. CASE x = s
    BY <2>4, <1>3, <1>5
  <2>5. CASE x # s
    BY <2>1, <2>3, <2>5, <1>5
  <2> QED
    BY <2>4, <2>5
<1>7. [callSegs EXCEPT ![s] = r] \in Seq(CallSegType) /\ Len([callSegs EXCEPT ![s] = r]) = Len(callSegs)
  BY <1>3
<1> QED
  BY <1>4, <1>6, <1>7

LEMMA AnswerEvolves ==
    ASSUME callSegs \in Seq(CallSegType), NEW s \in 1 .. Len(callSegs),
           callSegs' = Unhidden(s), Cleared(s), over' = over,
           \A x : x # s /\ Shown(x) => Shown(x)'
    PROVE  /\ Evolves /\ callSegs' \in Seq(CallSegType) /\ Len(callSegs') = Len(callSegs)
           /\ ~callSegs'[s].opaque /\ callSegs'[s].tx = callSegs[s].tx
           /\ \A x \in 1 .. Len(callSegs) :
                 /\ callSegs'[x].tx = callSegs[x].tx /\ callSegs'[x].hid = callSegs[x].hid
                 /\ callSegs'[x].kind = callSegs[x].kind
                 /\ callSegs'[x].opaque = (x # s /\ callSegs[x].opaque)
<1>1. PICK segs : segs = Unhidden(s)
  OBVIOUS
<1>2. /\ segs \in Seq(CallSegType) /\ Len(segs) = Len(callSegs)
      /\ \A x \in 1 .. Len(callSegs) :
            /\ segs[x].tx = callSegs[x].tx /\ segs[x].hid = callSegs[x].hid
            /\ segs[x].kind = callSegs[x].kind
            /\ segs[x].opaque = (x # s /\ callSegs[x].opaque)
  BY <1>1, UnhiddenIs
<1>3. callSegs' = segs
  BY <1>1
<1>4. ASSUME NEW x \in 1 .. Len(callSegs)
      PROVE  /\ callSegs'[x].tx = callSegs[x].tx
             /\ callSegs'[x].opaque => callSegs[x].opaque /\ (Shown(x) => Shown(x)')
             /\ callSegs[x].opaque => callSegs'[x].opaque \/ x \in answered' \cup revealed'
  BY <1>2, <1>3 DEF Cleared
<1>5. Len(callSegs) <= Len(callSegs') /\ answered \subseteq answered' /\ revealed \subseteq revealed' /\ over \subseteq over'
  BY <1>2, <1>3 DEF Cleared
<1>6. ~callSegs'[s].opaque /\ callSegs'[s].tx = callSegs[s].tx
  <2>1. segs[s].opaque = (s # s /\ callSegs[s].opaque) /\ segs[s].tx = callSegs[s].tx
    BY <1>2
  <2> QED
    BY <2>1, <1>3
<1> QED
  BY <1>2, <1>3, <1>4, <1>5, <1>6 DEF Evolves

\* Who is part of a call that is no longer shielded is named by nothing, or by one revealed.
LEMMA PartOfIs == ASSUME NEW hid, ~Shielded(hid) PROVE PartOf(hid) \in {NoCall} \cup revealed
BY DEF PartOf, Shielded

LEMMA ClearsIs ==
    ASSUME NEW t, Clears(t)
    PROVE  Cleared(t.seg) /\ (t.kind \in {"bound", "boundStream"} => t.seg \in revealed')
BY DEF Clears, Cleared

\* Segments that are made are those of a call that is seen, and are not opaque.
Creation(segs, parent, hid, c) ==
    /\ c.segs \in Seq(CallSegType) /\ Len(segs) <= Len(c.segs)
    /\ \A s \in 1 .. Len(segs) : c.segs[s] = segs[s]
    /\ \A s \in 1 .. Len(c.segs) : s \notin 1 .. Len(segs) =>
          c.segs[s].hid = hid /\ c.segs[s].kind # "root" /\ ~c.segs[s].opaque
    /\ c.seg \in 0 .. Len(c.segs)
    /\ Live(parent) => /\ c.seg # NoCall /\ c.segs[c.seg].tx = segs[parent].tx
                       /\ c.segs[c.seg].opaque => c.seg = parent /\ segs[parent].opaque

LEMMA CreatedIs ==
    ASSUME callSegs \in Seq(CallSegType), NEW segs \in Seq(CallSegType), Len(segs) = Len(callSegs),
           NEW parent \in 1 .. Len(callSegs), NEW kind \in {"callback", "rows", "event"},
           NEW hid \in Nat, NEW c, c = Created(segs, parent, kind, NoSpec, hid)
    PROVE  Creation(segs, parent, hid, c)
<1>0. Len(segs) \in Nat /\ parent # NoCall
  BY DEF NoCall
<1>1. CASE ~Live(parent)
  <2>1. c = [segs |-> segs, seg |-> NoCall]
    BY <1>1 DEF Created
  <2> QED
    BY <2>1, <1>0, <1>1 DEF NoCall, Creation
<1>2. CASE Live(parent) /\ segs[parent].opaque
  <2>1. c = [segs |-> segs, seg |-> parent]
    BY <1>2 DEF Created
  <2> QED
    BY <2>1, <1>0, <1>2 DEF NoCall, Creation
<1>3. CASE Live(parent) /\ ~segs[parent].opaque
  <2>1. PICK e : e = Seg(segs[parent].tx, kind, NoSpec, hid)
    OBVIOUS
  <2>2. e = [tx |-> segs[parent].tx, kind |-> kind, opaque |-> FALSE, internal |-> FALSE, shim |-> "other", hid |-> hid]
    BY <2>1 DEF Seg, NoSpec, NoCall, Library
  <2>3. segs[parent].tx \in Clients
    <3>1. segs[parent] \in CallSegType
      OBVIOUS
    <3> QED
      BY <3>1 DEF CallSegType
  <2>4. e \in CallSegType
    BY <2>2, <2>3 DEF CallSegType
  <2>5. c = [segs |-> Append(segs, e), seg |-> Len(segs) + 1]
    BY <2>1, <1>3 DEF Created
  <2>6. c.segs = Append(segs, e) /\ c.seg = Len(segs) + 1
    BY <2>5
  <2>7. c.segs \in Seq(CallSegType) /\ Len(c.segs) = Len(segs) + 1 /\ c.segs[Len(segs) + 1] = e
        /\ \A s \in 1 .. Len(segs) : c.segs[s] = segs[s]
    BY <2>4, <2>6
  <2>8. e.hid = hid /\ e.kind # "root" /\ ~e.opaque /\ e.tx = segs[parent].tx
    BY <2>2 DEF NoCall
  <2> QED
    BY <2>6, <2>7, <2>8, <1>0 DEF NoCall, Creation
<1> QED
  BY <1>1, <1>2, <1>3

\* What waits on is right, if the new ones are.
LEMMA WaitsStay ==
    ASSUME CallInv, callSegs' \in Seq(CallSegType), Evolves,
           \A t \in pending' : t \in pending \/ WaitIsRight(t)'
    PROVE  \A t \in pending' : WaitIsRight(t)'
<1>0. callSegs \in Seq(CallSegType)
  BY DEF CallInv, CallShape
<1>1. ASSUME NEW t \in pending
      PROVE  WaitIsRight(t)'
  <2>1. WaitIsRight(t)
    BY DEF CallInv
  <2> QED
    BY <2>1, <1>0, WaitStays
<1> QED
  BY <1>1

\* A step after which all of it is right.
LEMMA AllRight ==
    ASSUME callSegs' \in Seq(CallSegType), callStack' \in Seq(CallFrameType), running' \in Nat,
           pending' \subseteq WaitType, over' \subseteq Clients, answered' \subseteq Nat, revealed' \subseteq Nat,
           \A s \in 1 .. Len(callSegs') : SegIsRight(s)',
           FramesRight', \A t \in pending' : WaitIsRight(t)'
    PROVE  CallInv'
<1>1. (\A s \in 1 .. Len(callSegs) : SegIsRight(s))'
  OBVIOUS
<1>2. (\A t \in pending : WaitIsRight(t))'
  OBVIOUS
<1> QED
  BY <1>1, <1>2 DEF CallInv, CallShape, FramesRight

LEMMA BoundBackStays == ASSUME CallInv, NEW t \in pending, BoundBack(t) PROVE CallInv'
<1>0. callSegs \in Seq(CallSegType) /\ t \in WaitType /\ WaitIsRight(t) /\ running \in Nat
  BY DEF CallInv, CallShape
<1>1. t.by \in Codes /\ t.tx \in Clients /\ t.hid \in Nat /\ t.seg \in Nat /\ NoSpec \in SpecType
  BY <1>0 DEF WaitType, NoSpec, SpecType
<1>2. t.kind \in {"bound", "boundStream"} /\ UNCHANGED <<callSegs, over, answered, revealed>> /\ pending' = pending \ {t}
      /\ Push(t.seg, Code(t.by, t.tx, t.hid, NoSpec))
  BY DEF BoundBack
<1>3. \A s : Shown(s) => Shown(s)'
  BY <1>2 DEF Shown
<1>4. Evolves
  BY <1>0, <1>2, <1>3 DEF Evolves
<1>5. t.seg \in 1 .. Len(callSegs)'
  BY <1>0, <1>2 DEF WaitIsRight
<1>6. Runs(t.by, t.tx, t.hid, t.seg)'
  <2>1. Number(t.seg)'
    BY <1>5, <1>0 DEF Number
  <2> QED
    BY <2>1, <1>0, <1>2, <1>3, <1>5 DEF Runs, WaitIsRight, Shielded, NoCall
<1>7. FramesRight' /\ callStack' \in Seq(CallFrameType) /\ running' \in Nat
  <2>1. t.seg = IF t.seg = NoCall THEN running ELSE t.seg
    BY <1>5 DEF NoCall
  <2>2. t.seg <= Len(callSegs)'
    BY <1>5
  <2>3. callSegs' \in Seq(CallSegType) /\ over' = over
    BY <1>0, <1>2
  <2> QED
    BY <2>1, <2>2, <2>3, <1>1, <1>2, <1>4, <1>6, PushStays
<1>8. \A s \in 1 .. Len(callSegs') : SegIsRight(s)'
  BY <1>2 DEF CallInv, SegIsRight
<1>9. \A w \in pending' : WaitIsRight(w)'
  BY <1>0, <1>2, <1>4, WaitsStay
<1> QED
  BY <1>0, <1>2, <1>7, <1>8, <1>9, AllRight DEF CallInv, CallShape

\* The call that waits is answered, and what is called back gets a segment under it.
AnswersAs(t, seg) ==
    \E c : /\ c = Created(Unhidden(t.seg), t.seg, "callback", NoSpec, PartOf(t.hid))
          /\ (seg = c.seg \/ (c.seg = NoCall /\ seg = t.seg))
          /\ callSegs' = c.segs /\ pending' = pending \ {t} /\ Clears(t) /\ over' = over
          /\ Push(seg, Code(t.by, t.tx, t.hid, NoSpec))

LEMMA AnswerStays ==
    ASSUME CallInv, NEW t \in pending, NEW seg, t.kind \in {"callback", "stream", "boundStream"}, AnswersAs(t, seg)
    PROVE  CallInv'
<1>0. callSegs \in Seq(CallSegType) /\ t \in WaitType /\ WaitIsRight(t) /\ running \in Nat /\ Number(running)
  BY DEF CallInv, CallShape
<1>1. t.by \in Codes /\ t.tx \in Clients /\ t.hid \in Nat /\ t.seg \in Nat /\ NoSpec \in SpecType
  BY <1>0 DEF WaitType, NoSpec, SpecType
<1>2. PICK h : h = PartOf(t.hid)
  OBVIOUS
<1>3. PICK c : c = Created(Unhidden(t.seg), t.seg, "callback", NoSpec, h)
               /\ (seg = c.seg \/ (c.seg = NoCall /\ seg = t.seg))
               /\ callSegs' = c.segs /\ pending' = pending \ {t} /\ Clears(t) /\ over' = over
               /\ Push(seg, Code(t.by, t.tx, t.hid, NoSpec))
  BY <1>2 DEF AnswersAs
<1>4. /\ callSegs' = c.segs /\ pending' = pending \ {t} /\ over' = over
      /\ Push(seg, Code(t.by, t.tx, t.hid, NoSpec))
  BY <1>3
<1>5. t.seg \in 1 .. Len(callSegs)
  BY <1>0 DEF WaitIsRight
<1>17. Cleared(t.seg) /\ (t.kind \in {"bound", "boundStream"} => t.seg \in revealed')
  BY <1>3, ClearsIs
<1>18. revealed \subseteq revealed' /\ answered \subseteq answered'
  BY <1>17 DEF Cleared
<1>19. h \in Nat /\ h \in {NoCall} \cup revealed'
  <2>1. h \in Nat
    BY <1>1, <1>2 DEF PartOf, NoCall
  <2>2. CASE Shielded(t.hid)
    <3>1. t.seg = t.hid /\ t.kind \in {"bound", "boundStream"}
      BY <2>2, <1>0 DEF WaitIsRight
    <3>2. h = t.hid
      BY <2>2, <1>2 DEF PartOf, Shielded
    <3> QED
      BY <2>1, <3>1, <3>2, <1>17
  <2>3. CASE ~Shielded(t.hid)
    BY <2>1, <2>3, <1>2, <1>18, PartOfIs
  <2> QED
    BY <2>2, <2>3
<1>20. ~Shielded(t.hid)'
  BY <1>0, <1>17, <1>18 DEF Shielded, WaitIsRight
<1>6. PICK segs : segs = Unhidden(t.seg)
  OBVIOUS
<1>7. /\ segs \in Seq(CallSegType) /\ Len(segs) = Len(callSegs)
      /\ \A x \in 1 .. Len(callSegs) :
            /\ segs[x].tx = callSegs[x].tx /\ segs[x].hid = callSegs[x].hid
            /\ segs[x].kind = callSegs[x].kind /\ segs[x].opaque = (x # t.seg /\ callSegs[x].opaque)
  BY <1>0, <1>5, <1>6, UnhiddenIs
<1>8. /\ c.segs \in Seq(CallSegType) /\ Len(segs) <= Len(c.segs)
      /\ \A s \in 1 .. Len(segs) : c.segs[s] = segs[s]
      /\ \A s \in 1 .. Len(c.segs) : s \notin 1 .. Len(segs) =>
            c.segs[s].hid = h /\ c.segs[s].kind # "root" /\ ~c.segs[s].opaque
      /\ c.seg \in 0 .. Len(c.segs)
      /\ Live(t.seg) => /\ c.seg # NoCall /\ c.segs[c.seg].tx = segs[t.seg].tx
                        /\ c.segs[c.seg].opaque => c.seg = t.seg /\ segs[t.seg].opaque
  <2>1. c = Created(segs, t.seg, "callback", NoSpec, h)
    BY <1>3, <1>6
  <2>2. Creation(segs, t.seg, h, c)
    BY <2>1, <1>0, <1>5, <1>7, <1>19, CreatedIs
  <2> QED
    BY <2>2 DEF Creation
<1>9. \A s : s # t.seg /\ Shown(s) => Shown(s)'
  BY <1>4 DEF Shown
<1>10. Evolves
  <2>1. Len(callSegs) <= Len(callSegs')
    BY <1>4, <1>7, <1>8
  <2>2. \A s \in 1 .. Len(callSegs) : callSegs'[s] = segs[s]
    BY <1>4, <1>7, <1>8
  <2>3. t.seg \in answered' \cup revealed'
    BY <1>17 DEF Cleared
  <2> QED
    BY <2>1, <2>2, <2>3, <1>4, <1>7, <1>9, <1>18 DEF Evolves
<1>21. seg \in 0 .. Len(c.segs) /\ seg \in Nat
  BY <1>3, <1>5, <1>7, <1>8, <1>0
<1>11. PICK u : u = (IF seg = NoCall THEN running ELSE seg)
  OBVIOUS
<1>12. Runs(t.by, t.tx, t.hid, u)'
  <2>1. Number(u)'
    BY <1>0, <1>4, <1>8, <1>10, <1>11, <1>21 DEF Number, Evolves
  <2>3. t.by = "app" => t.hid = NoCall
    BY <1>0 DEF WaitIsRight
  <2>4. ASSUME t.by = "app", t.tx \notin over'
        PROVE  u # NoCall /\ callSegs'[u].tx = t.tx /\ (callSegs'[u].opaque => Shown(u)')
    <3>1. callSegs[t.seg].tx = t.tx /\ t.tx \notin over
      BY <2>4, <1>0, <1>4 DEF WaitIsRight
    <3>2. Live(t.seg)
      BY <3>1, <1>5 DEF Live, NoCall
    <3>3. c.seg # NoCall /\ c.segs[c.seg].tx = t.tx /\ ~c.segs[c.seg].opaque
      BY <3>1, <3>2, <1>5, <1>7, <1>8
    <3>4. u = c.seg
      BY <3>3, <1>3, <1>11
    <3> QED
      BY <3>3, <3>4, <1>4
  <2> QED
    BY <2>1, <2>3, <2>4, <1>20 DEF Runs
<1>13. FramesRight' /\ callStack' \in Seq(CallFrameType) /\ running' \in Nat
  <2>1. seg \in Nat /\ seg <= Len(callSegs)' /\ callSegs' \in Seq(CallSegType)
    BY <1>4, <1>8, <1>21
  <2> QED
    BY <2>1, <1>1, <1>4, <1>10, <1>11, <1>12, PushStays
<1>14. \A s \in 1 .. Len(callSegs') : SegIsRight(s)'
  <2>1. ASSUME NEW s \in 1 .. Len(callSegs')
        PROVE  SegIsRight(s)'
    <3>1. CASE s \in 1 .. Len(callSegs)
      <4>1. SegIsRight(s)
        BY <3>1 DEF CallInv
      <4>2. callSegs'[s] = segs[s]
        BY <3>1, <1>4, <1>7, <1>8
      <4> QED
        BY <3>1, <4>1, <4>2, <1>7, <1>18 DEF SegIsRight
    <3>2. CASE s \notin 1 .. Len(callSegs)
      BY <3>2, <1>4, <1>7, <1>8, <1>19 DEF SegIsRight
    <3> QED
      BY <3>1, <3>2
  <2> QED
    BY <2>1
<1>15. \A w \in pending' : WaitIsRight(w)'
  BY <1>4, <1>8, <1>10, WaitsStay
<1>16. answered' \subseteq Nat /\ revealed' \subseteq Nat /\ over' \subseteq Clients /\ pending' \subseteq WaitType
  BY <1>1, <1>4, <1>17 DEF CallInv, CallShape, Cleared
<1> QED
  BY <1>4, <1>8, <1>13, <1>14, <1>15, <1>16, AllRight

LEMMA CallBackStays == ASSUME CallInv, NEW t \in pending, CallBack(t) PROVE CallInv'
<1>1. PICK c : c = Created(Unhidden(t.seg), t.seg, "callback", NoSpec, PartOf(t.hid))
  OBVIOUS
<1>2. /\ callSegs' = c.segs /\ pending' = pending \ {t} /\ Clears(t) /\ over' = over
      /\ t.kind = "callback" /\ Push(c.seg, Code(t.by, t.tx, t.hid, NoSpec))
  BY <1>1 DEF CallBack
<1>3. AnswersAs(t, c.seg)
  BY <1>1, <1>2 DEF AnswersAs
<1> QED
  BY <1>2, <1>3, AnswerStays

LEMMA ListenerHearsStays == ASSUME CallInv, NEW t \in pending, ListenerHears(t) PROVE CallInv'
<1>1. PICK c : c = Created(Unhidden(t.seg), t.seg, "callback", NoSpec, PartOf(t.hid))
  OBVIOUS
<1>2. PICK seg : seg = (IF c.seg = NoCall THEN t.seg ELSE c.seg)
  OBVIOUS
<1>3. /\ callSegs' = c.segs /\ pending' = pending \ {t} /\ Clears(t) /\ over' = over
      /\ t.kind \in {"stream", "boundStream"} /\ Push(seg, Code(t.by, t.tx, t.hid, NoSpec))
  BY <1>1, <1>2 DEF ListenerHears
<1>4. AnswersAs(t, seg)
  BY <1>1, <1>2, <1>3 DEF AnswersAs
<1> QED
  BY <1>3, <1>4, AnswerStays

LEMMA StreamEndsStays == ASSUME CallInv, NEW t \in pending, StreamEnds(t) PROVE CallInv'
<1>0. callSegs \in Seq(CallSegType) /\ t \in WaitType /\ WaitIsRight(t)
  BY DEF CallInv, CallShape
<1>1. t.by \in Codes /\ t.tx \in Clients /\ t.hid \in Nat /\ t.seg \in Nat /\ NoSpec \in SpecType
  BY <1>0 DEF WaitType, NoSpec, SpecType
<1>2. /\ t.kind = "stream" /\ ~Shielded(t.hid)
      /\ callSegs' = Unhidden(t.seg) /\ pending' = pending \ {t} /\ Clears(t) /\ over' = over
      /\ Push(t.seg, Code(t.by, t.tx, t.hid, NoSpec))
  BY <1>0 DEF StreamEnds, WaitIsRight
<1>12. Cleared(t.seg) /\ revealed \subseteq revealed' /\ answered \subseteq answered'
  BY <1>2, ClearsIs DEF Cleared
<1>3. t.seg \in 1 .. Len(callSegs)
  BY <1>0 DEF WaitIsRight
<1>5. \A s : s # t.seg /\ Shown(s) => Shown(s)'
  BY <1>2 DEF Shown
<1>4. /\ callSegs' \in Seq(CallSegType) /\ Len(callSegs') = Len(callSegs)
      /\ \A x \in 1 .. Len(callSegs) :
            /\ callSegs'[x].tx = callSegs[x].tx /\ callSegs'[x].hid = callSegs[x].hid
            /\ callSegs'[x].kind = callSegs[x].kind /\ callSegs'[x].opaque = (x # t.seg /\ callSegs[x].opaque)
  BY <1>0, <1>2, <1>3, <1>5, <1>12, AnswerEvolves
<1>6. Evolves
  BY <1>0, <1>2, <1>3, <1>5, <1>12, AnswerEvolves
<1>7. Runs(t.by, t.tx, t.hid, t.seg)'
  <2>1. Number(t.seg)'
    BY <1>3, <1>4, <1>0 DEF Number
  <2>2. ~Shielded(t.hid)'
    BY <1>2, <1>12 DEF Shielded
  <2>3. t.by = "app" => t.hid = NoCall
    BY <1>0 DEF WaitIsRight
  <2>4. t.by = "app" /\ t.tx \notin over => callSegs[t.seg].tx = t.tx
    BY <1>0, <1>2 DEF WaitIsRight
  <2>5. t.seg # NoCall /\ callSegs'[t.seg].tx = callSegs[t.seg].tx /\ ~callSegs'[t.seg].opaque
    BY <1>0, <1>2, <1>3, <1>5, <1>12, AnswerEvolves DEF NoCall
  <2> QED
    BY <2>1, <2>2, <2>3, <2>4, <2>5, <1>2 DEF Runs
<1>8. FramesRight' /\ callStack' \in Seq(CallFrameType) /\ running' \in Nat
  <2>1. t.seg = IF t.seg = NoCall THEN running ELSE t.seg
    BY <1>3 DEF NoCall
  <2>2. t.seg <= Len(callSegs)'
    BY <1>3, <1>4
  <2> QED
    BY <2>1, <2>2, <1>1, <1>2, <1>4, <1>6, <1>7, PushStays
<1>9. \A s \in 1 .. Len(callSegs') : SegIsRight(s)'
  BY <1>4, <1>12 DEF CallInv, SegIsRight
<1>10. \A w \in pending' : WaitIsRight(w)'
  BY <1>2, <1>4, <1>6, WaitsStay
<1>11. answered' \subseteq Nat /\ revealed' \subseteq Nat /\ over' \subseteq Clients /\ pending' \subseteq WaitType
  BY <1>1, <1>2, <1>12 DEF CallInv, CallShape, Cleared
<1> QED
  BY <1>4, <1>8, <1>9, <1>10, <1>11, AllRight

LEMMA SettlesStays == ASSUME CallInv, NEW t \in pending, Settles(t) PROVE CallInv'
<1>0. callSegs \in Seq(CallSegType) /\ t \in WaitType /\ WaitIsRight(t)
  BY DEF CallInv, CallShape
<1>1. t.seg \in Nat
  BY <1>0 DEF WaitType
<1>2. /\ t.kind \in {"settle", "boundSettle"} /\ UNCHANGED <<running, callStack, over>>
      /\ callSegs' = Unhidden(t.seg) /\ pending' = pending \ {t} /\ Clears(t)
  BY DEF Settles
<1>11. Cleared(t.seg) /\ revealed \subseteq revealed' /\ answered \subseteq answered'
  BY <1>2, ClearsIs DEF Cleared
<1>3. t.seg \in 1 .. Len(callSegs)
  BY <1>0 DEF WaitIsRight
<1>5. \A s : Shown(s) => Shown(s)'
  BY <1>2 DEF Shown
<1>4. /\ callSegs' \in Seq(CallSegType) /\ Len(callSegs') = Len(callSegs)
      /\ \A x \in 1 .. Len(callSegs) :
            /\ callSegs'[x].tx = callSegs[x].tx /\ callSegs'[x].hid = callSegs[x].hid
            /\ callSegs'[x].kind = callSegs[x].kind /\ callSegs'[x].opaque = (x # t.seg /\ callSegs[x].opaque)
  BY <1>0, <1>2, <1>3, <1>5, <1>11, AnswerEvolves
<1>6. Evolves
  BY <1>0, <1>2, <1>3, <1>5, <1>11, AnswerEvolves
<1>7. FramesRight'
  BY <1>2, <1>4, <1>6, CallFramesStay
<1>8. \A s \in 1 .. Len(callSegs') : SegIsRight(s)'
  BY <1>4, <1>11 DEF CallInv, SegIsRight
<1>9. \A w \in pending' : WaitIsRight(w)'
  BY <1>2, <1>4, <1>6, WaitsStay
<1>10. answered' \subseteq Nat /\ revealed' \subseteq Nat /\ over' \subseteq Clients /\ pending' \subseteq WaitType
       /\ callStack' \in Seq(CallFrameType) /\ running' \in Nat
  BY <1>1, <1>2, <1>11 DEF CallInv, CallShape, Cleared
<1> QED
  BY <1>4, <1>7, <1>8, <1>9, <1>10, AllRight

LEMMA FinishesStays == ASSUME CallInv, NEW client \in Clients, Finishes(client) PROVE CallInv'
<1>1. over' = over \cup {client} /\ UNCHANGED <<callSegs, running, callStack, pending, answered, revealed>>
  BY DEF Finishes
<1>2. CallShape'
  BY <1>1 DEF CallInv, CallShape
<1>3. \A s : Shown(s) => Shown(s)'
  BY <1>1 DEF Shown
<1>4. Evolves
  BY <1>1, <1>3 DEF Evolves, CallInv, CallShape
<1>5. FramesRight'
  BY <1>1, <1>2, <1>4, CallFramesStay DEF CallShape
<1>6. \A s \in 1 .. Len(callSegs') : SegIsRight(s)'
  BY <1>1 DEF CallInv, SegIsRight
<1>7. \A w \in pending' : WaitIsRight(w)'
  BY <1>1, <1>2, <1>4, WaitsStay DEF CallShape
<1> QED
  BY <1>2, <1>5, <1>6, <1>7, AllRight DEF CallShape

LEMMA AppRunsStays == ASSUME CallInv, NEW client \in Clients, AppRuns(client) PROVE CallInv'
<1>1. PICK root \in DOMAIN callSegs :
          callSegs[root].kind = "root" /\ callSegs[root].tx = client /\ Push(root, Code("app", client, NoCall, NoSpec))
  BY DEF AppRuns
<1>2. UNCHANGED <<callSegs, pending, over, answered, revealed>>
  BY DEF AppRuns
<1>3. callSegs \in Seq(CallSegType) /\ root \in 1 .. Len(callSegs) /\ root \in Nat /\ root # NoCall
  BY DEF CallInv, CallShape, NoCall
<1>4. ~callSegs[root].opaque
  BY <1>1, <1>3 DEF CallInv, SegIsRight
<1>5. \A s : Shown(s) => Shown(s)'
  BY <1>2 DEF Shown
<1>6. Evolves
  BY <1>2, <1>3, <1>5 DEF Evolves
<1>7. Runs("app", client, NoCall, root)'
  BY <1>1, <1>2, <1>3, <1>4 DEF Runs, Number, Shielded
<1>8. FramesRight' /\ callStack' \in Seq(CallFrameType) /\ running' \in Nat
  <2>1. "app" \in Codes /\ NoCall \in Nat /\ NoSpec \in SpecType
    BY DEF Codes, NoCall, NoSpec, SpecType
  <2>2. root = IF root = NoCall THEN running ELSE root
    BY <1>3
  <2>3. root <= Len(callSegs)'
    BY <1>2, <1>3
  <2> QED
    BY <2>1, <2>2, <2>3, <1>1, <1>2, <1>3, <1>6, <1>7, PushStays
<1>9. \A s \in 1 .. Len(callSegs') : SegIsRight(s)'
  BY <1>2 DEF CallInv, SegIsRight
<1>10. \A w \in pending' : WaitIsRight(w)'
  BY <1>2, <1>3, <1>6, WaitsStay
<1> QED
  BY <1>2, <1>3, <1>8, <1>9, <1>10, AllRight DEF CallInv, CallShape

\* The segments, and maybe more of calls that are seen.
Grown(segs) ==
    /\ segs \in Seq(CallSegType) /\ Len(callSegs) <= Len(segs)
    /\ \A s \in 1 .. Len(callSegs) : segs[s] = callSegs[s]
    /\ \A s \in 1 .. Len(segs) : s \notin 1 .. Len(callSegs) =>
           segs[s].hid \in {NoCall} \cup revealed /\ segs[s].kind # "root"

LEMMA GrownEvolves ==
    ASSUME CallInv, NEW segs, Grown(segs), callSegs' = segs, UNCHANGED <<answered, revealed, over>>,
           \A s \in 1 .. Len(callSegs) : Shown(s) => Shown(s)'
    PROVE  Evolves /\ (\A s \in 1 .. Len(callSegs') : SegIsRight(s)')
<1>1. Evolves
  <2>1. Len(callSegs) <= Len(callSegs') /\ answered \subseteq answered' /\ revealed \subseteq revealed'
        /\ over \subseteq over'
    BY DEF Grown
  <2>2. \A s \in 1 .. Len(callSegs) : callSegs'[s] = callSegs[s]
    BY DEF Grown
  <2> QED
    BY <2>1, <2>2 DEF Evolves
<1>2. ASSUME NEW s \in 1 .. Len(callSegs')
      PROVE  SegIsRight(s)'
  <2>1. CASE s \in 1 .. Len(callSegs)
    <3>1. SegIsRight(s)
      BY <2>1 DEF CallInv
    <3>2. callSegs'[s] = callSegs[s]
      BY <2>1 DEF Grown
    <3> QED
      BY <3>1, <3>2 DEF SegIsRight
  <2>2. CASE s \notin 1 .. Len(callSegs)
    BY <2>2 DEF Grown, SegIsRight
  <2> QED
    BY <2>1, <2>2
<1> QED
  BY <1>1, <1>2

LEMMA MadeIs ==
    ASSUME NEW t \in WaitType, NEW m \in Nat, NEW w, w = [t EXCEPT !.made = m]
    PROVE  /\ w \in WaitType /\ w.made = m /\ w.kind = t.kind /\ w.seg = t.seg /\ w.by = t.by
           /\ w.tx = t.tx /\ w.hid = t.hid
           /\ m = t.made => w = t
BY DEF WaitType

\* A row or an event is handled under segment seg, the one that is made for them being m.
LEMMA EventStays ==
    ASSUME CallInv, NEW t \in pending, t.kind \in {"row", "stream"},
           NEW segs, Grown(segs), callSegs' = segs,
           NEW m \in 0 .. Len(segs), NEW seg \in 0 .. Len(segs),
           pending' = (pending \ {t}) \cup {[t EXCEPT !.made = m]},
           UNCHANGED <<answered, revealed, over>>,
           Push(seg, Code(t.by, t.tx, t.hid, NoSpec)),
           t.made # NoCall => m = t.made,
           m # NoCall /\ segs[m].opaque => m = t.seg,
           t.by = "app" /\ t.tx \notin over => m # NoCall /\ segs[m].tx = t.tx /\ seg = m
    PROVE  CallInv'
<1>0. /\ callSegs \in Seq(CallSegType) /\ t \in WaitType /\ WaitIsRight(t) /\ running \in Nat /\ Number(running)
      /\ segs \in Seq(CallSegType) /\ Len(segs) \in Nat /\ m \in Nat /\ seg \in Nat
  BY DEF CallInv, CallShape, Grown
<1>1. t.by \in Codes /\ t.tx \in Clients /\ t.hid \in Nat /\ t.seg \in Nat /\ NoSpec \in SpecType
  BY <1>0 DEF WaitType, NoSpec, SpecType
<1>2. ~Shielded(t.hid) /\ (t.by = "app" => t.hid = NoCall) /\ t.seg \in 1 .. Len(callSegs)
  BY <1>0 DEF WaitIsRight
<1>3. PICK w : w = [t EXCEPT !.made = m]
  OBVIOUS
<1>4. /\ w \in WaitType /\ w.made = m /\ w.kind = t.kind /\ w.seg = t.seg /\ w.by = t.by
      /\ w.tx = t.tx /\ w.hid = t.hid /\ (m = t.made => w = t)
  BY <1>0, <1>3, MadeIs
<1>5. w \in pending' /\ pending' = (pending \ {t}) \cup {w}
  BY <1>3
<1>6. ASSUME NEW s \in 1 .. Len(callSegs), Shown(s)
      PROVE  Shown(s)'
  <2>1. PICK v \in pending : v.kind \in {"row", "stream"} /\ v.made = s /\ v.seg = s
    BY <1>6 DEF Shown
  <2>2. v \in pending'
    <3>1. CASE v = t
      BY <3>1, <2>1, <1>0, <1>4, <1>5 DEF NoCall
    <3>2. CASE v # t
      BY <3>2, <1>5
    <3> QED
      BY <3>1, <3>2
  <2> QED
    BY <2>1, <2>2 DEF Shown
<1>7. Evolves /\ (\A s \in 1 .. Len(callSegs') : SegIsRight(s)')
  BY <1>6, GrownEvolves
<1>8. PICK u : u = (IF seg = NoCall THEN running ELSE seg)
  OBVIOUS
<1>9. Runs(t.by, t.tx, t.hid, u)'
  <2>1. Number(u)'
    BY <1>0, <1>7, <1>8 DEF Number, Evolves
  <2>2. ~Shielded(t.hid)'
    BY <1>2 DEF Shielded
  <2>3. ASSUME t.by = "app", t.tx \notin over'
        PROVE  u # NoCall /\ callSegs'[u].tx = t.tx /\ (callSegs'[u].opaque => Shown(u)')
    <3>1. u = m /\ m # NoCall /\ segs[m].tx = t.tx /\ (segs[m].opaque => m = t.seg)
      BY <2>3, <1>8
    <3>2. segs[m].opaque => Shown(m)'
      BY <3>1, <1>4, <1>5 DEF Shown
    <3> QED
      BY <3>1, <3>2
  <2> QED
    BY <2>1, <2>2, <2>3, <1>2 DEF Runs
<1>10. FramesRight' /\ callStack' \in Seq(CallFrameType) /\ running' \in Nat
  <2>1. seg <= Len(callSegs)' /\ callSegs' \in Seq(CallSegType) /\ over' = over
    BY <1>0
  <2> QED
    BY <2>1, <1>0, <1>1, <1>7, <1>8, <1>9, PushStays
<1>11. WaitIsRight(w)'
  <2>1. WaitIsRight(t)'
    BY <1>0, <1>7, WaitStays
  <2>2. Number(w.made)'
    BY <1>4 DEF Number
  <2>3. w.made # NoCall =>
           /\ w.kind \in {"row", "stream"}
           /\ callSegs'[w.made].opaque => w.made = w.seg
           /\ w.by = "app" /\ w.tx \notin over' => callSegs'[w.made].tx = w.tx
    BY <1>4
  <2>4. /\ w.seg \in 1 .. Len(callSegs')
        /\ w.by = "app" => w.hid = NoCall
        /\ Shielded(w.hid)' => w.seg = w.hid /\ w.kind \in {"bound", "boundStream"} /\ callSegs'[w.seg].opaque
        /\ w.by = "app" /\ w.tx \notin over' /\ w.kind \notin {"settle", "boundSettle"} =>
              /\ callSegs'[w.seg].tx = w.tx
              /\ w.kind \in {"bound", "boundStream"} /\ callSegs'[w.seg].opaque => Shown(w.seg)'
    BY <2>1, <1>4 DEF WaitIsRight, Shielded
  <2> QED
    BY <2>2, <2>3, <2>4 DEF WaitIsRight
<1>12. \A v \in pending' : WaitIsRight(v)'
  <2>1. \A v \in pending' : v \in pending \/ WaitIsRight(v)'
    BY <1>5, <1>11
  <2> QED
    BY <2>1, <1>0, <1>7, WaitsStay
<1>13. answered' \subseteq Nat /\ revealed' \subseteq Nat /\ over' \subseteq Clients /\ pending' \subseteq WaitType
  BY <1>4, <1>5 DEF CallInv, CallShape
<1> QED
  BY <1>0, <1>7, <1>10, <1>12, <1>13, AllRight

\* The segment that rows or events of a call get with the first of them.
LEMMA FirstEvent ==
    ASSUME CallInv, NEW t \in pending, t.kind \in {"row", "stream"}, NEW kind \in {"rows", "event"},
           NEW c, c = Created(callSegs, t.seg, kind, NoSpec, PartOf(t.hid))
    PROVE  /\ Grown(c.segs) /\ c.seg \in 0 .. Len(c.segs)
           /\ c.seg # NoCall /\ c.segs[c.seg].opaque => c.seg = t.seg
           /\ t.by = "app" /\ t.tx \notin over => c.seg # NoCall /\ c.segs[c.seg].tx = t.tx
<1>0. callSegs \in Seq(CallSegType) /\ WaitIsRight(t)
  BY DEF CallInv, CallShape
<1>6. PICK h : h = PartOf(t.hid)
  OBVIOUS
<1>1. h \in Nat /\ h \in {NoCall} \cup revealed /\ t.seg \in 1 .. Len(callSegs)
  <2>1. ~Shielded(t.hid) /\ t.seg \in 1 .. Len(callSegs)
    BY <1>0 DEF WaitIsRight
  <2>2. h \in {NoCall} \cup revealed
    BY <2>1, <1>6, PartOfIs
  <2>3. revealed \subseteq Nat
    BY DEF CallInv, CallShape
  <2> QED
    BY <2>1, <2>2, <2>3 DEF NoCall
<1>2. c = Created(callSegs, t.seg, kind, NoSpec, h)
  BY <1>6
<1>3. /\ c.segs \in Seq(CallSegType) /\ Len(callSegs) <= Len(c.segs)
      /\ \A s \in 1 .. Len(callSegs) : c.segs[s] = callSegs[s]
      /\ \A s \in 1 .. Len(c.segs) : s \notin 1 .. Len(callSegs) =>
            c.segs[s].hid = h /\ c.segs[s].kind # "root" /\ ~c.segs[s].opaque
      /\ c.seg \in 0 .. Len(c.segs)
      /\ Live(t.seg) => /\ c.seg # NoCall /\ c.segs[c.seg].tx = callSegs[t.seg].tx
                        /\ c.segs[c.seg].opaque => c.seg = t.seg /\ callSegs[t.seg].opaque
  <2>1. PICK segs : segs = callSegs
    OBVIOUS
  <2>2. c = Created(segs, t.seg, kind, NoSpec, h) /\ h \in Nat /\ kind \in {"callback", "rows", "event"}
        /\ segs \in Seq(CallSegType) /\ Len(segs) = Len(callSegs)
        /\ callSegs \in Seq(CallSegType) /\ t.seg \in 1 .. Len(callSegs)
    BY <1>0, <1>1, <1>2, <2>1
  <2>4. Creation(segs, t.seg, h, c)
    BY <2>2, CreatedIs
  <2>3. /\ c.segs \in Seq(CallSegType) /\ Len(segs) <= Len(c.segs)
        /\ \A s \in 1 .. Len(segs) : c.segs[s] = segs[s]
        /\ \A s \in 1 .. Len(c.segs) : s \notin 1 .. Len(segs) =>
              c.segs[s].hid = h /\ c.segs[s].kind # "root" /\ ~c.segs[s].opaque
        /\ c.seg \in 0 .. Len(c.segs)
        /\ Live(t.seg) => /\ c.seg # NoCall /\ c.segs[c.seg].tx = segs[t.seg].tx
                          /\ c.segs[c.seg].opaque => c.seg = t.seg /\ segs[t.seg].opaque
    BY <2>4 DEF Creation
  <2> QED
    BY <2>1, <2>3
<1>4. ~Live(t.seg) => c.seg = NoCall
  BY <1>2 DEF Created
<1>5. t.by = "app" /\ t.tx \notin over => callSegs[t.seg].tx = t.tx /\ Live(t.seg)
  BY <1>0, <1>1 DEF WaitIsRight, Live, NoCall
<1> QED
  BY <1>1, <1>3, <1>4, <1>5 DEF Grown

LEMMA RowStays == ASSUME CallInv, NEW t \in pending, Row(t) PROVE CallInv'
<1>0. callSegs \in Seq(CallSegType) /\ t \in WaitType /\ WaitIsRight(t) /\ t.kind = "row"
  BY DEF CallInv, CallShape, Row
<1>1. t.seg \in 1 .. Len(callSegs) /\ Number(t.made)
  BY <1>0 DEF WaitIsRight
<1>2. CASE t.made = NoCall
  <2>1. PICK c : c = Created(callSegs, t.seg, "rows", NoSpec, PartOf(t.hid))
    OBVIOUS
  <2>2. /\ callSegs' = c.segs /\ pending' = (pending \ {t}) \cup {[t EXCEPT !.made = c.seg]}
        /\ Push(IF c.seg = NoCall THEN t.seg ELSE c.seg, Code(t.by, t.tx, t.hid, NoSpec))
        /\ UNCHANGED <<answered, revealed, over>>
    BY <2>1, <1>2 DEF Row
  <2>3. /\ Grown(c.segs) /\ c.seg \in 0 .. Len(c.segs)
        /\ c.seg # NoCall /\ c.segs[c.seg].opaque => c.seg = t.seg
        /\ t.by = "app" /\ t.tx \notin over => c.seg # NoCall /\ c.segs[c.seg].tx = t.tx
    BY <2>1, <1>0, FirstEvent
  <2>4. PICK seg : seg = (IF c.seg = NoCall THEN t.seg ELSE c.seg)
    OBVIOUS
  <2>5. seg \in 0 .. Len(c.segs)
    BY <2>3, <2>4, <1>0, <1>1 DEF Grown
  <2> QED
    BY <2>2, <2>3, <2>4, <2>5, <1>0, <1>2, EventStays
<1>3. CASE t.made # NoCall
  <2>1. /\ callSegs' = callSegs /\ pending' = (pending \ {t}) \cup {[t EXCEPT !.made = t.made]}
        /\ Push(t.made, Code(t.by, t.tx, t.hid, NoSpec))
        /\ UNCHANGED <<answered, revealed, over>>
    BY <1>3 DEF Row
  <2>2. PICK segs : segs = callSegs
    OBVIOUS
  <2>3. Grown(segs)
    BY <2>2, <1>0 DEF Grown
  <2>4. t.made \in 0 .. Len(segs)
    BY <1>1, <2>2 DEF Number
  <2>5. /\ segs[t.made].opaque => t.made = t.seg
        /\ t.by = "app" /\ t.tx \notin over => segs[t.made].tx = t.tx
    BY <1>0, <1>3, <2>2 DEF WaitIsRight
  <2> QED
    BY <2>1, <2>2, <2>3, <2>4, <2>5, <1>0, <1>3, EventStays
<1> QED
  BY <1>2, <1>3

LEMMA StreamEventStays == ASSUME CallInv, NEW t \in pending, StreamEvent(t) PROVE CallInv'
<1>0. callSegs \in Seq(CallSegType) /\ t \in WaitType /\ WaitIsRight(t) /\ t.kind = "stream"
  BY DEF CallInv, CallShape, StreamEvent
<1>1. t.seg \in 1 .. Len(callSegs) /\ Number(t.made)
  BY <1>0 DEF WaitIsRight
<1>2. PICK segs : segs = callSegs
  OBVIOUS
<1>3. Grown(segs)
  BY <1>2, <1>0 DEF Grown
<1>4. t.made \in 0 .. Len(segs) /\ t.seg \in 0 .. Len(segs)
  BY <1>0, <1>1, <1>2 DEF Number
<1>5. t.made # NoCall =>
        /\ segs[t.made].opaque => t.made = t.seg
        /\ t.by = "app" /\ t.tx \notin over => segs[t.made].tx = t.tx
  BY <1>0, <1>2 DEF WaitIsRight
<1>6. CASE t.tx \in over
  <2>1. /\ callSegs' = callSegs /\ pending' = (pending \ {t}) \cup {[t EXCEPT !.made = t.made]}
        /\ Push(t.seg, Code(t.by, t.tx, t.hid, NoSpec))
        /\ UNCHANGED <<answered, revealed, over>>
    BY <1>6 DEF StreamEvent
  <2> QED
    BY <2>1, <1>0, <1>2, <1>3, <1>4, <1>5, <1>6, EventStays
<1>7. CASE t.tx \notin over /\ t.made # NoCall
  <2>1. /\ callSegs' = callSegs /\ pending' = (pending \ {t}) \cup {[t EXCEPT !.made = t.made]}
        /\ Push(t.made, Code(t.by, t.tx, t.hid, NoSpec))
        /\ UNCHANGED <<answered, revealed, over>>
    BY <1>7 DEF StreamEvent
  <2> QED
    BY <2>1, <1>0, <1>2, <1>3, <1>4, <1>5, <1>7, EventStays
<1>8. CASE t.tx \notin over /\ t.made = NoCall
  <2>1. PICK c : c = Created(callSegs, t.seg, "event", NoSpec, PartOf(t.hid))
    OBVIOUS
  <2>2. /\ callSegs' = c.segs /\ pending' = (pending \ {t}) \cup {[t EXCEPT !.made = c.seg]}
        /\ Push(c.seg, Code(t.by, t.tx, t.hid, NoSpec))
        /\ UNCHANGED <<answered, revealed, over>>
    BY <2>1, <1>8 DEF StreamEvent
  <2>3. /\ Grown(c.segs) /\ c.seg \in 0 .. Len(c.segs)
        /\ c.seg # NoCall /\ c.segs[c.seg].opaque => c.seg = t.seg
        /\ t.by = "app" /\ t.tx \notin over => c.seg # NoCall /\ c.segs[c.seg].tx = t.tx
    BY <2>1, <1>0, FirstEvent
  <2> QED
    BY <2>2, <2>3, <1>0, <1>8, EventStays
<1> QED
  BY <1>6, <1>7, <1>8

LEMMA ReturnedStays == ASSUME CallInv, Returned PROVE CallInv'
<1>0. callSegs \in Seq(CallSegType) /\ callStack \in Seq(CallFrameType) /\ running \in Nat /\ callStack # <<>>
  BY DEF CallInv, CallShape, Returned
<1>1. PICK n : n = Len(callStack)
  OBVIOUS
<1>2. n \in Nat \ {0} /\ n \in 1 .. Len(callStack)
  BY <1>0, <1>1
<1>3. PICK f : f = callStack[n]
  OBVIOUS
<1>4. f \in CallFrameType /\ f.prev \in Nat /\ f.seg \in Nat /\ f.by \in Codes /\ f.tx \in Clients
  <2>1. f \in CallFrameType
    BY <1>0, <1>2, <1>3
  <2> QED
    BY <2>1 DEF CallFrameType
<1>5. FrameIsRight(f, running)
  <2>1. Under(n) = running
    BY <1>1 DEF Under
  <2>2. FrameIsRight(callStack[n], Under(n))
    BY <1>2 DEF CallInv
  <2> QED
    BY <2>1, <2>2, <1>3 DEF FrameIsRight
<1>18. PICK k \in {"settle", "boundSettle"} : k = IF f.seg = f.prev THEN "boundSettle" ELSE "settle"
  OBVIOUS
<1>6. /\ running' = f.prev /\ callStack' = SubSeq(callStack, 1, n - 1)
      /\ UNCHANGED <<callSegs, over, answered, revealed>>
      /\ \/ pending' = pending
         \/ f.seg # NoCall /\ pending' = pending \cup {Waiting(k, f.seg, f.by, f.tx, NoCall, NoCall)}
  <2>1. Top = f
    BY <1>1, <1>3 DEF Top
  <2> QED
    BY <2>1, <1>1, <1>18 DEF Returned
<1>7. /\ callStack' \in Seq(CallFrameType) /\ Len(callStack') = n - 1
      /\ \A i \in 1 .. n - 1 : callStack'[i] = callStack[i]
  BY <1>0, <1>1, <1>2, <1>6
<1>8. \A s : Shown(s) => Shown(s)'
  BY <1>6 DEF Shown
<1>9. Evolves /\ callSegs' \in Seq(CallSegType)
  BY <1>0, <1>6, <1>8 DEF Evolves
<1>10. FramesRight'
  <2>1. Number(running)'
    BY <1>5, <1>6 DEF FrameIsRight, Number
  <2>2. ASSUME NEW i \in 1 .. Len(callStack')
        PROVE  FrameIsRight(callStack[i], Under(i))'
    <3>0. i \in 1 .. n - 1 /\ i \in 1 .. Len(callStack) /\ i # Len(callStack) /\ i \in Nat
      BY <1>1, <1>2, <1>7
    <3>1. PICK g : g = callStack[i]
      OBVIOUS
    <3>2. PICK u : u = Under(i)
      OBVIOUS
    <3>3. FrameIsRight(g, u)'
      <4>1. FrameIsRight(g, u)
        BY <3>0, <3>1, <3>2 DEF CallInv
      <4> QED
        BY <4>1, <1>0, <1>9, FrameStays
    <3>4. callStack'[i] = g
      BY <3>0, <3>1, <1>7
    <3>5. u = callStack[i + 1].prev
      BY <3>0, <3>2 DEF Under
    <3>6. Under(i)' = u
      <4>1. CASE i = n - 1
        <5>1. i + 1 = n
          BY <4>1, <1>2
        <5> QED
          BY <5>1, <4>1, <3>5, <1>3, <1>6, <1>7 DEF Under
      <4>2. CASE i # n - 1
        <5>1. i + 1 \in 1 .. n - 1
          BY <4>2, <3>0, <1>2
        <5> QED
          BY <5>1, <4>2, <3>5, <1>7 DEF Under
      <4> QED
        BY <4>1, <4>2
    <3> QED
      BY <3>3, <3>4, <3>6 DEF FrameIsRight
  <2>3. CASE n = 1
    <3>1. callStack' = <<>> /\ f.prev = NoCall
      BY <2>3, <1>0, <1>3, <1>7 DEF CallInv
    <3> QED
      BY <3>1, <2>1, <2>2, <1>6 DEF FramesRight
  <2>4. CASE n # 1
    <3>1. 1 \in 1 .. n - 1 /\ callStack' # <<>>
      BY <2>4, <1>2, <1>7
    <3>2. callStack'[1].prev = NoCall
      BY <3>1, <1>0, <1>7 DEF CallInv
    <3> QED
      BY <3>1, <3>2, <2>1, <2>2 DEF FramesRight
  <2> QED
    BY <2>3, <2>4
<1>11. PICK w : w = Waiting(k, f.seg, f.by, f.tx, NoCall, NoCall)
  OBVIOUS
<1>12. w = [kind |-> k, seg |-> f.seg, by |-> f.by, tx |-> f.tx, hid |-> NoCall, made |-> NoCall]
  BY <1>11 DEF Waiting
<1>13. w \in WaitType
  BY <1>12, <1>4, <1>18 DEF WaitType, NoCall
<1>14. f.seg # NoCall => WaitIsRight(w)'
  <2>1. f.seg # NoCall => f.seg \in 1 .. Len(callSegs)'
    BY <1>4, <1>5, <1>6 DEF FrameIsRight, Number, NoCall
  <2> QED
    BY <2>1, <1>12, <1>18 DEF WaitIsRight, Number, Shielded, NoCall
<1>15. \A v \in pending' : WaitIsRight(v)'
  <2>1. \A v \in pending' : v \in pending \/ WaitIsRight(v)'
    BY <1>6, <1>11, <1>14
  <2> QED
    BY <2>1, <1>9, WaitsStay
<1>16. \A s \in 1 .. Len(callSegs') : SegIsRight(s)'
  BY <1>6 DEF CallInv, SegIsRight
<1>17. pending' \subseteq WaitType
  BY <1>6, <1>11, <1>13 DEF CallInv, CallShape
<1> QED
  BY <1>4, <1>6, <1>7, <1>9, <1>10, <1>15, <1>16, <1>17, AllRight DEF CallInv, CallShape

LEMMA DescriptorIsSpec == ASSUME NEW raw \in SpecType PROVE Descriptor(raw) \in SpecType
<1>1. raw.fn \in {"operation", "query", "other"}
  BY DEF SpecType
<1>2. CASE raw.fn = "operation"
  <2>1. Descriptor(raw) = [raw EXCEPT !.internal = @ \/ raw.record, !.arg = IF @ \in {"row", "stream"} THEN "none" ELSE @]
    BY <1>2, Zenon DEF Descriptor
  <2>2. PICK i \in BOOLEAN : i = (raw.internal \/ raw.record)
    OBVIOUS
  <2>3. PICK a \in {"none", "callback", "row", "stream"} : a = IF raw.arg \in {"row", "stream"} THEN "none" ELSE raw.arg
    BY DEF SpecType
  <2>4. Descriptor(raw) = [raw EXCEPT !.internal = i, !.arg = a]
    BY <2>1, <2>2, <2>3, Zenon
  <2> QED
    BY <2>4 DEF SpecType
<1>3. CASE raw.fn = "query"
  <2>1. Descriptor(raw) = [raw EXCEPT !.internal = IF raw.said THEN @ ELSE raw.record]
    BY <1>3, Zenon DEF Descriptor
  <2>2. PICK i \in BOOLEAN : i = IF raw.said THEN raw.internal ELSE raw.record
    BY DEF SpecType
  <2>3. Descriptor(raw) = [raw EXCEPT !.internal = i]
    BY <2>1, <2>2, Zenon
  <2> QED
    BY <2>3 DEF SpecType
<1>4. CASE raw.fn = "other"
  BY <1>4 DEF Descriptor
<1> QED
  BY <1>1, <1>2, <1>3, <1>4

LEMMA BoundIs ==
    ASSUME NEW spec \in SpecType, NEW seg, NEW created \in BOOLEAN, NEW b \in Bound(spec, seg, created)
    PROVE  /\ b.seg = seg
           /\ b.kind \in IF created THEN {"callback", "row", "stream"} ELSE {"bound", "boundStream"}
<1>1. spec.arg \in {"none", "callback", "row", "stream"}
  BY DEF SpecType
<1> QED
  BY <1>1 DEF Bound

\* What a call makes wait, under segment seg, by code f.
MakesWait(spec, seg, created, f, owner) ==
    \A w \in pending' :
        w \in pending \/ \E b \in Bound(spec, seg, created) : w = Waiting(b.kind, b.seg, f.by, f.tx, owner, NoCall)

LEMMA CallWaits ==
    ASSUME CallInv, Evolves, callSegs' \in Seq(CallSegType), NEW f \in CallFrameType,
           NEW seg \in 1 .. Len(callSegs'), NEW created \in BOOLEAN, NEW spec \in SpecType, NEW owner \in Nat,
           MakesWait(spec, seg, created, f, owner),
           f.by = "app" => owner = NoCall,
           Shielded(owner)' => seg = owner /\ ~created /\ callSegs'[seg].opaque,
           f.by = "app" /\ f.tx \notin over' =>
               /\ callSegs'[seg].tx = f.tx
               /\ ~created /\ callSegs'[seg].opaque => Shown(seg)'
    PROVE  pending' \subseteq WaitType /\ \A w \in pending' : WaitIsRight(w)'
<1>1. ASSUME NEW b \in Bound(spec, seg, created), NEW w, w = Waiting(b.kind, b.seg, f.by, f.tx, owner, NoCall)
      PROVE  w \in WaitType /\ WaitIsRight(w)'
  <2>1. b.seg = seg /\ b.kind \in IF created THEN {"callback", "row", "stream"} ELSE {"bound", "boundStream"}
    BY BoundIs
  <2>2. PICK k : k = b.kind
    OBVIOUS
  <2>3. w = [kind |-> k, seg |-> seg, by |-> f.by, tx |-> f.tx, hid |-> owner, made |-> 0]
    BY <1>1, <2>1, <2>2 DEF Waiting, NoCall
  <2>4. k \in {"callback", "row", "stream", "bound", "boundStream"}
        /\ (k \in {"bound", "boundStream"} <=> ~created)
    BY <2>1, <2>2
  <2>5. f.by \in Codes /\ f.tx \in Clients /\ seg \in Nat
    BY DEF CallFrameType
  <2>6. w \in WaitType
    BY <2>3, <2>4, <2>5 DEF WaitType
  <2>7. w.kind = k /\ w.seg = seg /\ w.by = f.by /\ w.tx = f.tx /\ w.hid = owner /\ w.made = NoCall
    BY <2>3 DEF NoCall
  <2>8. Number(w.made)'
    BY <2>7 DEF Number, NoCall
  <2> QED
    BY <2>4, <2>6, <2>7, <2>8 DEF WaitIsRight, Shielded
<1>2. ASSUME NEW w \in pending'
      PROVE  w \in WaitType /\ (w \in pending \/ WaitIsRight(w)')
  <2>1. CASE w \in pending
    BY <2>1 DEF CallInv, CallShape
  <2>2. CASE w \notin pending
    <3>1. PICK b \in Bound(spec, seg, created) : w = Waiting(b.kind, b.seg, f.by, f.tx, owner, NoCall)
      BY <2>2 DEF MakesWait
    <3> QED
      BY <3>1, <1>1
  <2> QED
    BY <2>1, <2>2
<1>3. \A w \in pending' : WaitIsRight(w)'
  BY <1>2, WaitsStay
<1> QED
  BY <1>2, <1>3

LEMMA CallStays == ASSUME CallInv, NEW raw \in CallSpecs, Call(raw) PROVE CallInv'
<1>0. callSegs \in Seq(CallSegType) /\ callStack \in Seq(CallFrameType) /\ running \in Nat /\ callStack # <<>>
  BY DEF CallInv, CallShape, Call
<1>1. PICK n : n = Len(callStack)
  OBVIOUS
<1>2. n \in 1 .. Len(callStack)
  BY <1>0, <1>1
<1>3. PICK f : f = Top
  OBVIOUS
<1>4. f \in CallFrameType /\ FrameIsRight(f, running)
  <2>1. f = callStack[n]
    BY <1>1, <1>3 DEF Top
  <2>2. Under(n) = running
    BY <1>1 DEF Under
  <2>3. FrameIsRight(callStack[n], Under(n))
    BY <1>2 DEF CallInv
  <2> QED
    BY <2>1, <2>2, <2>3, <1>0, <1>2 DEF FrameIsRight
<1>5. f.tx \in Clients /\ f.hid \in Nat /\ f.by \in Codes /\ f.live \in BOOLEAN
  BY <1>4 DEF CallFrameType
<1>6. PICK spec : spec = Descriptor(raw)
  OBVIOUS
<1>7. spec \in SpecType /\ NoSpec \in SpecType
  <2>1. raw \in SpecType
    BY CallAssumption
  <2> QED
    BY <2>1, <1>6, DescriptorIsSpec DEF NoSpec, SpecType
<1>8. PICK p : p = running
  OBVIOUS
<1>9. ActiveSegment = p /\ p \in 1 .. Len(callSegs) /\ p \in Nat /\ p # NoCall
  <2>1. ActiveSegment # NoCall
    BY DEF Call
  <2>2. ActiveSegment = p /\ p # NoCall
    BY <2>1, <1>8 DEF ActiveSegment
  <2> QED
    BY <2>2, <1>0, <1>4, <1>8 DEF FrameIsRight, Number, NoCall
<1>10. PICK h : h = PartOf(f.hid)
  OBVIOUS
<1>11. h \in Nat /\ (Shielded(h) => p = h /\ callSegs[p].opaque) /\ (Shielded(h) \/ h \in {NoCall} \cup revealed) /\ (f.by = "app" => h = NoCall)
  BY <1>4, <1>5, <1>8, <1>10 DEF PartOf, FrameIsRight, Shielded, NoCall
<1>12. f.by = "app" /\ f.tx \notin over => callSegs[p].tx = f.tx /\ (callSegs[p].opaque => Shown(p))
  BY <1>4, <1>8 DEF FrameIsRight
<1>13. UNCHANGED <<over, answered, revealed>>
  BY DEF Call
<1>14. "driver" \in Codes /\ "driver" # "app"
  BY DEF Codes
<1>15. CASE /\ Push(NoCall, Code("driver", f.tx, h, NoSpec)) /\ UNCHANGED <<callSegs, pending>>
  <2>1. \A s : Shown(s) => Shown(s)'
    BY <1>15 DEF Shown
  <2>2. Evolves
    BY <2>1, <1>0, <1>13, <1>15 DEF Evolves
  <2>3. Runs("driver", f.tx, h, p)'
    BY <1>9, <1>11, <1>13, <1>14, <1>15 DEF Runs, Number, Shielded
  <2>4. FramesRight' /\ callStack' \in Seq(CallFrameType) /\ running' \in Nat
    <3>1. p = IF NoCall = NoCall THEN running ELSE NoCall
      BY <1>8
    <3>2. NoCall \in Nat /\ NoCall <= Len(callSegs)' /\ callSegs' \in Seq(CallSegType) /\ over' = over
      BY <1>0, <1>13, <1>15 DEF NoCall
    <3> QED
      BY <3>1, <3>2, <2>2, <2>3, <1>5, <1>7, <1>11, <1>14, <1>15, PushStays
  <2>5. \A s \in 1 .. Len(callSegs') : SegIsRight(s)'
    BY <1>13, <1>15 DEF CallInv, SegIsRight
  <2>6. \A w \in pending' : WaitIsRight(w)'
    BY <1>0, <1>15, <2>2, WaitsStay
  <2> QED
    BY <2>4, <2>5, <2>6, <1>13, <1>15, AllRight DEF CallInv, CallShape
<1>16. CASE \* Recorded under a segment of its own.
          /\ ~SharesParent(spec, p)
          /\ callSegs' = Append(callSegs, Seg(callSegs[p].tx, "call", spec, h))
          /\ pending' = pending \cup {Waiting(b.kind, b.seg, f.by, f.tx, IF f.by = "app" THEN NoCall ELSE h, NoCall) :
                                         b \in Bound(spec, Len(callSegs) + 1, TRUE)}
          /\ Push(Len(callSegs) + 1, Code("driver", f.tx, IF spec.opaque THEN Len(callSegs) + 1 ELSE h, spec))
  <2>1. ~Shielded(h) /\ h \in {NoCall} \cup revealed
    BY <1>11, <1>16 DEF SharesParent
  <2>2. PICK e : e = Seg(callSegs[p].tx, "call", spec, h)
    OBVIOUS
  <2>3. e \in CallSegType /\ e.hid = h /\ e.kind = "call" /\ e.tx = callSegs[p].tx /\ e.opaque = spec.opaque
    <3>1. PICK x : x = callSegs[p].tx
      OBVIOUS
    <3>2. PICK l : l = Library(spec)
      OBVIOUS
    <3>3. l \in {"other", "datastore"}
      BY <3>2 DEF Library
    <3>4. x \in Clients
      <4>1. callSegs[p] \in CallSegType
        BY <1>0, <1>9
      <4> QED
        BY <3>1, <4>1 DEF CallSegType
    <3>5. e = [tx |-> x, kind |-> "call", opaque |-> spec.opaque, internal |-> spec.internal, shim |-> l, hid |-> h]
      BY <2>2, <3>1, <3>2 DEF Seg, NoCall
    <3>6. spec.opaque \in BOOLEAN /\ spec.internal \in BOOLEAN
      BY <1>7 DEF SpecType
    <3> QED
      BY <3>1, <3>3, <3>4, <3>5, <3>6, <1>11 DEF CallSegType
  <2>4. PICK segs : segs = Append(callSegs, e)
    OBVIOUS
  <2>5. PICK seg : seg = Len(callSegs) + 1
    OBVIOUS
  <2>6. /\ segs \in Seq(CallSegType) /\ Len(segs) = seg /\ segs[seg] = e /\ seg \in Nat /\ seg # NoCall
        /\ seg \in 1 .. Len(segs)
        /\ \A s \in 1 .. Len(callSegs) : segs[s] = callSegs[s]
    BY <2>3, <2>4, <2>5, <1>0 DEF NoCall
  <2>7. Grown(segs)
    BY <2>1, <2>3, <2>5, <2>6, <1>0 DEF Grown
  <2>8. \A s : Shown(s) => Shown(s)'
    BY <1>16 DEF Shown
  <2>9. callSegs' = segs
    BY <2>2, <2>4, <1>16
  <2>10. Evolves /\ (\A s \in 1 .. Len(callSegs') : SegIsRight(s)')
    BY <2>7, <2>8, <2>9, <1>13, GrownEvolves
  <2>11. MakesWait(spec, seg, TRUE, f, h)
    <3>1. (IF f.by = "app" THEN NoCall ELSE h) = h
      BY <1>11
    <3> QED
      BY <3>1, <2>5, <1>16 DEF MakesWait
  <2>12. pending' \subseteq WaitType /\ \A w \in pending' : WaitIsRight(w)'
    <3>1. ~Shielded(h)' /\ h \in Nat /\ TRUE \in BOOLEAN /\ (f.by = "app" => h = NoCall)
      BY <2>1, <1>11, <1>13 DEF Shielded
    <3>2. f.by = "app" /\ f.tx \notin over' => callSegs'[seg].tx = f.tx
      BY <2>3, <2>6, <2>9, <1>12, <1>13
    <3>3. seg \in 1 .. Len(callSegs') /\ callSegs' \in Seq(CallSegType)
      BY <2>6, <2>9
    <3> QED
      BY <3>1, <3>2, <3>3, <2>10, <2>11, <1>4, <1>7, CallWaits
  <2>13. PICK inside : inside = (IF spec.opaque THEN seg ELSE h)
    OBVIOUS
  <2>14. inside \in Nat
    BY <2>6, <2>13, <1>11
  <2>15. Push(seg, Code("driver", f.tx, inside, spec))
    BY <2>5, <2>13, <1>16
  <2>16. Runs("driver", f.tx, inside, seg)'
    <3>1. Number(seg)'
      BY <2>6, <2>9 DEF Number
    <3>2. Shielded(inside)' => seg = inside /\ callSegs'[seg].opaque
      BY <2>1, <2>3, <2>6, <2>9, <2>13, <1>13 DEF Shielded
    <3> QED
      BY <3>1, <3>2, <1>14 DEF Runs
  <2>17. FramesRight' /\ callStack' \in Seq(CallFrameType) /\ running' \in Nat
    <3>1. seg = IF seg = NoCall THEN running ELSE seg
      BY <2>6
    <3>2. seg <= Len(callSegs)' /\ callSegs' \in Seq(CallSegType) /\ over' = over
      BY <2>6, <2>9, <1>13
    <3> QED
      BY <3>1, <3>2, <2>6, <2>10, <2>14, <2>15, <2>16, <1>5, <1>7, <1>14, PushStays
  <2> QED
    BY <2>6, <2>9, <2>10, <2>12, <2>17, <1>13, AllRight DEF CallInv, CallShape
<1>17. CASE \* Under the parent's.
          /\ callSegs' = callSegs
          /\ pending' = pending \cup {Waiting(b.kind, b.seg, f.by, f.tx, IF f.by = "app" THEN NoCall ELSE h, NoCall) :
                                         b \in Bound(spec, p, FALSE)}
          /\ Push(p, Code("driver", f.tx, h, spec))
  <2>1. \A s : Shown(s) => Shown(s)'
    BY <1>17 DEF Shown
  <2>2. Evolves
    BY <2>1, <1>0, <1>13, <1>17 DEF Evolves
  <2>3. PICK owner : owner = (IF f.by = "app" THEN NoCall ELSE h)
    OBVIOUS
  <2>4. owner = h
    BY <2>3, <1>11
  <2>5. Shielded(owner)' => p = owner /\ callSegs'[p].opaque
    BY <2>4, <1>11, <1>13, <1>17 DEF Shielded
  <2>6. pending' \subseteq WaitType /\ \A w \in pending' : WaitIsRight(w)'
    <3>1. MakesWait(spec, p, FALSE, f, owner)
      BY <2>3, <1>17 DEF MakesWait
    <3>2. f.by = "app" /\ f.tx \notin over' => callSegs'[p].tx = f.tx /\ (callSegs'[p].opaque => Shown(p)')
      BY <2>1, <1>12, <1>13, <1>17
    <3>3. p \in 1 .. Len(callSegs') /\ callSegs' \in Seq(CallSegType) /\ owner \in Nat /\ FALSE \in BOOLEAN
      BY <2>4, <1>0, <1>9, <1>11, <1>17
    <3>4. f.by = "app" => owner = NoCall
      BY <2>3
    <3> QED
      BY <3>1, <3>2, <3>3, <3>4, <2>2, <2>5, <1>4, <1>7, CallWaits
  <2>7. Runs("driver", f.tx, h, p)'
    BY <2>4, <2>5, <1>9, <1>14, <1>17 DEF Runs, Number
  <2>8. FramesRight' /\ callStack' \in Seq(CallFrameType) /\ running' \in Nat
    <3>1. p = IF p = NoCall THEN running ELSE p
      BY <1>9
    <3>2. p <= Len(callSegs)' /\ callSegs' \in Seq(CallSegType) /\ over' = over
      BY <1>0, <1>9, <1>13, <1>17
    <3> QED
      BY <3>1, <3>2, <2>2, <2>7, <1>5, <1>7, <1>9, <1>11, <1>14, <1>17, PushStays
  <2>9. \A s \in 1 .. Len(callSegs') : SegIsRight(s)'
    BY <1>13, <1>17 DEF CallInv, SegIsRight
  <2> QED
    BY <2>6, <2>8, <2>9, <1>0, <1>13, <1>17, AllRight DEF CallInv, CallShape
<1>18. \/ Push(NoCall, Code("driver", f.tx, h, NoSpec)) /\ UNCHANGED <<callSegs, pending>>
       \/ /\ ~SharesParent(spec, p)
          /\ callSegs' = Append(callSegs, Seg(callSegs[p].tx, "call", spec, h))
          /\ pending' = pending \cup {Waiting(b.kind, b.seg, f.by, f.tx, IF f.by = "app" THEN NoCall ELSE h, NoCall) :
                                         b \in Bound(spec, Len(callSegs) + 1, TRUE)}
          /\ Push(Len(callSegs) + 1, Code("driver", f.tx, IF spec.opaque THEN Len(callSegs) + 1 ELSE h, spec))
       \/ /\ callSegs' = callSegs
          /\ pending' = pending \cup {Waiting(b.kind, b.seg, f.by, f.tx, IF f.by = "app" THEN NoCall ELSE h, NoCall) :
                                         b \in Bound(spec, p, FALSE)}
          /\ Push(p, Code("driver", f.tx, h, spec))
  BY <1>3, <1>6, <1>9, <1>10, Zenon DEF Call
<1> QED
  BY <1>15, <1>16, <1>17, <1>18

\* Frames and what waits stay right through every step.
LEMMA CallInvHolds == CallsSpec => []CallInv
<1>1. CallInit => CallInv
  <2> SUFFICES ASSUME CallInit PROVE CallInv
    OBVIOUS
  <2>1. callSegs = [client \in 1 .. ClientCount |-> Seg(client, "root", NoSpec, NoCall)] /\ ClientCount \in Nat
    BY CallAssumption DEF CallInit, Clients
  <2>2. ASSUME NEW client \in 1 .. ClientCount
        PROVE  /\ Seg(client, "root", NoSpec, NoCall) \in CallSegType
               /\ Seg(client, "root", NoSpec, NoCall).hid = NoCall /\ ~Seg(client, "root", NoSpec, NoCall).opaque
    BY DEF Seg, NoSpec, NoCall, Library, CallSegType, Clients
  <2>3. callSegs \in [1 .. ClientCount -> CallSegType]
    BY <2>1, <2>2
  <2>4. callSegs \in Seq(CallSegType) /\ Len(callSegs) = ClientCount
    BY <2>1, <2>3
  <2>5. \A s \in 1 .. Len(callSegs) : SegIsRight(s)
    BY <2>1, <2>2, <2>4 DEF SegIsRight
  <2>6. CallShape
    BY <2>4 DEF CallInit, CallShape, NoCall
  <2>7. Len(callStack) = 0 /\ Number(running)
    BY <2>1, <2>4 DEF CallInit, Number, NoCall
  <2> QED
    BY <2>5, <2>6, <2>7 DEF CallInit, CallInv
<1>2. CallInv /\ [CallNext]_callVars => CallInv'
  <2> SUFFICES ASSUME CallInv, [CallNext]_callVars PROVE CallInv'
    OBVIOUS
  <2>1. CASE UNCHANGED callVars
    <3>1. UNCHANGED <<callSegs, running, callStack, pending, over, answered, revealed>>
      BY <2>1 DEF callVars
    <3>2. CallShape' /\ \A s : Shown(s) => Shown(s)'
      BY <3>1 DEF CallInv, CallShape, Shown
    <3>3. Evolves
      BY <3>1, <3>2 DEF Evolves, CallInv, CallShape
    <3>4. FramesRight'
      BY <3>1, <3>2, <3>3, CallFramesStay DEF CallShape
    <3>5. \A s \in 1 .. Len(callSegs') : SegIsRight(s)'
      BY <3>1 DEF CallInv, SegIsRight
    <3>6. \A w \in pending' : WaitIsRight(w)'
      BY <3>1, <3>2, <3>3, WaitsStay DEF CallShape
    <3> QED
      BY <3>2, <3>4, <3>5, <3>6, AllRight DEF CallShape
  <2>2. ASSUME NEW client \in Clients, AppRuns(client) PROVE CallInv'
    BY <2>2, AppRunsStays
  <2>3. ASSUME NEW client \in Callers, Finishes(client) PROVE CallInv'
    BY <2>3, FinishesStays, CallAssumption
  <2>4. ASSUME NEW spec \in CallSpecs, Call(spec) PROVE CallInv'
    BY <2>4, CallStays
  <2>5. ASSUME NEW t \in pending,
               CallBack(t) \/ BoundBack(t) \/ Row(t) \/ Settles(t) \/ StreamEvent(t) \/ StreamEnds(t) \/ ListenerHears(t)
        PROVE  CallInv'
    BY <2>5, CallBackStays, BoundBackStays, RowStays, StreamEventStays, StreamEndsStays, ListenerHearsStays,
       SettlesStays
  <2> QED
    BY <2>1, <2>2, <2>3, <2>4, <2>5, ReturnedStays DEF CallNext
<1> QED
  BY <1>1, <1>2, PTL DEF CallsSpec

\* For any transactions, descriptions of calls and depth of the stack: the application's code
\* runs in its own transaction and is seen, what a driver does to serve an opaque call is not
\* recorded until the call is answered, but for what a nested call's promise or the listeners of
\* its stream reveal, and no segment is left when no code runs.
THEOREM CallsAreCorrect == CallsSpec => []CallsCorrect
<1>1. CallInv => CallsCorrect
  <2> SUFFICES ASSUME CallInv PROVE CallsCorrect
    OBVIOUS
  <2>0. callSegs \in Seq(CallSegType) /\ callStack \in Seq(CallFrameType) /\ Number(running)
    BY DEF CallInv, CallShape
  <2>1. CallTypeOK
    <3>1. ASSUME NEW s \in DOMAIN callSegs
          PROVE  callSegs[s].tx \in Clients /\ callSegs[s].opaque \in BOOLEAN
      <4>1. PICK r \in CallSegType : r = callSegs[s]
        BY <2>0
      <4> QED
        BY <4>1 DEF CallSegType
    <3>2. ASSUME NEW i \in DOMAIN callStack
          PROVE  callStack[i].by \in Codes /\ callStack[i].tx \in Clients
      <4>1. PICK f \in CallFrameType : f = callStack[i]
        BY <2>0
      <4> QED
        BY <4>1 DEF CallFrameType
    <3>3. \A t \in pending : t.kind \in {"callback", "bound", "row", "settle", "boundSettle", "stream", "boundStream"}
      BY DEF CallInv, CallShape, WaitType
    <3>4. running \in {NoCall} \cup DOMAIN callSegs
      BY <2>0 DEF Number, NoCall
    <3> QED
      BY <3>1, <3>2, <3>3, <3>4 DEF CallTypeOK
  <2>2. ASSUME callStack # <<>>
        PROVE  FrameIsRight(Top, running)
    <3>1. PICK n : n = Len(callStack)
      OBVIOUS
    <3>2. n \in 1 .. Len(callStack)
      BY <2>0, <2>2, <3>1
    <3>3. FrameIsRight(callStack[n], Under(n))
      BY <3>2 DEF CallInv
    <3> QED
      BY <3>1, <3>3 DEF FrameIsRight, Under, Top
  <2>3. CallbacksComeHome /\ AppCodeIsSeen
    BY <2>2 DEF CallbacksComeHome, AppCodeIsSeen, FrameIsRight, Shown
  <2>4. DriversStayHidden
    BY <2>0 DEF DriversStayHidden, CallInv, SegIsRight
  <2>5. NothingLeftSet
    BY DEF NothingLeftSet, CallInv
  <2> QED
    BY <2>1, <2>3, <2>4, <2>5 DEF CallsCorrect
<1> QED
  BY <1>1, CallInvHolds, PTL

-----------------------------------------------------------------------------
(***************************************************************************)
(* Web requests.  While nothing has failed and nobody has answered, the    *)
(* path of the name is that of the middlewares the request is in; from the *)
(* answer on it is frozen, and whatever the cache holds is the answer's.   *)
(* The stack of segments is that of the same middlewares, but for a last   *)
(* one without next(), whose segment is never pushed.                      *)
(***************************************************************************)
\* One element more of a joined path.
JoinStep(joined, p) == IF p = "" THEN joined ELSE Append(joined, p)

\* A sequence with one element more.
IsAppended(a, j, p, l) == a = Append(j, p) /\ Len(a) = l + 1 /\ a[l + 1] = p /\ \A i \in 1..l : a[i] = j[i]

\* What Append makes.
LEMMA OneMore ==
    ASSUME NEW S, NEW j \in Seq(S), NEW p \in S, NEW l \in Nat, l = Len(j)
    PROVE  \E a \in Seq(S) : IsAppended(a, j, p, l)
<1>1. PICK a \in Seq(S) : a = Append(j, p)
  BY AppendProperties
<1>2. Len(a) = l + 1
  BY <1>1, AppendProperties
<1>3. a[l + 1] = p
  BY <1>1, AppendProperties
<1>4. \A i \in 1..l : a[i] = j[i]
  BY <1>1, AppendProperties
<1> QED BY <1>1, <1>2, <1>3, <1>4 DEF IsAppended

\* The joined path, one element of the stack after the other.
LEMMA JoinedIs ==
    ASSUME NEW path \in Seq(STRING), NEW n \in Nat, n = Len(path)
    PROVE  \E m \in [0..n -> Seq(STRING)] : /\ m[0] = <<>> /\ Joined(path) = m[n]
                                            /\ \A k \in 1..n : m[k] = JoinStep(m[k - 1], path[k])
<1>1. \A k \in 1..n : path[k] \in STRING
  BY ElementOfSeq
<1>2. ASSUME NEW x \in Seq(STRING), NEW k \in 1..n PROVE JoinStep(x, path[k]) \in Seq(STRING)
  BY <1>1, AppendProperties DEF JoinStep
<1>3. PICK F : F = [p \in Seq(STRING) \X (1..n) |-> JoinStep(p[1], path[p[2]])]
  OBVIOUS
<1>4. F \in [Seq(STRING) \X (1..n) -> Seq(STRING)] /\ <<>> \in Seq(STRING)
  BY <1>2, <1>3
<1>5. RunsOf(Seq(STRING), n, F, <<>>) # {}
  BY <1>4, Repeated
<1>6. PICK g \in [0..n -> Seq(STRING)] : g[0] = <<>> /\ \A k \in 1..n : g[k] = F[<<g[k - 1], k>>]
  BY <1>5 DEF RunsOf
<1>7. ASSUME NEW k \in 1..n PROVE g[k] = JoinStep(g[k - 1], path[k])
  <2> k - 1 \in 0..n
    OBVIOUS
  <2>1. <<g[k - 1], k>> \in Seq(STRING) \X (1..n)
    BY <1>6, Zenon
  <2> QED BY <2>1, <1>3, <1>6
<1> DEFINE next(m, k) == IF k = 0 THEN <<>> ELSE IF path[k] = "" THEN m[k - 1] ELSE Append(m[k - 1], path[k])
<1>8. g = [k \in 0..Len(path) |-> next(g, k)]
  <2>1. PICK h : h = [k \in 0..n |-> next(g, k)]
    OBVIOUS
  <2>2. ASSUME NEW k \in 0..n PROVE g[k] = next(g, k)
    <3>1. CASE k = 0
      BY <3>1, <1>6
    <3>2. CASE k # 0
      <4>1. k \in 1..n
        BY <3>2
      <4>2. g[k] = JoinStep(g[k - 1], path[k])
        BY <4>1, <1>7
      <4> QED BY <4>2, <3>2, Zenon DEF JoinStep
    <3> QED BY <3>1, <3>2
  <2> HIDE DEF next
  <2>3. g = h
    BY <2>1, <2>2, <1>6
  <2> QED BY <2>1, <2>3
<1>9. PICK m : m = CHOOSE mm : mm = [k \in 0..Len(path) |-> next(mm, k)]
  OBVIOUS
<1>10. m = [k \in 0..Len(path) |-> next(m, k)]
  <2> HIDE DEF next
  <2> QED BY <1>8, <1>9
<1>11. Joined(path) = m[n]
  BY <1>9, Zenon DEF Joined
<1>12. m[0] = <<>> /\ \A k \in 1..n : m[k] = JoinStep(m[k - 1], path[k])
  <2>1. 0 \in 0..n /\ \A k \in 1..n : k \in 0..n /\ k # 0
    OBVIOUS
  <2>2. \A k \in 0..n : m[k] = next(m, k)
    <3> HIDE DEF next
    <3> QED BY <1>10
  <2> QED BY <2>1, <2>2, Zenon DEF JoinStep
<1> HIDE DEF next
<1>13. PICK J : J = {k \in 0..n : m[k] \in Seq(STRING)}
  OBVIOUS
<1>14. Climbs(J, n)
  <2>1. 0 \in J
    <3>1. PICK z \in Seq(STRING) : z = <<>>
      BY <1>4
    <3>2. m[0] \in Seq(STRING) /\ 0 \in 0..n
      BY <1>12, <3>1
    <3> QED BY <3>2, <1>13
  <2>2. ASSUME NEW k \in 1..n, k - 1 \in J PROVE k \in J
    BY <2>2, <1>2, <1>12, <1>13
  <2> QED BY <2>1, <2>2 DEF Climbs
<1>15. ASSUME NEW k \in 0..n PROVE m[k] \in Seq(STRING)
  <2>1. Climbs(J, k)
    BY <1>14 DEF Climbs
  <2> QED BY <2>1, <1>13, StepByStep
<1>16. m \in [0..n -> Seq(STRING)]
  <2>1. DOMAIN m = 0..n
    <3> HIDE DEF next
    <3> QED BY <1>10
  <2>2. m = [k \in 0..n |-> m[k]]
    BY <1>10, <2>1
  <2> QED BY <2>2, <1>15
<1> QED BY <1>11, <1>12, <1>16

Unblank(seq) == \A i \in 1..Len(seq) : seq[i] # ""

LEMMA UnblankSteps ==
    /\ <<>> \in Seq(STRING) /\ Unblank(<<>>)
    /\ \A j \in Seq(STRING), p \in STRING : Unblank(j) => JoinStep(j, p) \in Seq(STRING) /\ Unblank(JoinStep(j, p))
<1>1. <<>> \in Seq(STRING) /\ Unblank(<<>>)
  BY DEF Unblank
<1>2. ASSUME NEW j \in Seq(STRING), NEW p \in STRING, Unblank(j)
      PROVE  JoinStep(j, p) \in Seq(STRING) /\ Unblank(JoinStep(j, p))
  <2>1. CASE p = ""
    BY <1>2, <2>1 DEF JoinStep
  <2>2. CASE p # ""
    <3>1. PICK a \in Seq(STRING) : a = Append(j, p)
      BY AppendProperties
    <3>2. PICK l \in Nat : l = Len(j)
      BY LenProperties
    <3>3. Len(a) = l + 1
      BY <3>1, <3>2, AppendProperties
    <3>4. a[l + 1] = p
      BY <3>1, <3>2, AppendProperties
    <3>5. \A i \in 1..l : a[i] = j[i]
      BY <3>1, <3>2, AppendProperties
    <3>6. \A i \in 1..l : j[i] # ""
      BY <1>2, <3>2 DEF Unblank
    <3>7. ASSUME NEW i \in 1..(l + 1) PROVE a[i] # ""
      <4>1. CASE i \in 1..l
        BY <4>1, <3>5, <3>6
      <4>2. CASE i = l + 1
        BY <4>2, <3>4, <2>2
      <4>3. i \in 1..l \/ i = l + 1
        OBVIOUS
      <4> QED BY <4>1, <4>2, <4>3
    <3>8. Unblank(a)
      BY <3>3, <3>7 DEF Unblank
    <3> QED BY <3>1, <3>8, <2>2 DEF JoinStep
  <2> QED BY <2>1, <2>2
<1> QED BY <1>1, <1>2

LEMMA JoinedTypes ==
    ASSUME NEW path \in Seq(STRING)
    PROVE  Joined(path) \in Seq(STRING) /\ Unblank(Joined(path)) /\ (path = <<>> => Joined(path) = <<>>)
<1>1. PICK n \in Nat : n = Len(path)
  BY LenProperties
<1>2. PICK m \in [0..n -> Seq(STRING)] : /\ m[0] = <<>> /\ Joined(path) = m[n]
                                         /\ \A k \in 1..n : m[k] = JoinStep(m[k - 1], path[k])
  BY <1>1, JoinedIs
<1>3. PICK J : J = {k \in 0..n : Unblank(m[k])}
  OBVIOUS
<1>4. 0 \in J
  <2>1. Unblank(m[0]) /\ 0 \in 0..n
    BY <1>2, UnblankSteps
  <2> QED BY <2>1, <1>3
<1>5. ASSUME NEW k \in 1..n, k - 1 \in J PROVE k \in J
  <2>1. PICK j \in Seq(STRING) : j = m[k - 1] /\ Unblank(j)
    BY <1>2, <1>3, <1>5
  <2>2. PICK p \in STRING : p = path[k]
    BY <1>1, ElementOfSeq
  <2>3. Unblank(JoinStep(j, p))
    BY <2>1, UnblankSteps
  <2> QED BY <1>2, <1>3, <2>1, <2>2, <2>3
<1>6. n \in J
  <2> Climbs(J, n)
    BY <1>4, <1>5 DEF Climbs
  <2> QED BY StepByStep
<1>7. path = <<>> => n = 0
  BY <1>1
<1>8. Unblank(Joined(path)) /\ Joined(path) \in Seq(STRING)
  BY <1>2, <1>3, <1>6
<1>9. path = <<>> => Joined(path) = <<>>
  BY <1>2, <1>7
<1> QED BY <1>8, <1>9

LEMMA JoinedAppended ==
    ASSUME NEW path \in Seq(STRING), NEW p \in STRING
    PROVE  Joined(Append(path, p)) = JoinStep(Joined(path), p)
<1>1. PICK n \in Nat : n = Len(path)
  BY LenProperties
<1>2. PICK next \in Seq(STRING) : next = Append(path, p) /\ Len(next) = n + 1 /\ next[n + 1] = p
                                 /\ \A k \in 1..n : next[k] = path[k]
  <2>1. PICK a \in Seq(STRING) : IsAppended(a, path, p, n)
    BY <1>1, OneMore
  <2> QED BY <2>1 DEF IsAppended
<1>3. PICK m \in [0..n -> Seq(STRING)] : /\ m[0] = <<>> /\ Joined(path) = m[n]
                                         /\ \A k \in 1..n : m[k] = JoinStep(m[k - 1], path[k])
  BY <1>1, JoinedIs
<1>4. n + 1 \in Nat
  OBVIOUS
<1>5. PICK o \in [0..(n + 1) -> Seq(STRING)] : /\ o[0] = <<>> /\ Joined(next) = o[n + 1]
                                               /\ \A k \in 1..(n + 1) : o[k] = JoinStep(o[k - 1], next[k])
  BY <1>2, <1>4, JoinedIs
<1>6. PICK J : J = {k \in 0..n : o[k] = m[k]}
  OBVIOUS
<1>7. 0 \in J
  BY <1>3, <1>5, <1>6
<1>8. ASSUME NEW k \in 1..n, k - 1 \in J PROVE k \in J
  <2>1. k \in 1..(n + 1) /\ k \in 0..n
    OBVIOUS
  <2>2. o[k] = JoinStep(o[k - 1], next[k]) /\ m[k] = JoinStep(m[k - 1], path[k]) /\ next[k] = path[k]
    BY <2>1, <1>2, <1>3, <1>5
  <2>3. o[k - 1] = m[k - 1]
    BY <1>6, <1>8
  <2> QED BY <2>1, <2>2, <2>3, <1>6
<1>9. n \in J
  <2> Climbs(J, n)
    BY <1>7, <1>8 DEF Climbs
  <2> QED BY StepByStep
<1>10. n + 1 \in 1..(n + 1) /\ (n + 1) - 1 = n
  OBVIOUS
<1>11. o[n + 1] = JoinStep(o[n], p)
  BY <1>2, <1>5, <1>10
<1> QED BY <1>2, <1>3, <1>5, <1>6, <1>9, <1>11

-----------------------------------------------------------------------------
Paths == Seq(STRING) \cup {NoPath}
NameStates == [path : Seq(STRING), marked : Seq(STRING), cache : Paths, frozen : BOOLEAN]

LEMMA NoPathIs == Unblank(NoPath) /\ NoPath # <<>>
<1>1. PICK w : w = "none"
  OBVIOUS
<1>2. Len(<<w>>) = 1 /\ <<w>>[1] = w /\ <<w>> # <<>>
  OBVIOUS
<1>3. w # ""
  BY <1>1
<1>4. ASSUME NEW i \in 1..Len(<<w>>) PROVE <<w>>[i] # ""
  <2>1. i = 1
    BY <1>2
  <2> QED BY <2>1, <1>2, <1>3, Zenon
<1>5. Unblank(<<w>>)
  BY <1>4, Zenon DEF Unblank
<1> QED BY <1>1, <1>2, <1>5, Zenon DEF NoPath

LEMMA GetPathIs ==
    ASSUME NEW ns \in NameStates
    PROVE  /\ GetPath(ns) \in Paths
           /\ ns.cache # NoPath => GetPath(ns) = ns.cache
           /\ ns.cache = NoPath /\ ns.path # <<>> => GetPath(ns) = Joined(ns.path)
           /\ ns.cache = NoPath /\ ns.path = <<>> /\ ns.marked = <<>> => GetPath(ns) = NoPath
           /\ Unblank(ns.cache) => Unblank(GetPath(ns))
<1>1. PICK p \in Seq(STRING), q \in Seq(STRING), c \in Paths : ns.path = p /\ ns.marked = q /\ ns.cache = c
  BY DEF NameStates
<1>2. NamePath(ns) = IF p = <<>> THEN q ELSE p
  BY <1>1 DEF NamePath
<1>3. PICK r \in Seq(STRING) : r = NamePath(ns)
  BY <1>2
<1>4. GetPath(ns) = IF c # NoPath THEN c ELSE IF r = <<>> THEN NoPath ELSE Joined(r)
  BY <1>1, <1>3, Zenon DEF GetPath
<1>5. Joined(r) \in Paths /\ Unblank(Joined(r))
  BY JoinedTypes DEF Paths
<1>6. NoPath \in Paths /\ Unblank(NoPath)
  BY NoPathIs DEF Paths
<1>7. CASE c # NoPath
  BY <1>1, <1>4, <1>7
<1>8. CASE c = NoPath
  <2>1. CASE r = <<>>
    BY <1>1, <1>2, <1>3, <1>4, <1>6, <1>8, <2>1
  <2>2. CASE r # <<>>
    BY <1>1, <1>2, <1>3, <1>4, <1>5, <1>8, <2>2
  <2> QED BY <2>1, <2>2
<1> QED BY <1>7, <1>8

LEMMA CachedIs ==
    ASSUME NEW ns \in NameStates
    PROVE  \E c \in NameStates : /\ c = Cached(ns) /\ c.path = ns.path /\ c.marked = ns.marked /\ c.frozen = ns.frozen
                                 /\ c.cache = GetPath(ns)
<1>1. PICK g \in Paths : g = GetPath(ns)
  BY GetPathIs
<1>2. PICK c : c = [ns EXCEPT !.cache = g]
  OBVIOUS
<1>3. c \in NameStates
  BY <1>2 DEF NameStates
<1>4. c.path = ns.path /\ c.marked = ns.marked /\ c.frozen = ns.frozen /\ c.cache = g
  BY <1>2 DEF NameStates
<1>5. c = Cached(ns)
  BY <1>1, <1>2, Zenon DEF Cached
<1> QED BY <1>1, <1>3, <1>4, <1>5

LEMMA AppendPathIs ==
    ASSUME NEW ns \in NameStates, NEW p \in STRING
    PROVE  \E a \in NameStates : /\ a = AppendPath(ns, p) /\ a.marked = ns.marked /\ a.frozen = ns.frozen
                                 /\ ns.frozen => a = ns
                                 /\ ~ns.frozen => /\ a.path = Append(ns.path, p)
                                                  /\ a.cache = IF p = "" THEN ns.cache ELSE NoPath
<1>1. CASE ns.frozen
  BY <1>1, Zenon DEF AppendPath
<1>2. CASE ~ns.frozen
  <2>1. PICK c \in Paths : c = IF p = "" THEN ns.cache ELSE NoPath
    <3>1. ns.cache \in Paths /\ NoPath \in Paths
      BY DEF NameStates, Paths
    <3> QED BY <3>1, Zenon
  <2>2. PICK q \in Seq(STRING) : q = Append(ns.path, p)
    BY AppendProperties DEF NameStates
  <2>3. PICK a : a = [[ns EXCEPT !.path = q] EXCEPT !.cache = c]
    OBVIOUS
  <2>4. a \in NameStates
    BY <2>3 DEF NameStates
  <2>5. a.path = q /\ a.cache = c /\ a.marked = ns.marked /\ a.frozen = ns.frozen
    BY <2>3 DEF NameStates
  <2>6. a = AppendPath(ns, p)
    <3>1. a = [ns EXCEPT !.path = Append(ns.path, p), !.cache = IF p = "" THEN ns.cache ELSE NoPath]
      BY <2>1, <2>2, <2>3
    <3>2. ([ns EXCEPT !.path = Append(ns.path, p)]).cache = ns.cache
      BY DEF NameStates
    <3> QED BY <3>1, <3>2, <1>2, Zenon DEF AppendPath
  <2> QED BY <1>2, <2>1, <2>2, <2>4, <2>5, <2>6, Zenon
<1> QED BY <1>1, <1>2

LEMMA PopPathIs ==
    ASSUME NEW ns \in NameStates, NEW p \in STRING
    PROVE  \E a \in NameStates :
             /\ a = PopPath(ns, p) /\ a.marked = ns.marked /\ a.frozen = ns.frozen
             /\ ns.frozen \/ ns.path = <<>> => a = ns
             /\ ~(ns.frozen \/ ns.path = <<>>) => a.cache = NoPath
             /\ ~ns.frozen /\ ns.path # <<>> /\ ns.path[Len(ns.path)] = p => a.path = SubSeq(ns.path, 1, Len(ns.path) - 1)
<1>1. CASE ns.frozen \/ ns.path = <<>>
  <2>1. PopPath(ns, p) = ns
    BY <1>1, Zenon DEF PopPath
  <2> QED BY <1>1, <2>1, Zenon
<1>2. CASE ~(ns.frozen \/ ns.path = <<>>)
  <2>1. PICK s \in Seq(STRING), l \in Nat : s = ns.path /\ l = Len(s) /\ s # <<>>
    BY <1>2, LenProperties DEF NameStates
  <2>2. PICK at : at = PlacesOf(p, s) /\ at = {i \in DOMAIN s : s[i] = p}
    BY DEF PlacesOf
  <2>3. at \subseteq 1..l
    BY <2>1, <2>2
  <2>4. PICK last : last = Latest(at) /\ last = CHOOSE i \in at : \A j \in at : j <= i
    BY DEF Latest
  <2>5. s[l] = p => at # {} /\ last = l
    <3> SUFFICES ASSUME s[l] = p PROVE at # {} /\ last = l
      OBVIOUS
    <3>1. l \in at
      <4>1. l # 0
        BY <2>1, EmptySeq
      <4> QED BY <2>1, <2>2, <4>1
    <3>2. \A j \in at : j <= l
      BY <2>3
    <3>3. last \in at /\ \A j \in at : j <= last
      BY <2>4, <3>1, <3>2
    <3>4. last = l
      BY <2>3, <3>1, <3>2, <3>3
    <3> QED BY <3>1, <3>4
  <2>6. at # {} => last \in 1..l
    <3> SUFFICES ASSUME at # {} PROVE last \in 1..l
      OBVIOUS
    <3>1. \E i \in at : \A j \in at : j <= i
      <4>1. PICK T : T = {l - i : i \in at}
        OBVIOUS
      <4>2. T \subseteq Nat /\ T # {}
        <5>1. \A i \in at : i \in Nat /\ l - i \in Nat
          BY <2>3
        <5> QED BY <5>1, <4>1
      <4>3. PICK k \in T : \A j \in T : k <= j
        BY <4>2, LeastElement
      <4>4. PICK i \in at : k = l - i
        BY <4>1
      <4>5. ASSUME NEW j \in at PROVE j <= i
        <5>1. l - j \in T
          BY <4>1
        <5> QED BY <5>1, <4>3, <4>4, <2>3
      <4> QED BY <4>5
    <3>2. last \in at
      BY <3>1, <2>4
    <3> QED BY <3>2, <2>3
  <2>7. PICK q \in Seq(STRING) : q = IF at = {} THEN s ELSE SubSeq(s, 1, last - 1)
    <3>1. CASE at = {}
      BY <3>1
    <3>2. CASE at # {}
      <4>1. last - 1 \in 0..l
        BY <3>2, <2>6
      <4>2. SubSeq(s, 1, last - 1) \in Seq(STRING)
        BY <4>1, <2>1, SubSeqProperties
      <4> QED BY <4>2, <3>2
    <3> QED BY <3>1, <3>2
  <2>8. PICK a : a = [[ns EXCEPT !.cache = NoPath] EXCEPT !.path = q]
    OBVIOUS
  <2>9. a \in NameStates
    <3>1. NoPath \in Paths
      BY DEF Paths
    <3> QED BY <2>8, <3>1 DEF NameStates
  <2>10. a.path = q /\ a.cache = NoPath /\ a.marked = ns.marked /\ a.frozen = ns.frozen
    BY <2>8 DEF NameStates
  <2>11. a = PopPath(ns, p)
    <3>1. ([ns EXCEPT !.cache = NoPath]).path = s
      BY <2>1 DEF NameStates
    <3>2. PopPath(ns, p) = [[ns EXCEPT !.cache = NoPath] EXCEPT !.path =
                IF at = {} THEN ([ns EXCEPT !.cache = NoPath]).path
                ELSE SubSeq(([ns EXCEPT !.cache = NoPath]).path, 1, last - 1)]
      <4>1. at = PlacesOf(p, ns.path)
        BY <2>1, <2>2
      <4>2. PopPath(ns, p) = [ns EXCEPT !.cache = NoPath, !.path = IF at = {} THEN @ ELSE SubSeq(@, 1, last - 1)]
        BY <1>2, <4>1, <2>4, Zenon DEF PopPath
      <4> QED BY <4>2, Zenon
    <3> QED BY <3>1, <3>2, <2>7, <2>8, Zenon
  <2>12. s[l] = p => q = SubSeq(s, 1, l - 1)
    BY <2>5, <2>7
  <2> QED BY <1>2, <2>1, <2>9, <2>10, <2>11, <2>12
<1> QED BY <1>1, <1>2

-----------------------------------------------------------------------------
\* The front and the last of a sequence that is not empty.
LEMMA FrontIs ==
    ASSUME NEW S, NEW s \in Seq(S), NEW l \in Nat, l = Len(s), s # <<>>
    PROVE  /\ l \in 1..l
           /\ Stacks!Front(s) \in Seq(S) /\ Len(Stacks!Front(s)) = l - 1 /\ Stacks!Last(s) = s[l] /\ s[l] \in S
           /\ Stacks!Front(s) = SubSeq(s, 1, l - 1)
           /\ \A i \in 1..(l - 1) : Stacks!Front(s)[i] = s[i]
<1>1. l # 0
  BY EmptySeq
<1>2. l \in 1..l /\ l - 1 \in 0..l
  BY <1>1
<1>3. Stacks!Last(s) = s[l] /\ s[l] \in S
  BY <1>2, ElementOfSeq DEF Stacks!Last
<1>4. Stacks!Front(s) = SubSeq(s, 1, l - 1)
  BY DEF Stacks!Front
<1>5. PICK f : f = SubSeq(s, 1, l - 1)
  OBVIOUS
<1>6. f \in Seq(S) /\ Len(f) = l - 1 /\ \A i \in 1..(l - 1) : f[i] = s[i]
  <2>1. f \in Seq(S)
    BY <1>2, <1>5, SubSeqProperties
  <2>2. Len(f) = l - 1
    BY <1>2, <1>5, SubSeqProperties
  <2>3. \A i \in 1..(l - 1) : f[i] = s[i]
    BY <1>2, <1>5, SubSeqProperties
  <2> QED BY <2>1, <2>2, <2>3
<1> QED BY <1>2, <1>3, <1>4, <1>5, <1>6

LEMMA RoutesAre ==
    /\ \A m \in Middlewares : RouteOf[m] \in STRING
    /\ \A m \in Middlewares : KindOf[m] \in {"callback", "noNext", "errorware", "promise"} /\ m \in Nat
    /\ Routers \subseteq Middlewares
<1>1. RouteOf \in Seq(STRING) /\ Middlewares = 1..Len(RouteOf)
  BY WebRequestAssumption DEF Middlewares
<1>2. \A m \in Middlewares : RouteOf[m] \in STRING
  BY <1>1, ElementOfSeq
<1>3. \A m \in Middlewares : KindOf[m] \in {"callback", "noNext", "errorware", "promise"} /\ m \in Nat
  BY <1>1, WebRequestAssumption, LenProperties
<1> QED BY <1>2, <1>3, WebRequestAssumption

LEMMA MountsAre ==
    ASSUME NEW fr \in Seq(Middlewares), NEW l \in Nat, l = Len(fr)
    PROVE  MountsOf(fr) \in Seq(STRING) /\ Len(MountsOf(fr)) = l /\ \A i \in 1..l : MountsOf(fr)[i] = RouteOf[fr[i]]
<1>1. \A i \in 1..l : fr[i] \in Middlewares
  BY ElementOfSeq
<1>2. \A m \in Middlewares : RouteOf[m] \in STRING
  BY RoutesAre
<1>3. PICK r : r = MountsOf(fr) /\ r = [i \in 1..l |-> RouteOf[fr[i]]]
  <2>1. DOMAIN fr = 1..l
    OBVIOUS
  <2> QED BY <2>1 DEF MountsOf
<1>4. \A i \in 1..l : r[i] = RouteOf[fr[i]] /\ r[i] \in STRING
  BY <1>1, <1>2, <1>3
<1>5. r \in Seq(STRING)
  BY <1>3, <1>4, IsASeq
<1>6. Len(r) = l
  BY <1>3
<1> QED BY <1>3, <1>4, <1>5, <1>6

LEMMA MountsAppended ==
    ASSUME NEW fr \in Seq(Middlewares), NEW m \in Middlewares
    PROVE  MountsOf(Append(fr, m)) = Append(MountsOf(fr), RouteOf[m]) /\ MountsOf(Append(fr, m)) # <<>>
<1>1. PICK l \in Nat : l = Len(fr)
  BY LenProperties
<1>2. PICK a \in Seq(Middlewares) : IsAppended(a, fr, m, l)
  BY <1>1, OneMore
<1>3. PICK r \in Seq(STRING) : r = MountsOf(fr) /\ Len(r) = l /\ \A i \in 1..l : r[i] = RouteOf[fr[i]]
  BY <1>1, MountsAre
<1>4. l + 1 \in Nat /\ Len(a) = l + 1
  BY <1>2 DEF IsAppended
<1>5. PICK q \in Seq(STRING) : q = MountsOf(a) /\ Len(q) = l + 1 /\ \A i \in 1..(l + 1) : q[i] = RouteOf[a[i]]
  BY <1>4, MountsAre
<1>6. RouteOf[m] \in STRING
  BY RoutesAre
<1>7. PICK b \in Seq(STRING) : IsAppended(b, r, RouteOf[m], l)
  BY <1>3, <1>6, OneMore
<1>8. Len(b) = l + 1 /\ b[l + 1] = RouteOf[m] /\ \A i \in 1..l : b[i] = r[i]
  BY <1>7 DEF IsAppended
<1>9. ASSUME NEW i \in 1..(l + 1) PROVE q[i] = b[i]
  <2>1. CASE i \in 1..l
    <3>1. a[i] = fr[i]
      BY <2>1, <1>2 DEF IsAppended
    <3>2. q[i] = RouteOf[a[i]]
      BY <1>5
    <3>3. b[i] = RouteOf[fr[i]]
      BY <2>1, <1>3, <1>8
    <3> QED BY <3>1, <3>2, <3>3
  <2>2. CASE i = l + 1
    BY <2>2, <1>2, <1>5, <1>8 DEF IsAppended
  <2>3. i \in 1..l \/ i = l + 1
    OBVIOUS
  <2> QED BY <2>1, <2>2, <2>3
<1>10. q = b
  BY <1>4, <1>5, <1>8, <1>9, SeqEqual
<1>11. q # <<>>
  BY <1>5, EmptySeq
<1> QED BY <1>2, <1>3, <1>5, <1>7, <1>10, <1>11 DEF IsAppended

LEMMA MountsWithout ==
    ASSUME NEW fr \in Seq(Middlewares), fr # <<>>
    PROVE  \E r \in Seq(STRING) : \E l \in Nat :
             /\ r = MountsOf(fr) /\ l = Len(r) /\ r # <<>>
             /\ r[l] = RouteOf[Stacks!Last(fr)] /\ MountsOf(Stacks!Front(fr)) = SubSeq(r, 1, l - 1)
<1>1. PICK l \in Nat : l = Len(fr)
  BY LenProperties
<1>2. PICK r \in Seq(STRING) : r = MountsOf(fr) /\ Len(r) = l /\ \A i \in 1..l : r[i] = RouteOf[fr[i]]
  BY <1>1, MountsAre
<1>3. PICK f \in Seq(Middlewares) : /\ l \in 1..l /\ f = Stacks!Front(fr) /\ Len(f) = l - 1 /\ Stacks!Last(fr) = fr[l]
                                    /\ \A i \in 1..(l - 1) : f[i] = fr[i]
  BY <1>1, FrontIs
<1>4. l - 1 \in Nat /\ r # <<>>
  BY <1>2, <1>3, EmptySeq
<1>5. PICK q \in Seq(STRING) : q = MountsOf(f) /\ Len(q) = l - 1 /\ \A i \in 1..(l - 1) : q[i] = RouteOf[f[i]]
  BY <1>3, <1>4, MountsAre
<1>6. PICK b \in Seq(STRING) : b = SubSeq(r, 1, l - 1) /\ Len(b) = l - 1 /\ \A i \in 1..(l - 1) : b[i] = r[i]
  <2>1. SubSeq(r, 1, l - 1) = Stacks!Front(r) /\ Stacks!Front(r) \in Seq(STRING) /\ Len(Stacks!Front(r)) = l - 1
    BY <1>2, <1>4, FrontIs
  <2>2. \A i \in 1..(l - 1) : Stacks!Front(r)[i] = r[i]
    BY <1>2, <1>4, FrontIs
  <2> QED BY <2>1, <2>2
<1>7. \A i \in 1..(l - 1) : q[i] = b[i]
  BY <1>2, <1>3, <1>5, <1>6
<1>8. q = b
  BY <1>4, <1>5, <1>6, <1>7, SeqEqual
<1> QED BY <1>2, <1>3, <1>4, <1>5, <1>6, <1>8

-----------------------------------------------------------------------------
\* A name state nothing has been marked in.
Unmarked(ns) == ns.marked = <<>> /\ (ns.cache # NoPath => ns.cache = Joined(ns.path))
\* One that follows the middlewares a request is in.
Follows(ns, fr) ==
    ~ns.frozen /\ ns.path = MountsOf(fr) /\ (ns.cache # NoPath => ns.path # <<>> /\ ns.cache = Joined(ns.path))
\* One that keeps the path of the response.
KeepsAnswer(ns, answer) ==
    ns.frozen /\ ns.path # <<>> /\ Joined(ns.path) = answer /\ (ns.cache # NoPath => ns.cache = answer)
NameState(ns) == ns \in NameStates /\ Unblank(ns.cache)

\* What keeps each of them.
Stays(ns, next) == /\ NameState(next)
                   /\ Unmarked(ns) => Unmarked(next)
                   /\ \A answer \in Paths : KeepsAnswer(ns, answer) => KeepsAnswer(next, answer)

LEMMA CachedStays ==
    ASSUME NEW ns, NameState(ns)
    PROVE  /\ Stays(ns, Cached(ns))
           /\ \A fr \in Seq(Middlewares) : Follows(ns, fr) /\ fr # <<>> => Follows(Cached(ns), fr)
<1> ns \in NameStates
  BY DEF NameState
<1>1. PICK c \in NameStates : /\ c = Cached(ns) /\ c.path = ns.path /\ c.marked = ns.marked /\ c.frozen = ns.frozen
                              /\ c.cache = GetPath(ns)
  BY CachedIs
<1>2. PICK g : g = GetPath(ns)
  OBVIOUS
<1>3. /\ ns.cache # NoPath => g = ns.cache
      /\ ns.cache = NoPath /\ ns.path # <<>> => g = Joined(ns.path)
      /\ ns.cache = NoPath /\ ns.path = <<>> /\ ns.marked = <<>> => g = NoPath
      /\ Unblank(ns.cache) => Unblank(g)
  BY <1>2, GetPathIs
<1>4. NameState(c)
  BY <1>1, <1>2, <1>3 DEF NameState
<1>5. Unmarked(ns) => Unmarked(c)
  BY <1>1, <1>2, <1>3, Zenon DEF Unmarked
<1>6. ASSUME NEW answer \in Paths, KeepsAnswer(ns, answer) PROVE KeepsAnswer(c, answer)
  BY <1>1, <1>2, <1>3, <1>6, Zenon DEF KeepsAnswer
<1>7. ASSUME NEW fr \in Seq(Middlewares), Follows(ns, fr), fr # <<>> PROVE Follows(c, fr)
  <2>1. MountsOf(fr) # <<>>
    <3>1. PICK r \in Seq(STRING) : \E l \in Nat : r = MountsOf(fr) /\ r # <<>>
      BY <1>7, MountsWithout
    <3> QED BY <3>1
  <2> QED BY <2>1, <1>1, <1>2, <1>3, <1>7, Zenon DEF Follows
<1> QED BY <1>1, <1>4, <1>5, <1>6, <1>7 DEF Stays

LEMMA AppendPathStays ==
    ASSUME NEW ns, NameState(ns), NEW m \in Middlewares
    PROVE  /\ Stays(ns, AppendPath(ns, RouteOf[m]))
           /\ \A fr \in Seq(Middlewares) : Follows(ns, fr) => Follows(AppendPath(ns, RouteOf[m]), Append(fr, m))
<1> ns \in NameStates
  BY DEF NameState
<1>1. PICK p \in STRING : p = RouteOf[m]
  BY RoutesAre, Zenon
<1>2. PICK a \in NameStates : /\ a = AppendPath(ns, p) /\ a.marked = ns.marked /\ a.frozen = ns.frozen
                              /\ ns.frozen => a = ns
                              /\ ~ns.frozen => /\ a.path = Append(ns.path, p)
                                               /\ a.cache = IF p = "" THEN ns.cache ELSE NoPath
  BY AppendPathIs
<1>3. PICK path \in Seq(STRING), b \in Seq(STRING) : path = ns.path /\ b = Append(path, p)
  BY AppendProperties DEF NameStates
<1>4. Joined(b) = JoinStep(Joined(path), p)
  BY <1>3, JoinedAppended
<1>5. p = "" => Joined(b) = Joined(path)
  BY <1>4 DEF JoinStep
<1>6. NameState(a)
  <2>1. CASE ns.frozen
    BY <1>2, <2>1
  <2>2. CASE ~ns.frozen
    <3>1. Unblank(ns.cache) /\ Unblank(NoPath)
      BY NoPathIs DEF NameState
    <3>2. a.cache = ns.cache \/ a.cache = NoPath
      BY <1>2, <2>2, Zenon
    <3>3. Unblank(a.cache)
      BY <3>1, <3>2, Zenon
    <3> QED BY <3>3 DEF NameState
  <2> QED BY <2>1, <2>2
<1>7. Unmarked(ns) => Unmarked(a)
  <2>1. CASE ns.frozen
    BY <1>2, <2>1
  <2>2. CASE ~ns.frozen
    <3>1. CASE p = ""
      BY <1>2, <1>3, <1>5, <2>2, <3>1, Zenon DEF Unmarked
    <3>2. CASE p # ""
      BY <1>2, <2>2, <3>2, Zenon DEF Unmarked
    <3> QED BY <3>1, <3>2
  <2> QED BY <2>1, <2>2
<1>8. ASSUME NEW answer \in Paths, KeepsAnswer(ns, answer) PROVE KeepsAnswer(a, answer)
  BY <1>2, <1>8 DEF KeepsAnswer
<1>9. ASSUME NEW fr \in Seq(Middlewares), Follows(ns, fr) PROVE Follows(a, Append(fr, m))
  <2>1. MountsOf(Append(fr, m)) = Append(MountsOf(fr), p) /\ MountsOf(Append(fr, m)) # <<>>
    BY <1>1, MountsAppended
  <2>2. ~ns.frozen /\ path = MountsOf(fr) /\ (ns.cache # NoPath => ns.cache = Joined(path))
    BY <1>3, <1>9 DEF Follows
  <2>3. ~a.frozen /\ a.path = b /\ b = MountsOf(Append(fr, m)) /\ b # <<>>
    BY <1>2, <1>3, <2>1, <2>2, Zenon
  <2>4. a.cache # NoPath => a.cache = Joined(b)
    <3>1. CASE p = ""
      BY <1>2, <1>5, <2>2, <3>1, Zenon
    <3>2. CASE p # ""
      BY <1>2, <2>2, <3>2, Zenon
    <3> QED BY <3>1, <3>2
  <2> QED BY <2>3, <2>4, Zenon DEF Follows
<1> QED BY <1>1, <1>2, <1>6, <1>7, <1>8, <1>9 DEF Stays

LEMMA PopPathStays ==
    ASSUME NEW ns, NameState(ns), NEW m \in Middlewares
    PROVE  /\ Stays(ns, PopPath(ns, RouteOf[m]))
           /\ \A fr \in Seq(Middlewares) : Follows(ns, fr) /\ fr # <<>> /\ Stacks!Last(fr) = m =>
                 Follows(PopPath(ns, RouteOf[m]), Stacks!Front(fr))
<1> ns \in NameStates
  BY DEF NameState
<1>1. PICK p \in STRING : p = RouteOf[m]
  BY RoutesAre, Zenon
<1>2. PICK a \in NameStates :
             /\ a = PopPath(ns, p) /\ a.marked = ns.marked /\ a.frozen = ns.frozen
             /\ ns.frozen \/ ns.path = <<>> => a = ns
             /\ ~(ns.frozen \/ ns.path = <<>>) => a.cache = NoPath
             /\ ~ns.frozen /\ ns.path # <<>> /\ ns.path[Len(ns.path)] = p => a.path = SubSeq(ns.path, 1, Len(ns.path) - 1)
  BY PopPathIs
<1>3. NameState(a)
  <2>1. CASE ns.frozen \/ ns.path = <<>>
    BY <1>2, <2>1
  <2>2. CASE ~(ns.frozen \/ ns.path = <<>>)
    BY <1>2, <2>2, NoPathIs DEF NameState
  <2> QED BY <2>1, <2>2
<1>4. Unmarked(ns) => Unmarked(a)
  <2>1. CASE ns.frozen \/ ns.path = <<>>
    BY <1>2, <2>1
  <2>2. CASE ~(ns.frozen \/ ns.path = <<>>)
    BY <1>2, <2>2 DEF Unmarked
  <2> QED BY <2>1, <2>2
<1>5. ASSUME NEW answer \in Paths, KeepsAnswer(ns, answer) PROVE KeepsAnswer(a, answer)
  BY <1>2, <1>5 DEF KeepsAnswer
<1>6. ASSUME NEW fr \in Seq(Middlewares), Follows(ns, fr), fr # <<>>, Stacks!Last(fr) = m
      PROVE  Follows(a, Stacks!Front(fr))
  <2>1. PICK r \in Seq(STRING), l \in Nat :
             /\ r = MountsOf(fr) /\ l = Len(r) /\ r # <<>>
             /\ r[l] = RouteOf[Stacks!Last(fr)] /\ MountsOf(Stacks!Front(fr)) = SubSeq(r, 1, l - 1)
    BY <1>6, MountsWithout
  <2>2. ~ns.frozen /\ ns.path = r
    BY <1>6, <2>1 DEF Follows
  <2>3. ~a.frozen /\ a.cache = NoPath /\ a.path = SubSeq(r, 1, l - 1)
    BY <1>1, <1>2, <1>6, <2>1, <2>2, Zenon
  <2> QED BY <2>1, <2>3 DEF Follows
<1> QED BY <1>1, <1>2, <1>3, <1>4, <1>5, <1>6 DEF Stays

LEMMA FrozenStays ==
    ASSUME NEW ns, NameState(ns)
    PROVE  /\ Stays(ns, Frozen(ns))
           /\ \A fr \in Seq(Middlewares) : Follows(ns, fr) /\ fr # <<>> => KeepsAnswer(Frozen(ns), Joined(MountsOf(fr)))
<1> ns \in NameStates
  BY DEF NameState
<1>1. PICK f : f = [ns EXCEPT !.frozen = TRUE]
  OBVIOUS
<1>2. f \in NameStates /\ f.path = ns.path /\ f.marked = ns.marked /\ f.cache = ns.cache /\ f.frozen
  BY <1>1 DEF NameStates
<1>3. f = Frozen(ns)
  BY <1>1 DEF Frozen
<1>4. NameState(f)
  BY <1>2 DEF NameState
<1>5. Unmarked(ns) => Unmarked(f)
  BY <1>2 DEF Unmarked
<1>6. ASSUME NEW answer \in Paths, KeepsAnswer(ns, answer) PROVE KeepsAnswer(f, answer)
  BY <1>2, <1>6 DEF KeepsAnswer
<1>7. ASSUME NEW fr \in Seq(Middlewares), Follows(ns, fr), fr # <<>> PROVE KeepsAnswer(f, Joined(MountsOf(fr)))
  <2>1. MountsOf(fr) # <<>>
    <3>1. PICK r \in Seq(STRING) : \E l \in Nat : r = MountsOf(fr) /\ r # <<>>
      BY <1>7, MountsWithout
    <3> QED BY <3>1
  <2> QED BY <2>1, <1>2, <1>7, Zenon DEF Follows, KeepsAnswer
<1> QED BY <1>3, <1>4, <1>5, <1>6, <1>7 DEF Stays

-----------------------------------------------------------------------------
Histories == [calm : BOOLEAN, orderly : BOOLEAN, late : BOOLEAN, gone : SUBSET Middlewares, marked : BOOLEAN, answered : Paths]
Infos == [stack : Seq(Middlewares \cup {Base}), error : BOOLEAN, handled : BOOLEAN]
WebTxs == [name : Paths, excepted : BOOLEAN, ends : Nat]
Waiters(e) == {m \in e : Kind(m, "promise")}
PlainRequest(e) == \A m \in e : ~Kind(m, "promise") /\ (Kind(m, "noNext") => m \notin Routers)

\* The stack of segments of the middlewares a request is in, all but a last one without next().
Stacked(stack, fr) ==
    \/ stack = <<Base>> \o fr
    \/ fr # <<>> /\ Kind(Stacks!Last(fr), "noNext") /\ stack = <<Base>> \o Stacks!Front(fr)

WebStates ==
    /\ entered \subseteq Middlewares /\ frames \in Seq(entered) /\ waiting \in Seq(Waiters(entered))
    /\ failing \in BOOLEAN /\ response \in {"open", "ended", "finished"}
    /\ NameState(nameState) /\ txInfo \in Infos /\ webTx \in WebTxs /\ webHistory \in Histories
CalmIs == webHistory.calm => ~failing /\ \A m \in entered : ~Kind(m, "errorware")
PathIs == webHistory.calm /\ response = "open" => Follows(nameState, frames)
MarkIs == ~webHistory.marked => Unmarked(nameState)
AnswerIs ==
    /\ response = "open" => webHistory.answered = NoPath
    /\ webHistory.calm /\ webHistory.answered # NoPath => KeepsAnswer(nameState, webHistory.answered)
    /\ NamedAfterResponder
SegmentsAre == webHistory.calm /\ PlainRequest(entered) => webHistory.orderly /\ Stacked(txInfo.stack, frames)

\* The inductive invariant.
WebInv == WebStates /\ CalmIs /\ PathIs /\ MarkIs /\ AnswerIs /\ SegmentsAre

-----------------------------------------------------------------------------
\* A history and the parts of it that are read.
IsHistory(n, calm, orderly, marked, answer) ==
    n \in Histories /\ n.calm = calm /\ n.orderly = orderly /\ n.marked = marked /\ n.answered = answer

LEMMA HistorySteps ==
    ASSUME NEW h \in Histories
    PROVE  /\ IsHistory(h, h.calm, h.orderly, h.marked, h.answered)
           /\ \A b \in BOOLEAN : IsHistory([h EXCEPT !.orderly = b], h.calm, b, h.marked, h.answered)
           /\ \A b \in BOOLEAN : IsHistory([h EXCEPT !.calm = b], b, h.orderly, h.marked, h.answered)
           /\ \A b \in BOOLEAN, late \in BOOLEAN, gone \in SUBSET Middlewares : IsHistory([h EXCEPT !.calm = b, !.late = late, !.gone = gone], b, h.orderly, h.marked, h.answered)
           /\ \A b \in BOOLEAN : IsHistory([h EXCEPT !.marked = b], h.calm, h.orderly, b, h.answered)
           /\ \A answer \in Paths : IsHistory([h EXCEPT !.answered = answer], h.calm, h.orderly, h.marked, answer)
<1>1. IsHistory(h, h.calm, h.orderly, h.marked, h.answered)
  BY DEF IsHistory
<1>2. ASSUME NEW b \in BOOLEAN
      PROVE  IsHistory([h EXCEPT !.orderly = b], h.calm, b, h.marked, h.answered)
  BY DEF IsHistory, Histories
<1>3. ASSUME NEW b \in BOOLEAN
      PROVE  IsHistory([h EXCEPT !.calm = b], b, h.orderly, h.marked, h.answered)
  BY DEF IsHistory, Histories
<1>4. ASSUME NEW b \in BOOLEAN, NEW late \in BOOLEAN, NEW gone \in SUBSET Middlewares
      PROVE  IsHistory([h EXCEPT !.calm = b, !.late = late, !.gone = gone], b, h.orderly, h.marked, h.answered)
  BY DEF IsHistory, Histories
<1>5. ASSUME NEW b \in BOOLEAN
      PROVE  IsHistory([h EXCEPT !.marked = b], h.calm, h.orderly, b, h.answered)
  BY DEF IsHistory, Histories
<1>6. ASSUME NEW answer \in Paths
      PROVE  IsHistory([h EXCEPT !.answered = answer], h.calm, h.orderly, h.marked, answer)
  BY DEF IsHistory, Histories
<1> QED BY <1>1, <1>2, <1>3, <1>4, <1>5, <1>6

IsInfo(n, stack) == n \in Infos /\ n.stack = stack

LEMMA InfoSteps ==
    ASSUME NEW i \in Infos, NEW st \in Seq(Middlewares \cup {Base}), NEW b \in BOOLEAN
    PROVE  /\ IsInfo([i EXCEPT !.handled = b, !.stack = st], st)
           /\ IsInfo([i EXCEPT !.stack = st], st)
           /\ IsInfo([NoticedError(i) EXCEPT !.stack = st], st)
           /\ IsInfo([[i EXCEPT !.handled = TRUE] EXCEPT !.stack = st], st)
           /\ NoticedError(i).stack = i.stack
           /\ [i EXCEPT !.handled = TRUE].stack = i.stack
<1>1. IsInfo([i EXCEPT !.handled = b, !.stack = st], st)
  BY DEF IsInfo, Infos
<1>2. IsInfo([i EXCEPT !.stack = st], st)
  BY DEF IsInfo, Infos
<1>3. PICK e : e = [i EXCEPT !.error = TRUE]
  OBVIOUS
<1>4. e \in Infos /\ e.stack = i.stack
  BY <1>3 DEF Infos
<1>5. PICK n : n = [e EXCEPT !.handled = FALSE]
  OBVIOUS
<1>6. n \in Infos /\ n.stack = i.stack
  BY <1>4, <1>5 DEF Infos
<1>7. NoticedError(i) = n
  BY <1>3, <1>5, Zenon DEF NoticedError
<1>8. IsInfo([n EXCEPT !.stack = st], st)
  BY <1>6 DEF IsInfo, Infos
<1>9. PICK t : t = [i EXCEPT !.handled = TRUE]
  OBVIOUS
<1>10. t \in Infos /\ t.stack = i.stack
  BY <1>9 DEF Infos
<1>11. IsInfo([t EXCEPT !.stack = st], st)
  BY <1>10 DEF IsInfo, Infos
<1> QED BY <1>1, <1>2, <1>6, <1>7, <1>8, <1>9, <1>10, <1>11

LEMMA PopSegmentIs ==
    ASSUME NEW st \in Seq(Middlewares \cup {Base})
    PROVE  PopSegment(st) \in Seq(Middlewares \cup {Base})
<1>1. CASE st = <<>>
  BY <1>1 DEF PopSegment
<1>2. CASE st # <<>>
  <2>1. PICK l \in Nat : l = Len(st)
    BY LenProperties
  <2>2. Stacks!Front(st) \in Seq(Middlewares \cup {Base})
    BY <1>2, <2>1, FrontIs
  <2> QED BY <1>2, <2>2, Zenon DEF PopSegment
<1> QED BY <1>1, <1>2

LEMMA MoreSeqs == ASSUME NEW S, NEW T, S \subseteq T, NEW s \in Seq(S) PROVE s \in Seq(T)
  OBVIOUS

LEMMA StackedSteps ==
    ASSUME NEW fr \in Seq(Middlewares)
    PROVE  /\ <<Base>> \o fr # <<>>
           /\ \A m \in Middlewares : <<Base>> \o Append(fr, m) = Append(<<Base>> \o fr, m)
           /\ fr # <<>> => PopSegment(<<Base>> \o fr) = <<Base>> \o Stacks!Front(fr)
           /\ \A m \in Middlewares : Stacks!Front(Append(fr, m)) = fr /\ Stacks!Last(Append(fr, m)) = m /\ Append(fr, m) # <<>>
<1>1. PICK S : S = Middlewares \cup {Base}
  OBVIOUS
<1>2. PICK b \in Seq(S) : b = <<Base>> /\ Len(b) = 1
  <2>1. PICK z \in S : z = Base
    BY <1>1
  <2>2. <<z>> \in Seq(S) /\ Len(<<z>>) = 1
    OBVIOUS
  <2> QED BY <2>1, <2>2, Zenon
<1>3. fr \in Seq(S)
  BY <1>1, MoreSeqs
<1>4. PICK l \in Nat : l = Len(fr)
  BY LenProperties
<1>5. PICK c \in Seq(S) : c = b \o fr
  BY <1>2, <1>3, ConcatProperties
<1>6. Len(c) = l + 1
  BY <1>2, <1>3, <1>4, <1>5, ConcatProperties
<1>7. c # <<>>
  BY <1>4, <1>6, EmptySeq
<1>8. ASSUME NEW m \in Middlewares PROVE b \o Append(fr, m) = Append(c, m)
  BY <1>1, <1>2, <1>3, <1>5, <1>8
<1>9. ASSUME fr # <<>> PROVE PopSegment(c) = b \o Stacks!Front(fr)
  <2>1. l # 0
    BY <1>4, <1>9, EmptySeq
  <2>2. Stacks!Front(fr) = SubSeq(fr, 1, l - 1)
    BY <1>3, <1>4, <1>9, FrontIs
  <2>3. Stacks!Front(c) = SubSeq(c, 1, l)
    BY <1>5, <1>6 DEF Stacks!Front
  <2>4. SubSeq(c, 1, l) = b \o SubSeq(fr, 1, l - 1)
    BY <1>2, <1>3, <1>4, <1>5, <2>1
  <2> QED BY <1>7, <2>2, <2>3, <2>4, Zenon DEF PopSegment
<1>10. ASSUME NEW m \in Middlewares
       PROVE  Stacks!Front(Append(fr, m)) = fr /\ Stacks!Last(Append(fr, m)) = m /\ Append(fr, m) # <<>>
  <2>1. PICK a \in Seq(Middlewares) : IsAppended(a, fr, m, l)
    BY <1>4, OneMore
  <2>2. l + 1 \in Nat /\ Len(a) = l + 1 /\ a # <<>>
    BY <2>1, EmptySeq DEF IsAppended
  <2>3. PICK f \in Seq(Middlewares) : f = Stacks!Front(a) /\ Len(f) = l /\ Stacks!Last(a) = a[l + 1]
    BY <2>2, FrontIs
  <2>4. \A i \in 1..l : Stacks!Front(a)[i] = a[i]
    BY <2>2, FrontIs
  <2>5. \A i \in 1..l : f[i] = fr[i]
    BY <2>1, <2>3, <2>4 DEF IsAppended
  <2>6. f = fr
    BY <1>4, <2>3, <2>5, SeqEqual
  <2> QED BY <2>1, <2>2, <2>3, <2>6 DEF IsAppended
<1> QED BY <1>2, <1>5, <1>7, <1>8, <1>9, <1>10

-----------------------------------------------------------------------------
\* A step that answers nothing and marks nothing.
Carries ==
    /\ response' = response /\ webTx' = webTx
    /\ webHistory'.answered = webHistory.answered /\ webHistory'.marked = webHistory.marked
    /\ webHistory'.calm => webHistory.calm
    /\ Stays(nameState, nameState')
    /\ webHistory'.calm /\ response = "open" => Follows(nameState', frames')

LEMMA CarriesKeeps ==
    ASSUME WebStates, PathIs, MarkIs, AnswerIs, Carries
    PROVE  PathIs' /\ MarkIs' /\ AnswerIs'
<1>1. PathIs'
  BY DEF Carries, PathIs
<1>2. MarkIs'
  <2>1. Unmarked(nameState) => Unmarked(nameState')
    BY DEF Carries, Stays
  <2> QED BY <2>1 DEF Carries, MarkIs
<1>3. AnswerIs'
  <2>1. PICK answer \in Paths : answer = webHistory.answered
    BY DEF WebStates, Histories
  <2>2. KeepsAnswer(nameState, answer) => KeepsAnswer(nameState', answer)
    BY DEF Carries, Stays
  <2>3. webHistory'.answered = answer
    BY <2>1 DEF Carries
  <2>4. response' = "open" => webHistory'.answered = NoPath
    BY <2>1, <2>3 DEF AnswerIs, Carries
  <2>5. webHistory'.calm /\ webHistory'.answered # NoPath => KeepsAnswer(nameState', webHistory'.answered)
    BY <2>1, <2>2, <2>3 DEF AnswerIs, Carries
  <2>6. NamedAfterResponder'
    BY <2>1, <2>3 DEF AnswerIs, Carries, NamedAfterResponder
  <2> QED BY <2>4, <2>5, <2>6 DEF AnswerIs
<1> QED BY <1>1, <1>2, <1>3

\* What an action is to show.
Preserves == WebStates' /\ CalmIs' /\ PathIs' /\ MarkIs' /\ AnswerIs' /\ SegmentsAre'

LEMMA LastsIn ==
    ASSUME WebStates, NEW m, IsCurrent(m)
    PROVE  /\ m \in entered /\ m \in Middlewares /\ frames # <<>> /\ Stacks!Last(frames) = m
           /\ Stacks!Front(frames) \in Seq(entered) /\ frames \in Seq(Middlewares)
<1>1. PICK l \in Nat : l = Len(frames)
  BY LenProperties DEF WebStates
<1>2. frames \in Seq(entered) /\ frames # <<>> /\ Stacks!Last(frames) = m
  BY DEF IsCurrent, WebStates
<1>3. Stacks!Front(frames) \in Seq(entered) /\ Stacks!Last(frames) \in entered
  BY <1>1, <1>2, FrontIs
<1>4. frames \in Seq(Middlewares)
  BY <1>2, MoreSeqs DEF WebStates
<1> QED BY <1>2, <1>3, <1>4 DEF WebStates

\* One lemma for each action.
LEMMA EnterKeeps ==
    ASSUME WebInv, NEW m \in Middlewares, EnterMiddleware(m)
    PROVE  Preserves
<1> USE DEF WebInv
<1>1. PICK ns : ns = IF Kind(m, "errorware") THEN nameState ELSE AppendPath(nameState, RouteOf[m])
  OBVIOUS
<1>2. NameState(nameState) /\ frames \in Seq(Middlewares) /\ frames \in Seq(entered) /\ entered \subseteq Middlewares
  BY MoreSeqs DEF WebStates
<1>3. Stays(nameState, ns)
  <2>1. CASE Kind(m, "errorware")
    BY <1>1, <1>2, <2>1 DEF Stays
  <2>2. CASE ~Kind(m, "errorware")
    BY <1>1, <1>2, <2>2, AppendPathStays
  <2> QED BY <2>1, <2>2
<1>4. nameState' = Cached(ns) /\ NameState(ns)
  BY <1>1, <1>3, Zenon DEF EnterMiddleware, Stays
<1>5. Stays(ns, nameState')
  BY <1>4, CachedStays
<1>6. Stays(nameState, nameState')
  BY <1>3, <1>5 DEF Stays
<1>7. frames' = Append(frames, m) /\ frames' \in Seq(entered') /\ frames' \in Seq(Middlewares) /\ frames' # <<>>
  <2>1. entered' = entered \cup {m}
    BY DEF EnterMiddleware
  <2>2. frames \in Seq(entered') /\ m \in entered'
    BY <1>2, <2>1, MoreSeqs
  <2> QED BY <1>2, <2>2, AppendProperties DEF EnterMiddleware
<1>8. PICK b \in BOOLEAN : b = (webHistory.orderly /\ txInfo.stack # <<>> /\
            Stacks!Last(txInfo.stack) = Stacks!Last(<<Base>> \o frames))
  OBVIOUS
<1>9. webHistory' = [webHistory EXCEPT !.orderly = b]
  BY <1>8, Zenon DEF EnterMiddleware
<1>10. IsHistory(webHistory', webHistory.calm, b, webHistory.marked, webHistory.answered)
  <2>1. webHistory \in Histories
    BY DEF WebStates
  <2> QED BY <1>9, <2>1, HistorySteps
<1>11. webHistory.calm => ~Kind(m, "errorware")
  BY DEF CalmIs, EnterMiddleware
<1>12. webHistory'.calm /\ response = "open" => Follows(nameState', frames')
  <2> SUFFICES ASSUME webHistory'.calm /\ response = "open" PROVE Follows(nameState', frames')
    OBVIOUS
  <2>1. webHistory.calm
    BY <1>10 DEF IsHistory
  <2>2. Follows(nameState, frames)
    BY <2>1 DEF PathIs
  <2>3. ns = AppendPath(nameState, RouteOf[m])
    BY <1>1, <1>11, <2>1
  <2>4. Follows(ns, frames')
    BY <1>2, <1>7, <2>2, <2>3, AppendPathStays
  <2> QED BY <1>4, <1>7, <2>4, CachedStays
<1>13. Carries
  BY <1>6, <1>10, <1>12 DEF Carries, EnterMiddleware, IsHistory
<1>14. PathIs' /\ MarkIs' /\ AnswerIs'
  BY <1>13, CarriesKeeps
<1>15. CalmIs'
  <2> SUFFICES ASSUME webHistory'.calm PROVE ~failing' /\ \A k \in entered' : ~Kind(k, "errorware")
    BY DEF CalmIs
  <2>1. webHistory.calm
    BY <1>10 DEF IsHistory
  <2> QED BY <1>11, <2>1 DEF CalmIs, EnterMiddleware
<1>16. PICK st \in Seq(Middlewares \cup {Base}) : st = txInfo.stack
  BY DEF WebStates, Infos
<1>17. PICK st1 \in Seq(Middlewares \cup {Base}) : st1 = IF Kind(m, "noNext") THEN st ELSE Append(st, m)
  <2>1. Append(st, m) \in Seq(Middlewares \cup {Base})
    BY AppendProperties
  <2> QED BY <2>1, Zenon
<1>18. IsInfo(txInfo', st1)
  <2>1. PICK d \in BOOLEAN : d = (txInfo.handled \/ Kind(m, "errorware"))
    OBVIOUS
  <2>2. [txInfo EXCEPT !.handled = d].stack = st
    BY <1>16 DEF WebStates, Infos
  <2>3. txInfo' = [txInfo EXCEPT !.handled = d, !.stack = IF Kind(m, "noNext") THEN @ ELSE Append(@, m)]
    BY <2>1, Zenon DEF EnterMiddleware
  <2>4. txInfo' = [txInfo EXCEPT !.handled = d, !.stack = st1]
    BY <1>17, <2>2, <2>3, Zenon
  <2>5. txInfo \in Infos
    BY DEF WebStates
  <2> QED BY <2>4, <2>5, InfoSteps
<1>19. WebStates'
  <2>1. entered' \subseteq Middlewares
    BY DEF WebStates, EnterMiddleware
  <2>2. waiting' \in Seq(Waiters(entered'))
    <3>1. Waiters(entered) \subseteq Waiters(entered')
      BY DEF Waiters, EnterMiddleware
    <3>2. waiting \in Seq(Waiters(entered')) 
      BY <3>1, MoreSeqs DEF WebStates
    <3> QED BY <3>2 DEF EnterMiddleware
  <2>3. failing' \in BOOLEAN /\ response' \in {"open", "ended", "finished"} /\ webTx' \in WebTxs
    BY DEF EnterMiddleware, WebStates
  <2> QED BY <1>6, <1>7, <1>10, <1>18, <2>1, <2>2, <2>3 DEF WebStates, IsInfo, IsHistory, Stays
<1>20. SegmentsAre'
  <2> SUFFICES ASSUME webHistory'.calm, PlainRequest(entered') PROVE webHistory'.orderly /\ Stacked(txInfo'.stack, frames')
    BY DEF SegmentsAre
  <2>1. webHistory.calm
    BY <1>10 DEF IsHistory
  <2>2. PlainRequest(entered)
    BY DEF PlainRequest, EnterMiddleware
  <2>3. webHistory.orderly /\ Stacked(st, frames)
    BY <1>16, <2>1, <2>2 DEF SegmentsAre
  <2>4. st = <<Base>> \o frames
    <3>1. CASE frames = <<>>
      BY <2>3, <3>1 DEF Stacked
    <3>2. CASE frames # <<>>
      <4>1. Stacks!Last(frames) \in Routers
        BY <3>2 DEF EnterMiddleware, MayDispatch
      <4>2. Stacks!Last(frames) \in entered
        <5>1. PICK l \in Nat : l = Len(frames)
          BY <1>2, LenProperties
        <5> QED BY <1>2, <3>2, <5>1, FrontIs
      <4>3. ~Kind(Stacks!Last(frames), "noNext")
        BY <2>2, <4>1, <4>2 DEF PlainRequest
      <4> QED BY <2>3, <4>3 DEF Stacked
    <3> QED BY <3>1, <3>2
  <2>5. b
    BY <1>2, <1>8, <1>16, <2>3, <2>4, StackedSteps
  <2>6. Stacked(st1, frames')
    <3>1. CASE Kind(m, "noNext")
      <4>1. Stacks!Last(frames') = m /\ Stacks!Front(frames') = frames
        BY <1>2, <1>7, StackedSteps
      <4> QED BY <1>7, <1>17, <2>4, <3>1, <4>1 DEF Stacked
    <3>2. CASE ~Kind(m, "noNext")
      <4>1. st1 = <<Base>> \o frames'
        BY <1>2, <1>7, <1>17, <2>4, <3>2, StackedSteps
      <4> QED BY <4>1 DEF Stacked
    <3> QED BY <3>1, <3>2
  <2> QED BY <1>10, <1>18, <2>5, <2>6 DEF IsHistory, IsInfo
<1> QED BY <1>14, <1>15, <1>19, <1>20 DEF Preserves

LEMMA SameStays == ASSUME NEW ns, NameState(ns) PROVE Stays(ns, ns)
  BY DEF Stays

\* A step that is calm no more has nothing but states to keep.
LEMMA UncalmKeeps ==
    ASSUME WebInv, WebStates', Carries, ~webHistory'.calm
    PROVE  Preserves
<1>1. PathIs' /\ MarkIs' /\ AnswerIs'
  BY CarriesKeeps DEF WebInv
<1>2. CalmIs' /\ SegmentsAre'
  BY DEF CalmIs, SegmentsAre
<1> QED BY <1>1, <1>2 DEF Preserves

LEMMA PoppedInfo ==
    ASSUME txInfo \in Infos
    PROVE  \E st \in Seq(Middlewares \cup {Base}) : \E st1 \in Seq(Middlewares \cup {Base}) :
             /\ st = txInfo.stack /\ st1 = PopSegment(st)
             /\ IsInfo([txInfo EXCEPT !.stack = PopSegment(@)], st1)
             /\ IsInfo([NoticedError(txInfo) EXCEPT !.stack = PopSegment(@)], st1)
             /\ IsInfo([[txInfo EXCEPT !.handled = TRUE] EXCEPT !.stack = PopSegment(@)], st1)
             /\ IsInfo([NoticedError(txInfo) EXCEPT !.stack = @], st)
             /\ IsInfo([txInfo EXCEPT !.stack = @], st)
<1>1. PICK st \in Seq(Middlewares \cup {Base}) : st = txInfo.stack
  BY DEF Infos
<1>2. PICK st1 \in Seq(Middlewares \cup {Base}) : st1 = PopSegment(st)
  BY PopSegmentIs
<1>3. NoticedError(txInfo).stack = st /\ [txInfo EXCEPT !.handled = TRUE].stack = st
  BY <1>1, InfoSteps
<1>4. IsInfo([txInfo EXCEPT !.stack = st1], st1)
  BY InfoSteps
<1>5. IsInfo([NoticedError(txInfo) EXCEPT !.stack = st1], st1)
  BY InfoSteps
<1>6. IsInfo([[txInfo EXCEPT !.handled = TRUE] EXCEPT !.stack = st1], st1)
  BY InfoSteps
<1>7. IsInfo([NoticedError(txInfo) EXCEPT !.stack = st], st)
  BY InfoSteps
<1>8. IsInfo([txInfo EXCEPT !.stack = st], st)
  BY InfoSteps
<1>9. IsInfo([txInfo EXCEPT !.stack = PopSegment(@)], st1) /\ IsInfo([txInfo EXCEPT !.stack = @], st)
  BY <1>1, <1>2, <1>4, <1>8, Zenon
<1>10. IsInfo([NoticedError(txInfo) EXCEPT !.stack = PopSegment(@)], st1) /\ IsInfo([NoticedError(txInfo) EXCEPT !.stack = @], st)
  BY <1>2, <1>3, <1>5, <1>7, Zenon
<1>11. IsInfo([[txInfo EXCEPT !.handled = TRUE] EXCEPT !.stack = PopSegment(@)], st1)
  BY <1>2, <1>3, <1>6, Zenon
<1> QED BY <1>1, <1>2, <1>9, <1>10, <1>11

LEMMA ReturnedKeeps ==
    ASSUME WebInv, NEW m \in Middlewares, ReturnedWithoutNext(m)
    PROVE  Preserves
<1>1. WebStates /\ IsCurrent(m)
  BY DEF WebInv, ReturnedWithoutNext
<1>2. NameState(nameState) /\ webHistory \in Histories /\ txInfo \in Infos
  BY <1>1 DEF WebStates
<1>3. Stays(nameState, nameState')
  BY <1>2, PopPathStays DEF ReturnedWithoutNext
<1>4. IsHistory(webHistory', FALSE, webHistory.orderly, webHistory.marked, webHistory.answered)
  <2>1. webHistory' = [webHistory EXCEPT !.calm = FALSE]
    BY DEF ReturnedWithoutNext
  <2> QED BY <1>2, <2>1, HistorySteps
<1>5. txInfo' \in Infos
  <2>1. PICK st1 : IsInfo([txInfo EXCEPT !.stack = PopSegment(@)], st1)
    BY <1>2, PoppedInfo
  <2> QED BY <2>1 DEF ReturnedWithoutNext, IsInfo
<1>6. frames' \in Seq(entered)
  BY <1>1, LastsIn DEF ReturnedWithoutNext
<1>7. WebStates'
  BY <1>1, <1>3, <1>4, <1>5, <1>6 DEF WebStates, ReturnedWithoutNext, Stays, IsHistory
<1>8. ~webHistory'.calm
  BY <1>4 DEF IsHistory
<1>9. Carries
  BY <1>3, <1>4, <1>8 DEF Carries, ReturnedWithoutNext, IsHistory
<1> QED BY <1>7, <1>8, <1>9, UncalmKeeps

LEMMA ThrewKeeps ==
    ASSUME WebInv, NEW m \in Middlewares, Threw(m)
    PROVE  Preserves
<1>1. WebStates /\ IsCurrent(m)
  BY DEF WebInv, Threw
<1>2. NameState(nameState) /\ webHistory \in Histories /\ txInfo \in Infos
  BY <1>1 DEF WebStates
<1>3. Stays(nameState, nameState')
  BY <1>2, SameStays DEF Threw
<1>4. IsHistory(webHistory', FALSE, webHistory.orderly, webHistory.marked, webHistory.answered)
  <2>1. webHistory' = [webHistory EXCEPT !.calm = FALSE]
    BY DEF Threw
  <2> QED BY <1>2, <2>1, HistorySteps
<1>5. txInfo' \in Infos
  <2>1. PICK st1 : IsInfo([NoticedError(txInfo) EXCEPT !.stack = PopSegment(@)], st1)
    BY <1>2, PoppedInfo
  <2> QED BY <2>1 DEF Threw, IsInfo
<1>6. frames' \in Seq(entered)
  BY <1>1, LastsIn DEF Threw
<1>7. WebStates'
  BY <1>1, <1>3, <1>4, <1>5, <1>6 DEF WebStates, Threw, Stays, IsHistory
<1>8. ~webHistory'.calm
  BY <1>4 DEF IsHistory
<1>9. Carries
  BY <1>3, <1>4, <1>8 DEF Carries, Threw, IsHistory
<1> QED BY <1>7, <1>8, <1>9, UncalmKeeps

LEMMA NextFinishedKeeps ==
    ASSUME WebInv, NEW m \in Middlewares, NextFinished(m)
    PROVE  Preserves
<1>1. WebStates
  BY DEF WebInv
<1>2. NameState(nameState) /\ webHistory \in Histories /\ txInfo \in Infos
  BY <1>1 DEF WebStates
<1>3. frames \in Seq(entered) /\ frames \in Seq(Middlewares)
  BY <1>1, MoreSeqs DEF WebStates
<1>4. waiting' \in Seq(Waiters(entered)) /\ m \in Waiters(entered)
  <2>1. waiting \in Seq(Waiters(entered)) /\ waiting # <<>> /\ Stacks!Last(waiting) = m /\ waiting' = Stacks!Front(waiting)
    BY <1>1 DEF WebStates, NextFinished
  <2>2. PICK l \in Nat : l = Len(waiting)
    BY <2>1, LenProperties
  <2> QED BY <2>1, <2>2, FrontIs
<1>5. m \in entered /\ Kind(m, "promise")
  BY <1>4 DEF Waiters
<1>6. frames' = Append(frames, m) /\ frames' \in Seq(entered)
  BY <1>3, <1>5, AppendProperties DEF NextFinished
<1>7. Stays(nameState, nameState')
  BY <1>2, AppendPathStays DEF NextFinished
<1>8. txInfo' \in Infos
  <2>1. PICK st \in Seq(Middlewares \cup {Base}) : st = txInfo.stack
    BY <1>2 DEF Infos
  <2>2. PICK st1 \in Seq(Middlewares \cup {Base}) : st1 = Append(st, m)
    BY AppendProperties
  <2>3. IsInfo([txInfo EXCEPT !.stack = st1], st1)
    BY <1>2, InfoSteps
  <2> QED BY <2>1, <2>2, <2>3 DEF NextFinished, IsInfo
<1>9. WebStates'
  BY <1>1, <1>4, <1>6, <1>7, <1>8 DEF WebStates, NextFinished, Stays
<1>10. webHistory.calm /\ response = "open" => Follows(nameState', frames')
  BY <1>2, <1>3, <1>6, AppendPathStays DEF WebInv, PathIs, NextFinished
<1>11. Carries
  BY <1>7, <1>10 DEF Carries, NextFinished
<1>12. PathIs' /\ MarkIs' /\ AnswerIs'
  BY <1>11, CarriesKeeps DEF WebInv
<1>13. CalmIs'
  BY DEF WebInv, CalmIs, NextFinished
<1>14. SegmentsAre'
  <2>1. ~PlainRequest(entered')
    BY <1>5 DEF PlainRequest, NextFinished
  <2> QED BY <2>1 DEF SegmentsAre
<1> QED BY <1>9, <1>12, <1>13, <1>14 DEF Preserves

LEMMA NextKeeps ==
    ASSUME WebInv, NEW m \in Middlewares, NEW err \in BOOLEAN, Next1(m, err)
    PROVE  Preserves
<1>1. WebStates
  BY DEF WebInv
<1>2. NameState(nameState) /\ webHistory \in Histories /\ txInfo \in Infos
  BY <1>1 DEF WebStates
<1>3. m \in entered /\ KindOf[m] \in {"callback", "errorware", "promise"} /\ entered' = entered /\ response' = response /\ webTx' = webTx
  BY DEF Next1
<1>4. PICK g \in BOOLEAN : g = GoesOn(m)
  BY DEF GoesOn
<1>5. g => IsCurrent(m)
  BY <1>4 DEF GoesOn, IsCurrent
<1>6. /\ frames' = IF g THEN Stacks!Front(frames) ELSE frames
      /\ failing' = IF g THEN err ELSE failing
      /\ waiting' = IF g /\ Kind(m, "promise") THEN Append(waiting, m) ELSE waiting
  BY <1>4 DEF Next1
<1>7. frames' \in Seq(entered)
  <2>1. CASE g
    BY <1>1, <1>5, <1>6, <2>1, LastsIn
  <2>2. CASE ~g
    BY <1>1, <1>6, <2>2 DEF WebStates
  <2> QED BY <2>1, <2>2
<1>8. waiting' \in Seq(Waiters(entered))
  <2>1. waiting \in Seq(Waiters(entered))
    BY <1>1 DEF WebStates
  <2>2. CASE g /\ Kind(m, "promise")
    <3>1. m \in Waiters(entered)
      BY <1>3, <2>2 DEF Waiters
    <3> QED BY <1>6, <2>1, <2>2, <3>1, AppendProperties
  <2>3. CASE ~(g /\ Kind(m, "promise"))
    BY <1>6, <2>1, <2>3
  <2> QED BY <2>2, <2>3
<1>9. nameState' = IF err \/ Kind(m, "errorware") THEN nameState ELSE PopPath(nameState, RouteOf[m])
  BY DEF Next1
<1>10. Stays(nameState, nameState')
  <2>1. CASE err \/ Kind(m, "errorware")
    BY <1>2, <1>9, <2>1, SameStays
  <2>2. CASE ~(err \/ Kind(m, "errorware"))
    BY <1>2, <1>9, <2>2, PopPathStays
  <2> QED BY <2>1, <2>2
<1>11. PICK calm \in BOOLEAN, late \in BOOLEAN :
             calm = (webHistory.calm /\ g /\ ~err) /\ late = (webHistory.late \/ ~g)
  OBVIOUS
<1>12. webHistory' = [webHistory EXCEPT !.calm = calm, !.late = late, !.gone = webHistory.gone \cup {m}]
  <2>1. webHistory' = [webHistory EXCEPT !.calm = webHistory.calm /\ g /\ ~err,
                                         !.late = [webHistory EXCEPT !.calm = webHistory.calm /\ g /\ ~err].late \/ ~g,
                                         !.gone = [webHistory EXCEPT !.calm = webHistory.calm /\ g /\ ~err,
                                                     !.late = [webHistory EXCEPT !.calm = webHistory.calm /\ g /\ ~err].late \/ ~g].gone
                                                   \cup {m}]
    BY <1>4, Zenon DEF Next1
  <2>2. [webHistory EXCEPT !.calm = calm].late = webHistory.late
    BY <1>2 DEF Histories
  <2>3. [webHistory EXCEPT !.calm = calm, !.late = late].gone = webHistory.gone
    BY <1>2 DEF Histories
  <2> QED BY <1>11, <2>1, <2>2, <2>3, Zenon
<1>13. IsHistory(webHistory', calm, webHistory.orderly, webHistory.marked, webHistory.answered)
  <2>1. webHistory.gone \cup {m} \in SUBSET Middlewares
    BY <1>2 DEF Histories
  <2> QED BY <1>2, <1>12, <2>1, HistorySteps
<1>14. PICK st \in Seq(Middlewares \cup {Base}), st1 \in Seq(Middlewares \cup {Base}) :
             /\ st = txInfo.stack /\ st1 = PopSegment(st)
             /\ IsInfo(txInfo', IF Kind(m, "promise") THEN st ELSE st1)
  <2>1. PICK st \in Seq(Middlewares \cup {Base}), st1 \in Seq(Middlewares \cup {Base}) :
             /\ st = txInfo.stack /\ st1 = PopSegment(st)
             /\ IsInfo([txInfo EXCEPT !.stack = PopSegment(@)], st1)
             /\ IsInfo([NoticedError(txInfo) EXCEPT !.stack = PopSegment(@)], st1)
             /\ IsInfo([NoticedError(txInfo) EXCEPT !.stack = @], st)
             /\ IsInfo([txInfo EXCEPT !.stack = @], st)
    BY <1>2, PoppedInfo
  <2>2. txInfo' = [(IF err THEN NoticedError(txInfo) ELSE txInfo) EXCEPT
            !.stack = IF Kind(m, "promise") THEN @ ELSE PopSegment(@)]
    BY Zenon DEF Next1
  <2>3. CASE Kind(m, "promise")
    BY <2>1, <2>2, <2>3, Zenon
  <2>4. CASE ~Kind(m, "promise")
    BY <2>1, <2>2, <2>4, Zenon
  <2> QED BY <2>1, <2>3, <2>4
<1>15. txInfo' \in Infos
  BY <1>14 DEF IsInfo
<1>16. failing' \in BOOLEAN
  BY <1>1, <1>6 DEF WebStates
<1>17. WebStates'
  BY <1>1, <1>3, <1>7, <1>8, <1>10, <1>13, <1>15, <1>16 DEF WebStates, Stays, IsHistory
<1>18. webHistory'.calm => webHistory.calm /\ g /\ ~err
  BY <1>11, <1>13 DEF IsHistory
<1>19. webHistory.calm => ~Kind(m, "errorware")
  BY <1>3 DEF WebInv, CalmIs
<1>20. frames \in Seq(Middlewares)
  BY <1>1, MoreSeqs DEF WebStates
<1>21. webHistory'.calm /\ response = "open" => Follows(nameState', frames')
  <2> SUFFICES ASSUME webHistory'.calm, response = "open" PROVE Follows(nameState', frames')
    OBVIOUS
  <2>1. webHistory.calm /\ g /\ ~err
    BY <1>18
  <2>2. Follows(nameState, frames)
    BY <2>1 DEF WebInv, PathIs
  <2>3. frames # <<>> /\ Stacks!Last(frames) = m
    BY <1>5, <2>1 DEF IsCurrent
  <2>4. nameState' = PopPath(nameState, RouteOf[m]) /\ frames' = Stacks!Front(frames)
    BY <1>6, <1>9, <1>19, <2>1
  <2> QED BY <1>2, <1>20, <2>2, <2>3, <2>4, PopPathStays
<1>22. Carries
  BY <1>3, <1>10, <1>13, <1>18, <1>21 DEF Carries, IsHistory
<1>23. PathIs' /\ MarkIs' /\ AnswerIs'
  BY <1>22, CarriesKeeps DEF WebInv
<1>24. CalmIs'
  BY <1>3, <1>6, <1>18 DEF WebInv, CalmIs
<1>25. SegmentsAre'
  <2> SUFFICES ASSUME webHistory'.calm, PlainRequest(entered') PROVE webHistory'.orderly /\ Stacked(txInfo'.stack, frames')
    BY DEF SegmentsAre
  <2>1. webHistory.calm /\ g /\ PlainRequest(entered)
    BY <1>3, <1>18
  <2>2. webHistory.orderly /\ Stacked(st, frames)
    BY <1>14, <2>1 DEF WebInv, SegmentsAre
  <2>3. frames # <<>> /\ Stacks!Last(frames) = m /\ ~Kind(m, "promise") /\ ~Kind(m, "noNext")
    BY <1>3, <1>5, <2>1 DEF IsCurrent, PlainRequest, Kind
  <2>4. st = <<Base>> \o frames
    BY <2>2, <2>3 DEF Stacked
  <2>5. st1 = <<Base>> \o Stacks!Front(frames)
    BY <1>14, <1>20, <2>3, <2>4, StackedSteps
  <2>6. txInfo'.stack = <<Base>> \o frames'
    BY <1>6, <1>14, <2>1, <2>3, <2>5 DEF IsInfo
  <2> QED BY <1>13, <2>2, <2>6 DEF IsHistory, Stacked
<1> QED BY <1>17, <1>23, <1>24, <1>25 DEF Preserves

LEMMA SettledKeeps ==
    ASSUME WebInv, NEW m \in Middlewares, NEW err \in BOOLEAN, NEW responds \in BOOLEAN, Settled1(m, err, responds)
    PROVE  Preserves
<1>1. WebStates /\ IsCurrent(m) /\ Kind(m, "promise")
  BY DEF WebInv, Settled1
<1>2. NameState(nameState) /\ webHistory \in Histories /\ txInfo \in Infos
  BY <1>1 DEF WebStates
<1>3. /\ m \in entered /\ frames # <<>> /\ Stacks!Last(frames) = m
      /\ Stacks!Front(frames) \in Seq(entered) /\ frames \in Seq(Middlewares)
  BY <1>1, LastsIn
<1>4. PICK ns : ns = IF responds THEN Frozen(nameState) ELSE nameState
  OBVIOUS
<1>5. Stays(nameState, ns) /\ NameState(ns)
  <2>1. CASE responds
    BY <1>2, <1>4, <2>1, FrozenStays DEF Stays
  <2>2. CASE ~responds
    BY <1>2, <1>4, <2>2, SameStays
  <2> QED BY <2>1, <2>2
<1>6. nameState' = IF err THEN ns ELSE PopPath(ns, RouteOf[m])
  BY <1>4, Zenon DEF Settled1
<1>7. Stays(ns, nameState')
  <2>1. CASE err
    BY <1>5, <1>6, <2>1, SameStays
  <2>2. CASE ~err
    BY <1>5, <1>6, <2>2, PopPathStays
  <2> QED BY <2>1, <2>2
<1>8. Stays(nameState, nameState')
  BY <1>5, <1>7 DEF Stays
<1>9. PICK calm \in BOOLEAN : calm = (webHistory.calm /\ ~err /\ ~responds)
  OBVIOUS
<1>10. IsHistory(webHistory', calm, webHistory.orderly, webHistory.marked, webHistory.answered)
  <2>1. webHistory' = [webHistory EXCEPT !.calm = calm]
    BY <1>9, Zenon DEF Settled1
  <2> QED BY <1>2, <2>1, HistorySteps
<1>11. txInfo' \in Infos
  <2>1. PICK st1 : /\ IsInfo([NoticedError(txInfo) EXCEPT !.stack = PopSegment(@)], st1)
                   /\ IsInfo([[txInfo EXCEPT !.handled = TRUE] EXCEPT !.stack = PopSegment(@)], st1)
    BY <1>2, PoppedInfo
  <2>2. txInfo' = [(IF err THEN NoticedError(txInfo) ELSE [txInfo EXCEPT !.handled = TRUE]) EXCEPT
            !.stack = PopSegment(@)]
    BY Zenon DEF Settled1
  <2>3. CASE err
    BY <2>1, <2>2, <2>3, Zenon DEF IsInfo
  <2>4. CASE ~err
    BY <2>1, <2>2, <2>4, Zenon DEF IsInfo
  <2> QED BY <2>3, <2>4
<1>12. /\ frames' = Stacks!Front(frames) /\ failing' = (failing \/ err)
       /\ entered' = entered /\ waiting' = waiting /\ response' = response /\ webTx' = webTx
  BY DEF Settled1
<1>13. WebStates'
  BY <1>1, <1>3, <1>8, <1>10, <1>11, <1>12 DEF WebStates, Stays, IsHistory
<1>14. webHistory'.calm => webHistory.calm /\ ~err /\ ~responds
  BY <1>9, <1>10 DEF IsHistory
<1>15. webHistory'.calm /\ response = "open" => Follows(nameState', frames')
  <2> SUFFICES ASSUME webHistory'.calm, response = "open" PROVE Follows(nameState', frames')
    OBVIOUS
  <2>1. webHistory.calm /\ ~err /\ ~responds
    BY <1>14
  <2>2. Follows(nameState, frames)
    BY <2>1 DEF WebInv, PathIs
  <2>3. nameState' = PopPath(nameState, RouteOf[m])
    BY <1>4, <1>6, <2>1
  <2> QED BY <1>2, <1>3, <1>12, <2>2, <2>3, PopPathStays
<1>16. Carries
  BY <1>8, <1>10, <1>12, <1>14, <1>15 DEF Carries, IsHistory
<1>17. PathIs' /\ MarkIs' /\ AnswerIs'
  BY <1>16, CarriesKeeps DEF WebInv
<1>18. CalmIs'
  BY <1>12, <1>14 DEF WebInv, CalmIs
<1>19. SegmentsAre'
  <2>1. ~PlainRequest(entered')
    BY <1>1, <1>3, <1>12 DEF PlainRequest
  <2> QED BY <2>1 DEF SegmentsAre
<1> QED BY <1>13, <1>17, <1>18, <1>19 DEF Preserves

LEMMA MarkKeeps ==
    ASSUME WebInv, MarkPath
    PROVE  Preserves
<1>1. WebStates /\ NameState(nameState) /\ webHistory \in Histories
  BY DEF WebInv, WebStates
<1>2. PICK path \in Seq(STRING) : path = nameState.path
  BY <1>1 DEF NameState, NameStates
<1>3. nameState' = [nameState EXCEPT !.marked = path]
  BY <1>2 DEF MarkPath
<1>4. /\ nameState' \in NameStates /\ nameState'.path = nameState.path
      /\ nameState'.cache = nameState.cache /\ nameState'.frozen = nameState.frozen
  BY <1>1, <1>3 DEF NameState, NameStates
<1>5. NameState(nameState')
  BY <1>1, <1>4 DEF NameState
<1>6. IsHistory(webHistory', webHistory.calm, webHistory.orderly, TRUE, webHistory.answered)
  <2>1. webHistory' = [webHistory EXCEPT !.marked = TRUE]
    BY DEF MarkPath
  <2> QED BY <1>1, <2>1, HistorySteps
<1>7. /\ frames' = frames /\ entered' = entered /\ waiting' = waiting /\ failing' = failing /\ txInfo' = txInfo
      /\ response' = response /\ webTx' = webTx
  BY DEF MarkPath
<1>8. WebStates'
  BY <1>1, <1>5, <1>6, <1>7 DEF WebStates, IsHistory
<1>9. webHistory'.calm = webHistory.calm /\ webHistory'.orderly = webHistory.orderly /\ webHistory'.answered = webHistory.answered
      /\ webHistory'.marked = TRUE
  BY <1>6 DEF IsHistory
<1>10. CalmIs' /\ SegmentsAre'
  BY <1>7, <1>9 DEF WebInv, CalmIs, SegmentsAre
<1>11. PathIs'
  <2>1. Follows(nameState, frames) => Follows(nameState', frames)
    BY <1>4, Zenon DEF Follows
  <2> QED BY <1>7, <1>9, <2>1 DEF WebInv, PathIs
<1>12. MarkIs'
  BY <1>9 DEF MarkIs
<1>13. AnswerIs'
  <2>1. KeepsAnswer(nameState, webHistory.answered) => KeepsAnswer(nameState', webHistory.answered)
    BY <1>4, Zenon DEF KeepsAnswer
  <2> QED BY <1>7, <1>9, <2>1 DEF WebInv, AnswerIs, NamedAfterResponder
<1> QED BY <1>8, <1>10, <1>11, <1>12, <1>13 DEF Preserves

LEMMA ResponseEndKeeps ==
    ASSUME WebInv, NEW bad \in BOOLEAN, ResponseEnd(bad)
    PROVE  Preserves
<1>1. /\ WebStates /\ NameState(nameState) /\ webHistory \in Histories /\ txInfo \in Infos /\ webTx \in WebTxs
      /\ frames \in Seq(Middlewares)
  BY MoreSeqs DEF WebInv, WebStates
<1>2. PICK answer \in Paths : answer = IF frames = <<>> THEN webHistory.answered ELSE Joined(MountsOf(frames))
  <2>1. webHistory.answered \in Paths
    BY <1>1 DEF Histories
  <2>2. Joined(MountsOf(frames)) \in Paths
    <3>1. PICK l \in Nat : l = Len(frames)
      BY <1>1, LenProperties
    <3>2. MountsOf(frames) \in Seq(STRING)
      BY <1>1, <3>1, MountsAre
    <3> QED BY <3>2, JoinedTypes DEF Paths
  <2> QED BY <2>1, <2>2, Zenon
<1>3. IsHistory(webHistory', webHistory.calm, webHistory.orderly, webHistory.marked, answer)
  <2>1. webHistory' = [webHistory EXCEPT !.answered = answer]
    BY <1>2, Zenon DEF ResponseEnd
  <2> QED BY <1>1, <2>1, HistorySteps
<1>4. webHistory'.calm = webHistory.calm /\ webHistory'.orderly = webHistory.orderly /\ webHistory'.answered = answer
      /\ webHistory'.marked = webHistory.marked
  BY <1>3 DEF IsHistory
<1>5. nameState' = Frozen(nameState) /\ Stays(nameState, nameState')
  BY <1>1, FrozenStays DEF ResponseEnd
<1>6. /\ frames' = frames /\ entered' = entered /\ waiting' = waiting /\ failing' = failing /\ txInfo' = txInfo
      /\ response = "open" /\ response' = "ended"
  BY DEF ResponseEnd
<1>7. webTx' \in WebTxs
  <2>1. PICK e \in BOOLEAN : e = (txInfo.error /\ (~txInfo.handled \/ bad))
    BY <1>1 DEF Infos
  <2>2. webTx' = [webTx EXCEPT !.excepted = e]
    BY <2>1, Zenon DEF ResponseEnd
  <2> QED BY <1>1, <2>2 DEF WebTxs
<1>8. WebStates'
  BY <1>1, <1>3, <1>5, <1>6, <1>7 DEF WebStates, Stays, IsHistory
<1>9. CalmIs' /\ SegmentsAre'
  BY <1>4, <1>6 DEF WebInv, CalmIs, SegmentsAre
<1>10. PathIs'
  BY <1>6 DEF PathIs
<1>11. MarkIs'
  BY <1>4, <1>5 DEF WebInv, MarkIs, Stays
<1>12. AnswerIs'
  <2>1. webHistory.calm /\ answer # NoPath => KeepsAnswer(nameState', answer)
    <3> SUFFICES ASSUME webHistory.calm, answer # NoPath PROVE KeepsAnswer(nameState', answer)
      OBVIOUS
    <3>1. webHistory.answered = NoPath
      BY <1>6 DEF WebInv, AnswerIs
    <3>2. frames # <<>> /\ answer = Joined(MountsOf(frames))
      BY <1>2, <3>1
    <3>3. Follows(nameState, frames)
      BY <1>6 DEF WebInv, PathIs
    <3> QED BY <1>1, <1>5, <3>2, <3>3, FrozenStays
  <2>2. response' # "open" /\ response' # "finished"
    BY <1>6
  <2> QED BY <1>4, <2>1, <2>2 DEF AnswerIs, NamedAfterResponder
<1> QED BY <1>8, <1>9, <1>10, <1>11, <1>12 DEF Preserves

LEMMA FinishKeeps ==
    ASSUME WebInv, Finish
    PROVE  Preserves
<1>1. /\ WebStates /\ NameState(nameState) /\ webHistory \in Histories /\ webTx \in WebTxs /\ nameState \in NameStates
  BY DEF WebInv, WebStates, NameState
<1>2. nameState' = Cached(nameState) /\ Stays(nameState, nameState')
  BY <1>1, CachedStays DEF Finish
<1>3. /\ frames' = frames /\ entered' = entered /\ waiting' = waiting /\ failing' = failing /\ txInfo' = txInfo
      /\ webHistory' = webHistory /\ response # "finished" /\ response' = "finished"
  BY DEF Finish
<1>4. PICK name \in Paths : name = IF IsEmptyName(nameState) THEN NoPath ELSE GetPath(nameState)
  <2>1. GetPath(nameState) \in Paths
    BY <1>1, GetPathIs
  <2>2. NoPath \in Paths
    BY DEF Paths
  <2> QED BY <2>1, <2>2, Zenon
<1>5. webTx' \in WebTxs /\ webTx'.name = name
  <2>1. webTx' = [webTx EXCEPT !.name = name, !.ends = @ + 1]
    BY <1>4, Zenon DEF Finish
  <2>2. PICK t : t = [webTx EXCEPT !.name = name]
    OBVIOUS
  <2>3. t \in WebTxs /\ t.name = name
    BY <1>1, <2>2 DEF WebTxs
  <2>4. PICK n \in Nat : n = t.ends + 1
    BY <2>3 DEF WebTxs
  <2>5. webTx' = [t EXCEPT !.ends = n]
    BY <2>1, <2>2, <2>4, Zenon
  <2> QED BY <2>3, <2>5 DEF WebTxs
<1>6. WebStates'
  BY <1>1, <1>2, <1>3, <1>5 DEF WebStates, Stays
<1>7. CalmIs' /\ SegmentsAre'
  BY <1>3 DEF WebInv, CalmIs, SegmentsAre
<1>8. PathIs'
  BY <1>3 DEF PathIs
<1>9. MarkIs'
  BY <1>2, <1>3 DEF WebInv, MarkIs, Stays
<1>10. AnswerIs'
  <2>1. PICK answer \in Paths : answer = webHistory.answered
    BY <1>1 DEF Histories
  <2>2. ASSUME webHistory.calm, answer # NoPath PROVE KeepsAnswer(nameState', answer) /\ name = answer
    <3>1. KeepsAnswer(nameState, answer)
      BY <2>1, <2>2 DEF WebInv, AnswerIs
    <3>2. nameState.path # <<>> /\ Joined(nameState.path) = answer /\ (nameState.cache # NoPath => nameState.cache = answer)
      BY <3>1 DEF KeepsAnswer
    <3>3. ~IsEmptyName(nameState)
      BY <3>2 DEF IsEmptyName, NamePath
    <3>4. GetPath(nameState) = answer
      <4>1. CASE nameState.cache # NoPath
        BY <1>1, <3>2, <4>1, GetPathIs
      <4>2. CASE nameState.cache = NoPath
        BY <1>1, <3>2, <4>2, GetPathIs
      <4> QED BY <4>1, <4>2
    <3> QED BY <1>2, <1>4, <3>1, <3>3, <3>4 DEF Stays
  <2> QED BY <1>3, <1>5, <2>1, <2>2 DEF AnswerIs, NamedAfterResponder
<1> QED BY <1>6, <1>7, <1>8, <1>9, <1>10 DEF Preserves

LEMMA WebStarts ==
    ASSUME WebInit
    PROVE  WebInv
<1>1. PICK z : z = <<>>
  OBVIOUS
<1>2. z \in Seq(STRING) /\ z \in Seq(entered) /\ z \in Seq(Waiters(entered)) /\ NoPath \in Paths /\ Unblank(NoPath)
  BY <1>1, NoPathIs DEF Paths
<1>3. nameState = [path |-> z, marked |-> z, cache |-> NoPath, frozen |-> FALSE]
  BY <1>1 DEF WebInit
<1>4. NameState(nameState) /\ nameState.path = z /\ nameState.marked = z /\ nameState.cache = NoPath /\ ~nameState.frozen
  BY <1>2, <1>3 DEF NameState, NameStates
<1>5. <<Base>> \in Seq(Middlewares \cup {Base})
  <2>1. PICK S : S = Middlewares \cup {Base}
    OBVIOUS
  <2>2. PICK b \in S : b = Base
    BY <2>1
  <2>3. <<b>> \in Seq(S)
    OBVIOUS
  <2> QED BY <2>1, <2>2, <2>3, Zenon
<1>6. txInfo \in Infos /\ txInfo.stack = <<Base>>
  BY <1>5 DEF WebInit, Infos
<1>7. webTx \in WebTxs
  BY <1>2 DEF WebInit, WebTxs
<1>8. IsHistory(webHistory, TRUE, TRUE, FALSE, NoPath)
  BY <1>2 DEF WebInit, Histories, IsHistory
<1>9. frames = z /\ waiting = z /\ entered = {} /\ failing = FALSE /\ response = "open"
  BY <1>1 DEF WebInit
<1>10. WebStates
  BY <1>2, <1>4, <1>6, <1>7, <1>8, <1>9 DEF WebStates, IsHistory
<1>11. CalmIs
  BY <1>9 DEF CalmIs
<1>12. MountsOf(frames) = <<>>
  <2>1. z \in Seq(Middlewares) /\ Len(z) = 0 /\ 0 \in Nat
    BY <1>1
  <2>2. MountsOf(z) \in Seq(STRING) /\ Len(MountsOf(z)) = 0
    BY <2>1, MountsAre
  <2> QED BY <1>9, <2>2, EmptySeq
<1>13. PathIs
  BY <1>1, <1>4, <1>12 DEF PathIs, Follows
<1>14. MarkIs
  BY <1>1, <1>4 DEF MarkIs, Unmarked
<1>15. AnswerIs
  BY <1>8 DEF AnswerIs, IsHistory, NamedAfterResponder
<1>16. Stacked(txInfo.stack, frames)
  <2>1. <<Base>> \o z = <<Base>>
    BY <1>1, <1>5, ConcatEmptySeq
  <2> QED BY <1>6, <1>9, <2>1 DEF Stacked
<1>17. SegmentsAre
  BY <1>8, <1>16 DEF SegmentsAre, IsHistory
<1> QED BY <1>10, <1>11, <1>13, <1>14, <1>15, <1>17 DEF WebInv

LEMMA RoutesFollow ==
    ASSUME WebInv
    PROVE  RoutesCorrect
<1>1. WebTypeOK
  <2>1. \A i \in DOMAIN frames : frames[i] \in entered
    BY ElementOfSeq DEF WebInv, WebStates
  <2>2. \A i \in DOMAIN waiting : waiting[i] \in entered /\ Kind(waiting[i], "promise")
    <3>1. PICK w \in Seq(Waiters(entered)) : w = waiting
      BY DEF WebInv, WebStates
    <3>2. \A i \in DOMAIN w : w[i] \in Waiters(entered)
      BY ElementOfSeq
    <3> QED BY <3>1, <3>2 DEF Waiters
  <2>3. \A i \in DOMAIN nameState.cache : nameState.cache[i] # ""
    <3>1. PICK c \in Paths : c = nameState.cache /\ Unblank(c)
      BY DEF WebInv, WebStates, NameState, NameStates
    <3>2. DOMAIN c = 1..Len(c)
      BY <3>1 DEF Paths, NoPath
    <3> QED BY <3>1, <3>2 DEF Unblank
  <2> QED BY <2>1, <2>2, <2>3 DEF WebInv, WebStates, WebTypeOK
<1>2. CacheIsFresh
  <2>1. NameState(nameState) /\ MarkIs
    BY DEF WebInv, WebStates
  <2>2. Unmarked(nameState) => NamePath(nameState) = nameState.path
    BY DEF Unmarked, NamePath
  <2> QED BY <2>1, <2>2 DEF CacheIsFresh, MarkIs, Unmarked
<1>3. NamedAfterResponder
  BY DEF WebInv, AnswerIs
<1>4. SegmentsAreNested
  BY DEF WebInv, SegmentsAre, SegmentsAreNested, PlainRequest
<1> QED BY <1>1, <1>2, <1>3, <1>4 DEF RoutesCorrect

\* Whatever is mounted where, and whichever middlewares go on, fail or answer: the cached path is that of
\* the stack, a transaction is named after the middlewares that answered, and segments are nested as
\* the middlewares are (lib/shim/webframework-shim.js, lib/transaction/name-state.js).
THEOREM RoutesAreCorrect == WebSpec => []RoutesCorrect
<1>1. WebInit => WebInv
  BY WebStarts
<1>2. WebInv /\ [WebNext]_webVars => WebInv'
  <2> SUFFICES ASSUME WebInv, [WebNext]_webVars PROVE WebInv'
    OBVIOUS
  <2>1. Preserves => WebInv'
    BY DEF Preserves, WebInv
  <2>2. CASE WebNext
    BY <2>1, <2>2, EnterKeeps, ReturnedKeeps, ThrewKeeps, NextFinishedKeeps, NextKeeps, SettledKeeps, MarkKeeps, ResponseEndKeeps, FinishKeeps, Zenon
       DEF WebNext
  <2>3. CASE UNCHANGED webVars
    BY <2>3 DEF webVars, WebInv, WebStates, CalmIs, PathIs, MarkIs, AnswerIs, SegmentsAre, NamedAfterResponder
  <2> QED BY <2>2, <2>3
<1>3. WebInv => RoutesCorrect
  BY RoutesFollow
<1> QED BY <1>1, <1>2, <1>3, PTL DEF WebSpec
=============================================================================
