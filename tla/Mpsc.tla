--------------------------------- MODULE Mpsc ---------------------------------
(***************************************************************************)
(* exp/spsc/spsc.go and the lock exp/mpsc/mpsc.go puts around its Tx: an   *)
(* unbounded queue made of a chain of bounded channels.  A node is a       *)
(* buffered items channel and a next channel that passes the following     *)
(* node to the receiver.  Closing a full channel and passing the next node *)
(* are two steps, between which the receiver may look.                     *)
(***************************************************************************)
EXTENDS Naturals, Sequences, SequencesExt

CONSTANTS Producers,   \* goroutines that call Send
          MaxSends,    \* bound: Sends of one producer
          itemsBuffer, \* capacity of an items channel (64)
          nil

VARIABLES nodes,    \* the chain of nodes made so far
          tail,     \* Tx.tail
          head,     \* Rx.head; 0 is the zero node, whose channels are nil
          mu,       \* mpsc.Tx.mu
          tx,       \* where each producer is in Send
          sends,    \* Sends begun by each producer
          closer,   \* the goroutine that calls Close
          rx,       \* where the consumer is in Recv or TryRecv
          received, \* what Recv and TryRecv have returned
          eof,      \* Recv has returned io.EOF
          missed    \* TryRecv has just returned false

txVars == <<tail, mu, tx, sends, closer>>
rxVars == <<head, rx, received, eof, missed>>
vars == <<nodes, txVars, rxVars>>

Msg == Producers \X (1..MaxSends)
newNode == [items |-> <<>>, closed |-> FALSE, next |-> "empty"]

Init ==
  /\ nodes = <<newNode>>
  /\ tail = 1 /\ head = 1
  /\ mu = nil
  /\ tx = [p \in Producers |-> "idle"]
  /\ sends = [p \in Producers |-> 0]
  /\ closer = "idle"
  /\ rx = "idle"
  /\ received = <<>>
  /\ eof = FALSE /\ missed = FALSE

-----------------------------------------------------------------------------
(* The sending end.                                                        *)

\* No Send may begin once Close has been called: closing a closed channel panics.
BeginSend(p) ==
  /\ tx[p] = "idle" /\ closer = "idle"
  /\ sends[p] < MaxSends
  /\ sends' = [sends EXCEPT ![p] = @ + 1]
  /\ tx' = [tx EXCEPT ![p] = "lock"]
  /\ UNCHANGED <<nodes, tail, mu, closer, rxVars>>

Lock(p) ==
  /\ tx[p] = "lock" /\ mu = nil
  /\ mu' = p
  /\ tx' = [tx EXCEPT ![p] = "send"]
  /\ UNCHANGED <<nodes, tail, sends, closer, rxVars>>

\* The select of Send: the channel has room ...
Send(p) ==
  /\ tx[p] = "send"
  /\ Len(nodes[tail].items) < itemsBuffer
  /\ nodes' = [nodes EXCEPT ![tail].items = Append(@, <<p, sends[p]>>)]
  /\ tx' = [tx EXCEPT ![p] = "idle"]
  /\ mu' = nil
  /\ UNCHANGED <<tail, sends, closer, rxVars>>

\* ... or it is full: close it, then pass on a new node and try again.
CloseItems(p) ==
  /\ tx[p] = "send"
  /\ Len(nodes[tail].items) = itemsBuffer
  /\ nodes' = [nodes EXCEPT ![tail].closed = TRUE]
  /\ tx' = [tx EXCEPT ![p] = "link"]
  /\ UNCHANGED <<tail, mu, sends, closer, rxVars>>

\* Variant: the sender passes a new node on and stays with the old one.
LinkNodeKeepsTail(p) ==
  /\ tx[p] = "link"
  /\ nodes[tail].next = "empty"
  /\ nodes' = Append([nodes EXCEPT ![tail].next = "node"], newNode)
  /\ tx' = [tx EXCEPT ![p] = "send"]
  /\ UNCHANGED <<tail, mu, sends, closer, rxVars>>

LinkNode(p) ==
  /\ tx[p] = "link"
  /\ nodes[tail].next = "empty"
  /\ nodes' = Append([nodes EXCEPT ![tail].next = "node"], newNode)
  /\ tail' = tail + 1
  /\ tx' = [tx EXCEPT ![p] = "send"]
  /\ UNCHANGED <<mu, sends, closer, rxVars>>

\* Close, called when no Send is under way.
Close ==
  /\ closer = "idle"
  /\ \A p \in Producers : tx[p] = "idle"
  /\ nodes' = [nodes EXCEPT ![tail].closed = TRUE]
  /\ closer' = "next"
  /\ UNCHANGED <<tail, mu, tx, sends, rxVars>>

CloseNext ==
  /\ closer = "next"
  /\ nodes' = [nodes EXCEPT ![tail].next = "closed"]
  /\ closer' = "done"
  /\ UNCHANGED <<tail, mu, tx, sends, rxVars>>

-----------------------------------------------------------------------------
(* The receiving end.                                                      *)

BeginRecv ==
  /\ rx = "idle"
  /\ rx' \in {"recv", "try"}
  /\ missed' = FALSE
  /\ UNCHANGED <<nodes, txVars, head, received, eof>>

\* An item is there for either select.
Receive ==
  /\ rx \in {"recv", "try"}
  /\ head # 0
  /\ nodes[head].items # <<>>
  /\ received' = Append(received, Head(nodes[head].items))
  /\ nodes' = [nodes EXCEPT ![head].items = Tail(@)]
  /\ rx' = "idle"
  /\ UNCHANGED <<txVars, head, eof, missed>>

\* Variant: the receiver leaves a closed channel before it is drained.
EndOfNodeEarly ==
  /\ rx \in {"recv", "try"}
  /\ head # 0
  /\ nodes[head].closed
  /\ rx' = IF rx = "recv" THEN "recvNext" ELSE "tryNext"
  /\ UNCHANGED <<nodes, txVars, head, received, eof, missed>>

\* The channel is drained and closed: wait for the next node.
EndOfNode ==
  /\ rx \in {"recv", "try"}
  /\ head # 0
  /\ nodes[head].items = <<>> /\ nodes[head].closed
  /\ rx' = IF rx = "recv" THEN "recvNext" ELSE "tryNext"
  /\ UNCHANGED <<nodes, txVars, head, received, eof, missed>>

NextNode ==
  /\ rx \in {"recvNext", "tryNext"}
  /\ nodes[head].next = "node"
  /\ nodes' = [nodes EXCEPT ![head].next = "empty"]
  /\ head' = head + 1
  /\ rx' = IF rx = "recvNext" THEN "recv" ELSE "try"
  /\ UNCHANGED <<txVars, received, eof, missed>>

\* The next channel is closed: head becomes the zero node; Recv returns io.EOF
\* and TryRecv goes round again.
NoNextNode ==
  /\ rx \in {"recvNext", "tryNext"}
  /\ nodes[head].next = "closed"
  /\ head' = 0
  /\ eof' = (eof \/ rx = "recvNext")
  /\ rx' = IF rx = "recvNext" THEN "idle" ELSE "try"
  /\ UNCHANGED <<nodes, txVars, received, missed>>

\* The Context of a Recv is done.
RecvCanceled == rx = "recv" /\ rx' = "idle" /\ UNCHANGED <<nodes, txVars, head, received, eof, missed>>

\* The default branch of TryRecv: nothing can be read from the channel now.
TryRecvEmpty ==
  /\ rx = "try"
  /\ head # 0 => nodes[head].items = <<>> /\ ~nodes[head].closed
  /\ rx' = "idle"
  /\ missed' = TRUE
  /\ UNCHANGED <<nodes, txVars, head, received, eof>>

-----------------------------------------------------------------------------
Produce(p) == Lock(p) \/ Send(p) \/ CloseItems(p) \/ LinkNode(p)
Consume == Receive \/ EndOfNode \/ NextNode \/ NoNextNode \/ TryRecvEmpty

Next ==
  \/ \E p \in Producers : BeginSend(p) \/ Produce(p)
  \/ Close \/ CloseNext
  \/ BeginRecv \/ Consume \/ RecvCanceled

Spec == Init /\ [][Next]_vars

\* A goroutine inside Send, Close, Recv or TryRecv is scheduled again; nobody
\* has to call them.
Fairness == /\ \A p \in Producers : SF_vars(Lock(p)) /\ WF_vars(Produce(p))
            /\ WF_vars(CloseNext)
            /\ WF_vars(Consume)

FairSpec == Spec /\ Fairness

-----------------------------------------------------------------------------
(* Properties.                                                             *)

\* Type invariant.
TypeOK ==
  /\ nodes \in Seq([items : Seq(Msg), closed : BOOLEAN, next : {"empty", "node", "closed"}])
  /\ \A k \in 1..Len(nodes) : Len(nodes[k].items) <= itemsBuffer
  /\ tail \in 1..Len(nodes) /\ head \in 0..Len(nodes)
  /\ mu \in Producers \cup {nil}
  /\ tx \in [Producers -> {"idle", "lock", "send", "link"}]
  /\ sends \in [Producers -> 0..MaxSends]
  /\ closer \in {"idle", "next", "done"}
  /\ rx \in {"idle", "recv", "try", "recvNext", "tryNext"}
  /\ received \in Seq(Msg)
  /\ eof \in BOOLEAN /\ missed \in BOOLEAN

\* The messages in all the nodes, in the order of the chain.
Contents == FlattenSeq([k \in 1..Len(nodes) |-> nodes[k].items])

Queue == INSTANCE Fifo WITH Msgs <- Msg, queue <- Contents, closed <- (closer # "idle")

\* TryRecv says false only when the queue is empty.
Missed == missed' /\ ~missed => Contents = <<>>

\* The chain of nodes behaves as one first-in first-out queue (doc of package
\* spsc): no message is lost, doubled or overtaken where the chain changes node,
\* Recv reports io.EOF only when the queue is closed and drained, and TryRecv says
\* false only when it is empty, even at the end of a node whose successor has not
\* been passed on yet.
IsFifo == Queue!Spec /\ [][Missed]_vars

Sending(p) == tx[p] # "idle"
Trying == rx \in {"try", "tryNext"}
Receiving == rx \in {"recv", "recvNext"}

\* Send never waits for the receiver: a full channel makes it link a new node.
\* TryRecv never waits for a message, only for a sender that is linking a node.
\* Recv returns when there is a message for it.
OperationsReturn ==
  /\ \A p \in Producers : Sending(p) ~> ~Sending(p)
  /\ Trying ~> ~Trying
  /\ (Receiving /\ Contents # <<>>) ~> ~Receiving

\* What the documentation of Recv says of a closed queue: every Recv returns.
RecvAfterClose == (rx = "recv" /\ closer = "done") ~> (rx = "idle")
===============================================================================
