----------------------- MODULE WorkerMessagingProofs -----------------------
(***************************************************************************)
(* Proofs about WorkerMessaging, for any number of workers and blobs and   *)
(* any capacity.                                                           *)
(***************************************************************************)
EXTENDS WorkerMessaging, SequenceTheorems, TLAPS

Places == WorkerPlaces \cup MainPlaces
InMessage == {"push", "cancel", "signal", "pop", "match", "holding", "arm", "forward"}
InAwait == {"await", "sleep", "join", "close", "outbox", "inbox", "release"}

\* Where a thread stands says what it names and what it has in its hands.
Statements ==
    /\ pc \in [Threads -> Places] /\ chan \in [Queues -> Seq(Blobs)]
    /\ \A w \in Workers : at[w] = w
    /\ \A t \in Threads :
         /\ pc[t] \in {"push", "signal", "holding"} => slot[t] # NULL
         /\ pc[t] = "forward" => bound[t] # NULL
         /\ pc[t] \in InMessage => at[t] \in Messaging
    /\ pc[Main] \in InAwait => at[Main] \in Workers
    /\ pc[Main] \in {"close", "outbox", "inbox"} => at[Main] \in Messaging

TInv == TypeOK /\ Statements

USE DEF Places, WorkerPlaces, MainPlaces, InMessage, InAwait

\* The program starts without workers, messages or queues.
LEMMA TInit == Init => TInv
<1> SUFFICES ASSUME Init PROVE TInv
  OBVIOUS
<1> USE ProgramAssumption
<1>1. chan \in [Queues -> Seq(Blobs)] /\ \A k \in Queues : Len(chan[k]) = 0
  BY DEF Init
<1>2. pc \in [Threads -> Places]
  BY DEF Init, Threads
<1>3. Statements
  BY <1>1, <1>2 DEF Init, Statements, Threads
<1>4. TypeOK
  BY <1>1, <1>2 DEF Init, TypeOK, Threads, Queues
<1> QED  BY <1>3, <1>4 DEF TInv

\* The queues of a statement.
LEMMA QueueNames ==
    ASSUME Statements, NEW t \in Threads, NEW w \in Workers
    PROVE  /\ SendQueue(t, w) \in Queues /\ ReceiveQueue(t, w) \in Queues
           /\ SendQueue(t, w) # ReceiveQueue(t, w)
           /\ (t # Main => w = t) =>
                 /\ SendQueue(t, w)[1] = w /\ ReceiveQueue(t, w)[1] = w
BY DEF SendQueue, ReceiveQueue, Queues, Threads

\* SPAWN: a new handle, and for a messaging worker two open queues.
LEMMA TypeSpawn ==
    ASSUME TInv, NEW w \in Workers, SpawnPlain(w) \/ Spawn(w) PROVE TInv'
<1> USE ProgramAssumption DEF TInv
<1>1. CASE SpawnPlain(w)
  <2>1. TypeOK'
    BY <1>1 DEF SpawnPlain, Goto, TypeOK, Statements, queue, blobs, Threads
  <2>2. Statements'
    BY <1>1 DEF SpawnPlain, Goto, TypeOK, Statements, queue, blobs, Threads
  <2> QED BY <2>1, <2>2
<1>2. CASE Spawn(w)
  <2>1. TypeOK'
    BY <1>2 DEF Spawn, Goto, TypeOK, Statements, blobs, Threads
  <2>2. Statements'
    BY <1>2 DEF Spawn, Goto, TypeOK, Statements, blobs, Threads
  <2> QED BY <2>1, <2>2
<1> QED BY <1>1, <1>2

\* SEND marshalls a fresh blob into the slot of the sender.
LEMMA TypeSend ==
    ASSUME TInv, NEW t \in Threads, NEW w \in Workers, NEW b \in Blobs, Send(t, w, b)
    PROVE  TInv'
<1> USE ProgramAssumption DEF TInv
<1>1. TypeOK'
  BY QueueNames, SMTT(60) DEF Send, Goto, Name, Named, TypeOK, Statements, queue, future, Threads
<1>2. Statements'
  BY DEF Send, Goto, Name, Named, TypeOK, Statements, queue, future, Threads
<1> QED BY <1>1, <1>2

\* A thread appends what it holds to the queue of its statement.
LEMMA PushFacts ==
    ASSUME TInv, NEW t \in Threads, Push(t) \/ PushForward(t)
    PROVE  \E b \in Blobs :
             LET k == SendQueue(t, at[t])
             IN  /\ at[t] \in Messaging /\ k \in Queues /\ ~IsFull(k)
                 /\ chan' = [chan EXCEPT ![k] = Append(chan[k], b)]
                 /\ slot' = [slot EXCEPT ![t] = NULL]
                 /\ \/ /\ pc[t] \in {"push", "signal"} /\ b = slot[t]
                       /\ pc' = [pc EXCEPT ![t] = "run"]
                    \/ /\ pc[t] = "forward" /\ b = bound[t]
                       /\ pc' = [pc EXCEPT ![t] = "arm"]
                 /\ UNCHANGED <<future, life, closed, cancelled, bound, sentTo,
                                made, freed, at, announced, saw>>
<1> USE DEF TInv
<1>1. at[t] \in Messaging /\ at[t] \in Workers
  BY ProgramAssumption DEF Statements, Push, PushForward
<1>2. SendQueue(t, at[t]) \in Queues
  BY <1>1, QueueNames
<1>3. CASE Push(t)
  <2>1. slot[t] \in Blobs
    BY <1>3 DEF Push, Statements, TypeOK
  <2> QED BY <1>1, <1>2, <1>3, <2>1 DEF Push, Goto
<1>4. CASE PushForward(t)
  <2>1. bound[t] \in Blobs
    BY <1>4 DEF PushForward, Statements, TypeOK
  <2> QED BY <1>1, <1>2, <1>4, <2>1 DEF PushForward, ForwardQueue, Goto
<1> QED BY <1>3, <1>4

\* A thread takes the head of the queue of its statement.
LEMMA PopFacts ==
    ASSUME TInv, NEW t \in Threads, Pop(t)
    PROVE  LET k == ReceiveQueue(t, at[t])
               b == Head(chan[k])
           IN  /\ at[t] \in Messaging /\ k \in Queues
               /\ chan[k] \in Seq(Blobs) /\ chan[k] # << >> /\ b \in Blobs
               /\ chan' = [chan EXCEPT ![k] = Tail(chan[k])]
               /\ slot' = [slot EXCEPT ![t] = b]
               /\ \/ /\ pc[t] = "pop" /\ bound' = bound
                     /\ pc' = [pc EXCEPT ![t] = "holding"]
                  \/ /\ pc[t] = "match" /\ bound' \in {bound, [bound EXCEPT ![t] = b]}
                     /\ pc' = [pc EXCEPT ![t] = "arm"]
               /\ UNCHANGED <<future, life, closed, cancelled, sentTo, made,
                              freed, at, announced, saw>>
<1> USE DEF TInv
<1>1. at[t] \in Messaging /\ at[t] \in Workers
  BY ProgramAssumption DEF Statements, Pop
<1>2. ReceiveQueue(t, at[t]) \in Queues
  BY <1>1, QueueNames
<1>3. chan[ReceiveQueue(t, at[t])] \in Seq(Blobs) /\ chan[ReceiveQueue(t, at[t])] # << >>
  BY <1>2 DEF Pop, Statements
<1>4. Head(chan[ReceiveQueue(t, at[t])]) \in Blobs
  BY <1>3
<1>5. CASE pc[t] = "pop"
  BY <1>1, <1>2, <1>3, <1>4, <1>5 DEF Pop, Goto
<1>6. CASE pc[t] = "match"
  BY <1>1, <1>2, <1>3, <1>4, <1>6 DEF Pop, Goto
<1> QED BY <1>5, <1>6 DEF Pop

\* The push of a SEND, or of a forward, appends to the queue or frees the blob.
LEMMA TypePush ==
    ASSUME TInv, NEW t \in Threads, Push(t) \/ PushForward(t)
    PROVE  TInv'
<1> USE ProgramAssumption DEF TInv
<1> DEFINE k == SendQueue(t, at[t])
<1>1. PICK b \in Blobs :
             /\ at[t] \in Messaging /\ k \in Queues /\ ~IsFull(k)
             /\ chan' = [chan EXCEPT ![k] = Append(chan[k], b)]
             /\ slot' = [slot EXCEPT ![t] = NULL]
             /\ \/ pc' = [pc EXCEPT ![t] = "run"]
                \/ pc[t] = "forward" /\ pc' = [pc EXCEPT ![t] = "arm"]
             /\ UNCHANGED <<future, life, closed, cancelled, bound, sentTo,
                            made, freed, at, announced, saw>>
  BY PushFacts
<1> HIDE DEF k
<1>2. chan' \in [Queues -> Seq(Blobs)] /\ \A q \in Queues : Len(chan'[q]) <= Capacity
  BY <1>1 DEF Statements, TypeOK, IsFull
<1>3. /\ pc' \in [Threads -> Places] /\ slot' \in [Threads -> Blobs \cup {NULL}]
      /\ pc'[t] \in {"run", "arm"} /\ \A u \in Threads \ {t} : pc'[u] = pc[u] /\ slot'[u] = slot[u]
  <2>1. PICK p \in {"run", "arm"} : pc' = [pc EXCEPT ![t] = p]
    BY <1>1
  <2>2. pc \in [Threads -> Places] /\ slot \in [Threads -> Blobs \cup {NULL}] /\ p \in Places
    BY DEF Statements, TypeOK
  <2> HIDE DEF Places
  <2> QED BY <1>1, <2>1, <2>2
<1>4. TypeOK'
  <2>1. /\ \A w \in Workers : pc'[w] \in WorkerPlaces
        /\ pc'[Main] \in MainPlaces
    BY <1>3 DEF TypeOK, Threads
  <2> QED BY <1>1, <1>2, <1>3, <2>1 DEF TypeOK, future
<1>5. Statements'
  BY <1>1, <1>2, <1>3 DEF Statements, future, Threads
<1> QED BY <1>4, <1>5

\* The pop of a RECEIVE takes the first blob of the queue.
LEMMA TypePop ==
    ASSUME TInv, NEW t \in Threads, Pop(t)
    PROVE  TInv'
<1> USE ProgramAssumption DEF TInv
<1> DEFINE k == ReceiveQueue(t, at[t])
           b == Head(chan[k])
<1>1. /\ at[t] \in Messaging /\ k \in Queues
      /\ chan[k] \in Seq(Blobs) /\ chan[k] # << >> /\ b \in Blobs
      /\ chan' = [chan EXCEPT ![k] = Tail(chan[k])]
      /\ slot' = [slot EXCEPT ![t] = b]
      /\ bound' \in {bound, [bound EXCEPT ![t] = b]}
      /\ pc[t] \in {"pop", "match"}
      /\ pc' \in {[pc EXCEPT ![t] = "holding"], [pc EXCEPT ![t] = "arm"]}
      /\ UNCHANGED <<future, life, closed, cancelled, sentTo, made,
                     freed, at, announced, saw>>
  BY PopFacts
<1>2. Tail(chan[k]) \in Seq(Blobs) /\ Len(Tail(chan[k])) <= Capacity
  BY <1>1 DEF TypeOK
<1> HIDE DEF k, b
<1>3. chan' \in [Queues -> Seq(Blobs)] /\ \A q \in Queues : Len(chan'[q]) <= Capacity
  BY <1>1, <1>2 DEF Statements, TypeOK
<1>4. /\ pc' \in [Threads -> Places] /\ pc'[t] \in {"holding", "arm"}
      /\ slot' \in [Threads -> Blobs \cup {NULL}] /\ slot'[t] = b
      /\ bound' \in [Threads -> Blobs \cup {NULL}]
      /\ \A u \in Threads \ {t} :
             pc'[u] = pc[u] /\ slot'[u] = slot[u] /\ bound'[u] = bound[u]
  <2>1. PICK p \in {"holding", "arm"} : pc' = [pc EXCEPT ![t] = p]
    BY <1>1
  <2>2. PICK c \in Blobs \cup {NULL} : bound' = [bound EXCEPT ![t] = c]
    BY <1>1 DEF TypeOK
  <2>3. /\ pc \in [Threads -> Places] /\ slot \in [Threads -> Blobs \cup {NULL}]
        /\ bound \in [Threads -> Blobs \cup {NULL}] /\ p \in Places
    BY DEF Statements, TypeOK
  <2> HIDE DEF Places
  <2> QED BY <1>1, <2>1, <2>2, <2>3
<1>5. TypeOK'
  <2>1. /\ \A w \in Workers : pc'[w] \in WorkerPlaces
        /\ pc'[Main] \in MainPlaces
    BY <1>4 DEF TypeOK, Threads
  <2> QED BY <1>1, <1>3, <1>4, <2>1 DEF TypeOK, future
<1>6. Statements'
  BY <1>1, <1>3, <1>4 DEF Statements, future, Threads
<1> QED BY <1>5, <1>6

\* HASMESSAGE, RECEIVE and a forward begin.
LEMMA TypeReceive ==
    ASSUME TInv, NEW t \in Threads, NEW w \in Workers,
           HasMessage(t, w) \/ Receive(t, w) \/ Forward(t, w)
    PROVE  TInv'
<1> USE ProgramAssumption DEF TInv
<1>0. SendQueue(t, w) \in Queues /\ ReceiveQueue(t, w) \in Queues
  BY QueueNames
<1>1. CASE HasMessage(t, w)
  <2>1. TypeOK'
    BY <1>0, <1>1 DEF HasMessage, TypeOK, queue, future, blobs
  <2>2. Statements'
    BY <1>1 DEF HasMessage, Statements, queue, future, blobs
  <2> QED BY <2>1, <2>2
<1>2. CASE Receive(t, w)
  <2>0. saw' \in [Workers -> {"unknown", "no", "yes"}]
    BY <1>2 DEF Receive, TypeOK
  <2>1. TypeOK'
    BY <1>0, <1>2, <2>0 DEF Receive, Goto, Name, Named, TypeOK, Statements, queue, future, blobs, Threads
  <2>2. Statements'
    BY <1>2 DEF Receive, Goto, Name, Named, TypeOK, Statements, queue, future, blobs, Threads
  <2> QED BY <2>1, <2>2
<1>3. CASE Forward(t, w)
  <2>1. TypeOK'
    BY <1>0, <1>3 DEF Forward, Goto, TypeOK, Statements, queue, future, Threads
  <2>2. Statements'
    BY <1>3 DEF Forward, Goto, TypeOK, Statements, queue, future, Threads
  <2> QED BY <2>1, <2>2
<1> QED BY <1>1, <1>2, <1>3

\* The unmarshalling and the end of a MATCH RECEIVE give a blob up.
LEMMA TypeEnds ==
    ASSUME TInv, NEW t \in Threads, Unmarshall(t) \/ EndMatch(t)
    PROVE  TInv'
<1> USE ProgramAssumption DEF TInv
<1>1. /\ pc[t] \in {"holding", "arm"} /\ pc' = [pc EXCEPT ![t] = "run"]
      /\ slot' = [slot EXCEPT ![t] = NULL]
      /\ bound' \in {bound, [bound EXCEPT ![t] = NULL]}
      /\ freed' \subseteq freed \cup ({slot[t]} \ {NULL})
      /\ UNCHANGED <<future, queue, sentTo, made, at, announced, saw>>
  BY DEF Unmarshall, EndMatch, Goto, Statements
<1>2. bound' \in [Threads -> Blobs \cup {NULL}] /\ freed' \subseteq Blobs
  BY <1>1 DEF TypeOK
<1>3. \A u \in Threads \ {t} : bound'[u] = bound[u]
  BY <1>1 DEF TypeOK
<1>4. TypeOK'
  BY <1>1, <1>2 DEF TypeOK, Statements, queue, future, Threads
<1>5. Statements'
  BY <1>1, <1>3 DEF TypeOK, Statements, queue, future, Threads
<1> QED BY <1>4, <1>5

\* CANCEL, CANCELLED and READY.
LEMMA TypeCancel ==
    ASSUME TInv,
           \/ \E w \in Workers : Cancel(w) \/ IsCancelled(w) \/ Ready(w)
           \/ Cancelling
    PROVE  TInv'
<1> USE ProgramAssumption DEF TInv
<1>1. ASSUME NEW w \in Workers, Cancel(w) PROVE TInv'
  <2>1. TypeOK'
    BY <1>1 DEF Cancel, Goto, Name, Named, TypeOK, Statements, future, blobs, Threads
  <2>2. Statements'
    BY <1>1 DEF Cancel, Goto, Name, Named, TypeOK, Statements, future, blobs, Threads
  <2> QED BY <2>1, <2>2
<1>2. ASSUME NEW w \in Workers, IsCancelled(w) PROVE TInv'
  <2>1. TypeOK'
    BY <1>2 DEF IsCancelled, TypeOK, queue, future, blobs
  <2>2. Statements'
    BY <1>2 DEF IsCancelled, Statements, queue, future, blobs
  <2> QED BY <2>1, <2>2
<1>3. ASSUME NEW w \in Workers, Ready(w) PROVE TInv'
  <2>1. TypeOK'
    BY <1>3 DEF Ready, TypeOK, queue, blobs, control
  <2>2. Statements'
    BY <1>3 DEF Ready, Statements, queue, blobs, control
  <2> QED BY <2>1, <2>2
<1>4. ASSUME NEW b \in Blobs, MarshallSignal(b) PROVE TInv'
  <2>1. at[Main] \in Workers /\ SendQueue(Main, at[Main]) \in Queues
    BY <1>4, QueueNames DEF MarshallSignal, Statements, Threads
  <2>2. TypeOK'
    BY <2>1, <1>4 DEF MarshallSignal, Goto, TypeOK, Statements, queue, future, Threads
  <2>3. Statements'
    BY <1>4 DEF MarshallSignal, Goto, TypeOK, Statements, queue, future, Threads
  <2> QED BY <2>2, <2>3
<1> QED BY <1>1, <1>2, <1>3, <1>4 DEF Cancelling

\* A worker returns, its thread ends, and AWAIT begins.
LEMMA TypeReturns ==
    ASSUME TInv, NEW w \in Workers, Complete(w) \/ ThreadEnds(w) \/ Await(w)
    PROVE  TInv'
<1> USE ProgramAssumption DEF TInv
<1>1. CASE Complete(w)
  <2>1. /\ pc' \in [Threads -> Places] /\ pc'[w] = "finish"
        /\ \A t \in Workers \ {w} : pc'[t] = pc[t]
        /\ pc'[Main] = pc[Main] \/ (pc[Main] = "sleep" /\ pc'[Main] = "await")
    BY <1>1 DEF Complete, Statements, Threads
  <2>2. TypeOK'
    BY <2>1, <1>1 DEF Complete, TypeOK, Statements, queue, blobs, Threads
  <2>3. Statements'
    BY <2>1, <1>1 DEF Complete, Statements, queue, blobs, Threads
  <2> QED BY <2>2, <2>3
<1>2. CASE ThreadEnds(w)
  <2>1. TypeOK'
    BY <1>2 DEF ThreadEnds, Goto, TypeOK, Statements, queue, future, blobs, Threads
  <2>2. Statements'
    BY <1>2 DEF ThreadEnds, Goto, TypeOK, Statements, queue, future, blobs, Threads
  <2> QED BY <2>1, <2>2
<1>3. CASE Await(w)
  <2>1. TypeOK'
    BY <1>3 DEF Await, Goto, Name, TypeOK, Statements, queue, future, blobs, Threads
  <2>2. Statements'
    BY <1>3 DEF Await, Goto, Name, TypeOK, Statements, queue, future, blobs, Threads
  <2> QED BY <2>1, <2>2
<1> QED BY <1>1, <1>2, <1>3

\* The steps of AWAIT and the end of the program.
LEMMA TypeAwaiting ==
    ASSUME TInv, Awaiting \/ AwaitWakes \/ ProgramEnds
    PROVE  TInv'
<1> USE ProgramAssumption DEF TInv
<1>1. ASSUME NEW p \in {"await", "sleep", "close", "release"},
             pc' = [pc EXCEPT ![Main] = p], pc[Main] \in InAwait,
             p = "close" => at[Main] \in Messaging,
             UNCHANGED <<future, queue, blobs, at, announced, saw>>
      PROVE  TInv'
  <2>1. TypeOK'
    BY <1>1 DEF TypeOK, Statements, queue, future, blobs, Threads
  <2>2. Statements'
    BY <1>1 DEF TypeOK, Statements, queue, future, blobs, Threads
  <2> QED BY <2>1, <2>2
<1>2. CASE AwaitReads
  <2>1. TypeOK'
    BY <1>2 DEF AwaitReads, Goto, TypeOK, Statements, queue, blobs, Threads
  <2>2. Statements'
    BY <1>2 DEF AwaitReads, Goto, TypeOK, Statements, queue, blobs, Threads
  <2> QED BY <2>1, <2>2
<1>3. CASE CloseBoth
  <2>1. TypeOK'
    BY <1>3 DEF CloseBoth, Goto, TypeOK, Statements, future, blobs, Threads
  <2>2. Statements'
    BY <1>3 DEF CloseBoth, Goto, TypeOK, Statements, future, blobs, Threads
  <2> QED BY <2>1, <2>2
<1>4. ASSUME NEW side \in {"outbox", "inbox"}, NEW next \in {"inbox", "release"},
             next = "inbox" <=> side = "outbox", Destroy(side, next)
      PROVE  TInv'
  <2> DEFINE k == <<at[Main], side>>
             gone == {chan[k][i] : i \in DOMAIN chan[k]}
  <2>1. k \in Queues /\ Main \in Threads /\ at[Main] \in Messaging
    BY <1>4 DEF Destroy, Statements, Queues, Threads
  <2>2. gone \subseteq Blobs
    BY <2>1 DEF Statements
  <2>3. /\ freed' = freed \cup gone /\ chan' = [chan EXCEPT ![k] = << >>]
        /\ life' = [life EXCEPT ![k] = "freed"]
        /\ pc' = [pc EXCEPT ![Main] = next] /\ pc[Main] = side
    BY <1>4 DEF Destroy, Goto
  <2> HIDE DEF k, gone
  <2>4. chan' \in [Queues -> Seq(Blobs)] /\ \A q \in Queues : Len(chan'[q]) <= Capacity
    <3>1. << >> \in Seq(Blobs) /\ Len(<< >>) = 0
      OBVIOUS
    <3> QED BY <3>1, <2>1, <2>3 DEF Statements, TypeOK
  <2>5. TypeOK'
    BY <2>1, <2>2, <2>3, <2>4, <1>4 DEF Destroy, TypeOK, Statements, future, Threads
  <2>6. Statements'
    BY <2>1, <2>3, <2>4, <1>4 DEF Destroy, Statements, future, Threads
  <2> QED BY <2>5, <2>6
<1>5. CASE ReleaseHandle
  <2>1. TypeOK'
    BY <1>5 DEF ReleaseHandle, Goto, TypeOK, Statements, queue, blobs, Threads
  <2>2. Statements'
    BY <1>5 DEF ReleaseHandle, Goto, TypeOK, Statements, queue, blobs, Threads
  <2> QED BY <2>1, <2>2
<1>6. CASE ProgramEnds
  <2>1. TypeOK'
    BY <1>6 DEF ProgramEnds, TypeOK, Statements, queue, future, blobs, Threads
  <2>2. Statements'
    BY <1>6 DEF ProgramEnds, Statements, queue, future, blobs, Threads
  <2> QED BY <2>1, <2>2
<1>7. CASE AwaitSleeps
  BY <1>1, <1>7 DEF AwaitSleeps, Goto
<1>8. CASE AwaitWakes
  BY <1>1, <1>8 DEF AwaitWakes, Goto
<1>9. CASE Join
  <2>1. CASE at[Main] \in Messaging
    BY <1>1, <1>9, <2>1 DEF Join, Goto
  <2>2. CASE at[Main] \notin Messaging
    BY <1>1, <1>9, <2>2 DEF Join, Goto
  <2> QED BY <2>1, <2>2
<1> QED BY <1>2, <1>3, <1>4, <1>5, <1>6, <1>7, <1>8, <1>9 DEF Awaiting

\* Every step keeps the types.
LEMMA TypeStep == TInv /\ [Next]_vars => TInv'
<1> SUFFICES ASSUME TInv, [Next]_vars PROVE TInv'
  OBVIOUS
<1>1. ASSUME NEW t \in Threads, Begin(t) PROVE TInv'
  BY <1>1, TypeSend, TypeReceive DEF Begin
<1>2. ASSUME NEW t \in Threads, Continue(t) PROVE TInv'
  BY <1>2, TypePush, TypePop, TypeEnds DEF Continue
<1>3. ASSUME NEW w \in Workers, IsCancelled(w) \/ Complete(w) \/ ThreadEnds(w) PROVE TInv'
  BY <1>3, TypeCancel, TypeReturns
<1>4. CASE BeginMain
  BY <1>4, TypeSpawn, TypeCancel, TypeReturns DEF BeginMain
<1>5. CASE Cancelling
  BY <1>5, TypeCancel
<1>6. CASE Awaiting \/ AwaitWakes \/ ProgramEnds
  BY <1>6, TypeAwaiting
<1>7. CASE UNCHANGED vars
  BY <1>7 DEF vars, future, queue, blobs, control, TInv, TypeOK, Statements
<1> QED BY <1>1, <1>2, <1>3, <1>4, <1>5, <1>6, <1>7 DEF Next

\* Whatever statements main and the workers run, in whatever order, handles, queues,
\* slots and blobs stay in their types (worker_runtime.c, messaging.zig).
THEOREM TypeCorrect == Spec => []TypeOK
<1>1. TInv => TypeOK
  BY DEF TInv
<1> QED BY <1>1, TInit, TypeStep, PTL DEF Spec

-----------------------------------------------------------------------------
\* The queues that AWAIT closes, and those it has destroyed already.
Closing(k) == at[Main] = k[1] /\ pc[Main] \in {"outbox", "inbox", "release"}
Destroyed(k) == /\ at[Main] = k[1]
                /\ pc[Main] = "release" \/ (pc[Main] = "inbox" /\ k[2] = "outbox")

\* When a handle and a queue are allocated, seen from where the threads stand.
HandleLives(w) == /\ handle[w] = "none" <=> pc[w] = "none"
                  /\ handle[w] = "freed" => pc[w] = "exited"
NamedLives ==
    /\ pc[Main] \in InMessage \cup InAwait => handle[at[Main]] = "live"
    /\ pc[Main] \in {"close", "outbox", "inbox", "release"} => pc[at[Main]] = "exited"
QueueLives(k) ==
    /\ life[k] = "live" <=>
          k[1] \in Messaging /\ handle[k[1]] = "live" /\ ~Destroyed(k)
    /\ closed[k] => handle[k[1]] = "freed" \/ Closing(k)
    /\ chan[k] # << >> => life[k] = "live"
Lives == /\ \A w \in Workers : HandleLives(w)
         /\ NamedLives
         /\ \A k \in Queues : QueueLives(k)

\* What AWAIT and READY read.
Results ==
    /\ \A w \in Workers : result[w] = done[w] /\ got[w] # FALSE
    /\ \A w \in ready : done[w]
    /\ pc[Main] = "sleep" => ~done[at[Main]]

\* What a thread has in its hands, in a program that sends the variable of an
\* arm at most once.
Hand(t) ==
    /\ pc[t] = "forward" => bound[t] = slot[t]
    /\ pc[t] = "arm" => slot[t] = NULL \/ bound[t] \in {NULL, slot[t]}
    /\ pc[t] \notin {"arm", "forward", "finish", "exited"} => bound[t] = NULL
    /\ slot[t] # NULL => pc[t] \in {"push", "signal", "holding", "arm", "forward",
                                   "finish", "exited"}
Hands == \A t \in Threads : Hand(t)

\* ... and does not return inside one.
NothingKept ==
    \A w \in Workers :
        pc[w] \in {"finish", "exited"} /\ pc[Main] # "exited" => slot[w] = NULL

-----------------------------------------------------------------------------
\* Nothing is in use before the first SPAWN.
LEMMA LivesInit == Init => Lives /\ Results
<1> SUFFICES ASSUME Init PROVE Lives /\ Results
  OBVIOUS
<1> USE ProgramAssumption
<1>1. \A k \in Queues : life[k] = "none" /\ chan[k] = << >> /\ closed[k] = FALSE /\ k[1] \in Workers
  BY DEF Init, Queues
<1>2. pc[Main] = "run" /\ \A w \in Workers : handle[w] = "none" /\ pc[w] = "none"
  BY DEF Init, Threads
<1>3. Lives
  BY <1>1, <1>2 DEF Init, Lives, HandleLives, NamedLives, QueueLives, Closing, Destroyed
<1>4. Results
  BY <1>2 DEF Init, Results
<1> QED BY <1>3, <1>4

\* Lives says of every thread inside a statement that what it uses is there.
LEMMA LivesUses == TInv /\ Lives => UsesAreLive
<1> SUFFICES ASSUME TInv, Lives, NEW t \in Threads
             PROVE  /\ Using(t) => handle[at[t]] = "live"
                    /\ InQueue(t) => \A k \in Queues :
                           k[1] = at[t] => life[k] = "live" /\ ~closed[k]
  BY DEF UsesAreLive
<1> USE ProgramAssumption DEF TInv, Threads
<1>1. Using(t) => handle[at[t]] = "live"
  BY DEF Using, Lives, HandleLives, NamedLives, Statements, TypeOK
<1>2. ASSUME InQueue(t), NEW k \in Queues, k[1] = at[t]
      PROVE  life[k] = "live" /\ ~closed[k]
  <2>1. Using(t) /\ at[t] \in Messaging /\ handle[at[t]] = "live"
    BY <1>1, <1>2 DEF InQueue, Using, Statements
  <2>2. ~Destroyed(k) /\ ~Closing(k)
    <3>1. CASE t = Main
      BY <1>2, <3>1 DEF InQueue, Destroyed, Closing
    <3>2. CASE t \in Workers
      BY <1>2, <3>2 DEF InQueue, Destroyed, Closing, Lives, NamedLives, Statements
    <3> QED BY <3>1, <3>2
  <2> QED BY <1>2, <2>1, <2>2 DEF Lives, QueueLives, TypeOK
<1> QED BY <1>1, <1>2

\* What the statements about messages have in common: one thread, on its way
\* inside a statement on an allocated handle, and no queue that comes or goes.
MessageStep(t) ==
    /\ UNCHANGED <<handle, life, closed, done, result, ready, got>>
    /\ pc[t] \in InMessage \cup {"run"} /\ pc'[t] \in InMessage \cup {"run"}
    /\ \A u \in Threads \ {t} : pc'[u] = pc[u] /\ at'[u] = at[u]
    /\ pc'[t] \in InMessage => handle[at'[t]] = "live"
    /\ \A k \in Queues : chan'[k] # << >> => chan[k] # << >> \/ life[k] = "live"

\* A step of the messaging statements leaves handles and results alone.
LEMMA LivesMessageStep ==
    ASSUME TInv, Lives, Results, NEW t \in Threads, MessageStep(t)
    PROVE  Lives' /\ Results'
<1> USE ProgramAssumption DEF TInv, Threads
<1>1. /\ pc'[Main] \in {"close", "outbox", "inbox", "release", "sleep"} <=>
            pc[Main] \in {"close", "outbox", "inbox", "release", "sleep"}
      /\ pc[Main] \in InAwait => pc'[Main] = pc[Main] /\ at'[Main] = at[Main] /\ t # Main
  BY DEF MessageStep
<1>2. \A k \in Queues : Destroyed(k)' = Destroyed(k) /\ Closing(k)' = Closing(k)
  BY <1>1 DEF MessageStep, Destroyed, Closing
<1>3. Lives'
  <2>1. ASSUME NEW w \in Workers PROVE HandleLives(w)'
    BY DEF MessageStep, Lives, HandleLives
  <2>2. NamedLives'
    BY <1>1 DEF MessageStep, Lives, NamedLives, Statements
  <2>3. ASSUME NEW k \in Queues PROVE QueueLives(k)'
    BY <1>2 DEF MessageStep, Lives, QueueLives
  <2> QED BY <2>1, <2>2, <2>3 DEF Lives
<1>4. Results'
  BY <1>1 DEF MessageStep, Results
<1> QED BY <1>3, <1>4

\* Which actions are steps of that kind.
LEMMA MessageSteps ==
    ASSUME TInv, Lives, NEW t \in Threads,
           \/ Begin(t) \/ Continue(t)
           \/ t = Main /\ (Cancelling \/ \E w \in Workers : Cancel(w))
           \/ t \in Workers /\ IsCancelled(t)
    PROVE  MessageStep(t)
<1> USE ProgramAssumption DEF TInv, Threads
<1>1. \A k \in Queues : InQueue(t) /\ k[1] = at[t] => life[k] = "live"
  BY LivesUses DEF UsesAreLive
<1>2. Using(t) => handle[at[t]] = "live"
  BY LivesUses DEF UsesAreLive
<1>3. \A w \in Workers : w \in Named(t) /\ pc[t] = "run" => handle[w] = "live"
  BY DEF Named, Lives, HandleLives, TypeOK
<1>4. ASSUME NEW w \in Workers, NEW b \in Blobs, Send(t, w, b) PROVE MessageStep(t)
  BY <1>3, <1>4 DEF Send, Goto, Name, Statements, TypeOK, queue, future, MessageStep
<1>5. ASSUME NEW w \in Workers, HasMessage(t, w) PROVE MessageStep(t)
  BY <1>5 DEF HasMessage, queue, future, blobs, MessageStep
<1>6. ASSUME NEW w \in Workers, Receive(t, w) PROVE MessageStep(t)
  BY <1>3, <1>6 DEF Receive, Goto, Name, Statements, TypeOK, queue, future, blobs, MessageStep
<1>7. ASSUME NEW w \in Workers, Forward(t, w) PROVE MessageStep(t)
  BY <1>2, <1>7 DEF Using, Forward, Goto, Statements, TypeOK, queue, future, blobs, MessageStep
<1>8. CASE Push(t) \/ PushForward(t)
  <2> DEFINE k == SendQueue(t, at[t])
  <2>1. PICK b \in Blobs :
            /\ at[t] \in Messaging /\ k \in Queues
            /\ chan' = [chan EXCEPT ![k] = Append(chan[k], b)]
            /\ \/ pc[t] \in {"push", "signal"} /\ pc' = [pc EXCEPT ![t] = "run"]
               \/ pc[t] = "forward" /\ pc' = [pc EXCEPT ![t] = "arm"]
            /\ UNCHANGED <<future, life, closed, at>>
    BY <1>8, PushFacts
  <2>2. k[1] = at[t]
    BY <2>1, QueueNames DEF Statements
  <2>3. InQueue(t) /\ Using(t)
    BY <2>1 DEF InQueue, Using
  <2>4. life[k] = "live"
    BY <1>1, <2>1, <2>2, <2>3
  <2> HIDE DEF k
  <2>5. \A q \in Queues : chan'[q] # << >> => chan[q] # << >> \/ life[q] = "live"
    BY <2>1, <2>4 DEF Statements
  <2> QED BY <1>2, <2>1, <2>3, <2>5 DEF Statements, future, MessageStep
<1>9. CASE Pop(t)
  <2> DEFINE k == ReceiveQueue(t, at[t])
  <2>1. /\ k \in Queues /\ chan[k] # << >>
        /\ chan' = [chan EXCEPT ![k] = Tail(chan[k])]
        /\ \/ pc[t] = "pop" /\ pc' = [pc EXCEPT ![t] = "holding"]
           \/ pc[t] = "match" /\ pc' = [pc EXCEPT ![t] = "arm"]
        /\ UNCHANGED <<future, life, closed, at>>
    BY <1>9, PopFacts
  <2> HIDE DEF k
  <2>2. \A q \in Queues : chan'[q] # << >> => chan[q] # << >>
    BY <2>1 DEF Statements
  <2>3. Using(t)
    BY <2>1 DEF Using
  <2> QED BY <1>2, <2>1, <2>2, <2>3 DEF Statements, future, MessageStep
<1>10. CASE Unmarshall(t) \/ EndMatch(t)
  BY <1>10 DEF Unmarshall, EndMatch, Goto, Statements, queue, future, MessageStep
<1>11. ASSUME t = Main, NEW w \in Workers, Cancel(w) PROVE MessageStep(t)
  BY <1>3, <1>11 DEF Cancel, Goto, Name, Statements, TypeOK, future, blobs, MessageStep
<1>12. ASSUME t = Main, NEW b \in Blobs, MarshallSignal(b) PROVE MessageStep(t)
  BY <1>2, <1>12 DEF Using, MarshallSignal, Goto, Statements, TypeOK, queue, future, MessageStep
<1>13. CASE t \in Workers /\ IsCancelled(t)
  BY <1>13 DEF IsCancelled, queue, future, blobs, MessageStep
<1> QED BY <1>4, <1>5, <1>6, <1>7, <1>8, <1>9, <1>10, <1>11, <1>12, <1>13
        DEF Begin, Continue, Cancelling

\* SPAWN makes the handle, and the queues, that its threads then use.
LEMMA LivesSpawn ==
    ASSUME TInv, Lives, Results, NEW w \in Workers, SpawnPlain(w) \/ Spawn(w)
    PROVE  Lives' /\ Results'
<1> USE ProgramAssumption DEF TInv, Threads
<1>1. /\ pc[Main] = "run" /\ pc[w] = "none" /\ handle[w] = "none"
      /\ handle' = [handle EXCEPT ![w] = "live"] /\ pc' = [pc EXCEPT ![w] = "run"]
      /\ \A k \in Queues : life'[k] = IF k[1] = w /\ w \in Messaging THEN "live" ELSE life[k]
      /\ UNCHANGED <<done, result, ready, got, chan, closed, at>>
  BY DEF SpawnPlain, Spawn, Goto, Lives, HandleLives, queue
<1>2. /\ pc'[Main] = "run" /\ pc' \in [Threads -> Places]
      /\ handle'[w] = "live" /\ \A v \in Workers \ {w} : pc'[v] = pc[v] /\ handle'[v] = handle[v]
  BY <1>1 DEF Statements, TypeOK
<1>3. ASSUME NEW k \in Queues PROVE QueueLives(k)'
  <2>1. k[1] \in Workers
    BY DEF Queues
  <2>2. CASE k[1] = w
    BY <1>1, <1>2, <2>2 DEF Lives, QueueLives, Closing, Destroyed
  <2>3. CASE k[1] # w
    BY <1>1, <1>2, <2>1, <2>3 DEF Lives, QueueLives, Closing, Destroyed
  <2> QED BY <2>2, <2>3
<1>4. ASSUME NEW v \in Workers PROVE HandleLives(v)'
  BY <1>1, <1>2 DEF Lives, HandleLives
<1>5. NamedLives'
  BY <1>2 DEF NamedLives
<1>6. Results'
  BY <1>1, <1>2 DEF Results
<1> QED BY <1>3, <1>4, <1>5, <1>6 DEF Lives

\* A worker stores its result before it says that it is done, and READY reads it.
LEMMA LivesWorker ==
    ASSUME TInv, Lives, Results, NEW w \in Workers,
           Complete(w) \/ ThreadEnds(w) \/ Ready(w)
    PROVE  Lives' /\ Results'
<1> USE ProgramAssumption DEF TInv, Threads
<1>1. CASE Ready(w)
  <2>1. Lives'
    BY <1>1 DEF Ready, Lives, HandleLives, NamedLives, QueueLives, Closing, Destroyed,
                queue, blobs, control
  <2>2. Results'
    BY <1>1 DEF Ready, Results, control
  <2> QED BY <2>1, <2>2
<1>2. CASE Complete(w) \/ ThreadEnds(w)
  <2>1. /\ pc[w] \notin {"none", "exited"} /\ pc'[w] \in {"finish", "exited"}
        /\ \A v \in Workers \ {w} : pc'[v] = pc[v]
        /\ \/ pc'[Main] = pc[Main]
           \/ pc[Main] = "sleep" /\ pc'[Main] = "await"
        /\ UNCHANGED <<handle, life, chan, closed, at, ready, got>>
    <3>1. CASE Complete(w)
      BY <3>1 DEF Complete, MayReturn, Statements, queue
    <3>2. CASE ThreadEnds(w)
      BY <3>2 DEF ThreadEnds, Goto, Statements, queue, future
    <3> QED BY <1>2, <3>1, <3>2
  <2>2. ASSUME NEW k \in Queues PROVE QueueLives(k)'
    BY <2>1 DEF Lives, QueueLives, Closing, Destroyed
  <2>3. ASSUME NEW v \in Workers PROVE HandleLives(v)'
    BY <2>1 DEF Lives, HandleLives
  <2>4. NamedLives'
    BY <2>1 DEF Lives, NamedLives, Statements
  <2>5. Results'
    <3>1. CASE Complete(w)
      <4>1. done' = [done EXCEPT ![w] = TRUE] /\ result' = [result EXCEPT ![w] = TRUE]
        BY <3>1 DEF Complete
      <4>2. \A v \in Workers : result'[v] = done'[v] /\ (done[v] => done'[v])
        <5>1. /\ done \in [Workers -> BOOLEAN] /\ DOMAIN result = Workers
              /\ \A v \in Workers : result[v] = done[v]
          BY DEF Results, TypeOK
        <5>2. done'[w] = TRUE /\ result'[w] = TRUE
          BY <4>1, <5>1
        <5>3. ASSUME NEW v \in Workers, v # w
              PROVE  done'[v] = done[v] /\ result'[v] = result[v]
          BY <4>1, <5>1, <5>3
        <5> QED BY <5>1, <5>2, <5>3
      <4>3. pc'[Main] = "sleep" => at[Main] # w
        BY <3>1 DEF Complete, Statements
      <4>4. pc'[Main] = "sleep" => ~done'[at'[Main]]
        BY <2>1, <4>1, <4>3 DEF Results, Statements, TypeOK
      <4> QED BY <2>1, <4>2, <4>4 DEF Results, TypeOK
    <3>2. CASE ThreadEnds(w)
      BY <2>1, <3>2 DEF ThreadEnds, Results, future
    <3> QED BY <1>2, <3>1, <3>2
  <2> QED BY <2>2, <2>3, <2>4, <2>5 DEF Lives
<1> QED BY <1>1, <1>2

\* AWAIT waits for the worker, joins it, closes and frees its queues and the handle,
\* in this order; nobody but main can then name them.
LEMMA LivesAwait ==
    ASSUME TInv, Lives, Results,
           AwaitWakes \/ Awaiting \/ ProgramEnds \/ \E w \in Workers : Await(w)
    PROVE  Lives' /\ Results'
<1> USE ProgramAssumption DEF TInv, Threads
<1>1. \A k \in Queues : k[1] \in Workers
  BY DEF Queues
<1>2. ASSUME NEW p \in InAwait, pc' = [pc EXCEPT ![Main] = p],
             pc[Main] \in InAwait \cup {"run"}, at'[Main] \in Workers,
             handle[at'[Main]] = "live",
             UNCHANGED <<handle, life, closed, done, result, ready, chan>>,
             \A w \in Workers : got'[w] \in {got[w], done[w]},
             \A w \in Workers : got'[w] # got[w] => got'[w] = TRUE,
             pc[Main] \notin {"outbox", "inbox", "release"},
             p \notin {"outbox", "inbox"},
             p \in {"close", "release"} => pc[at'[Main]] = "exited",
             p = "release" => at'[Main] \notin Messaging,
             p = "sleep" => ~done[at'[Main]]
      PROVE  Lives' /\ Results'
  <2>1. pc'[Main] = p /\ \A w \in Workers : pc'[w] = pc[w]
    BY <1>2 DEF Statements
  <2>2. ASSUME NEW k \in Queues PROVE QueueLives(k)'
    BY <1>1, <1>2, <2>1 DEF Lives, QueueLives, Closing, Destroyed
  <2>3. ASSUME NEW v \in Workers PROVE HandleLives(v)'
    BY <1>2, <2>1 DEF Lives, HandleLives
  <2>4. NamedLives'
    BY <1>2, <2>1 DEF NamedLives
  <2>5. Results'
    BY <1>2, <2>1 DEF Results
  <2> QED BY <2>2, <2>3, <2>4, <2>5 DEF Lives
<1>3. ASSUME NEW w \in Workers, Await(w) PROVE Lives' /\ Results'
  <2>1. at'[Main] = w
    BY <1>3 DEF Await, Name, TypeOK
  <2> QED BY <1>2, <1>3, <2>1 DEF Await, Goto, future, queue
<1>4. pc[Main] \in InAwait => at[Main] \in Workers /\ handle[at[Main]] = "live"
  BY DEF Statements, Lives, NamedLives
<1>5. CASE AwaitSleeps \/ AwaitWakes
  BY <1>2, <1>4, <1>5 DEF AwaitSleeps, AwaitWakes, Goto, future, queue
<1>6. CASE AwaitReads
  <2>1. \A w \in Workers : got'[w] \in {got[w], done[w]} /\ (got'[w] # got[w] => got'[w] = TRUE)
    <3> DEFINE v == at[Main]
    <3>1. /\ got' = [got EXCEPT ![v] = result[v]] /\ DOMAIN got = Workers
          /\ v \in Workers /\ result[v] = done[v] /\ done[v] = TRUE
      BY <1>4, <1>6 DEF AwaitReads, Results, TypeOK
    <3> HIDE DEF v
    <3>2. got'[v] = TRUE
      BY <3>1
    <3>3. ASSUME NEW w \in Workers, w # v PROVE got'[w] = got[w]
      BY <3>1, <3>3
    <3> QED BY <3>1, <3>2, <3>3
  <2> QED BY <1>2, <1>4, <1>6, <2>1 DEF AwaitReads, Goto, queue
<1>7. CASE Join
  BY <1>2, <1>4, <1>7 DEF Join, Goto, future, queue
<1>8. CASE CloseBoth
  <2>1. /\ pc[Main] = "close" /\ pc'[Main] = "outbox" /\ \A w \in Workers : pc'[w] = pc[w]
        /\ UNCHANGED <<handle, life, chan, at, done, result, ready, got>>
        /\ \A k \in Queues : closed'[k] => closed[k] \/ k[1] = at[Main]
    BY <1>8 DEF CloseBoth, Goto, Statements, future
  <2>2. ASSUME NEW k \in Queues PROVE QueueLives(k)'
    BY <2>1 DEF Lives, QueueLives, Closing, Destroyed
  <2>3. ASSUME NEW v \in Workers PROVE HandleLives(v)'
    BY <2>1 DEF Lives, HandleLives
  <2>4. NamedLives'
    BY <2>1 DEF Lives, NamedLives, Statements
  <2> QED BY <2>1, <2>2, <2>3, <2>4 DEF Lives, Results
<1>9. ASSUME NEW side \in {"outbox", "inbox"}, NEW next \in {"inbox", "release"},
             next = "inbox" <=> side = "outbox", Destroy(side, next)
      PROVE  Lives' /\ Results'
  <2> DEFINE q == <<at[Main], side>>
  <2>1. /\ pc[Main] = side /\ pc'[Main] = next /\ \A w \in Workers : pc'[w] = pc[w]
        /\ UNCHANGED <<handle, at, closed, done, result, ready, got>>
        /\ chan' = [chan EXCEPT ![q] = << >>] /\ life' = [life EXCEPT ![q] = "freed"]
    BY <1>9 DEF Destroy, Goto, Statements, future
  <2>2. q \in Queues
    BY <2>1, <1>4 DEF Queues
  <2>3. ASSUME NEW k \in Queues PROVE QueueLives(k)'
    <3>1. CASE k = q
      <4>1. Destroyed(k)' /\ life'[k] = "freed" /\ chan'[k] = << >>
        BY <1>9, <2>1, <2>2, <3>1 DEF Destroyed, Statements, TypeOK
      <4>2. closed'[k] => Closing(k)'
        BY <1>9, <2>1, <2>2, <3>1 DEF Closing
      <4> QED BY <4>1, <4>2 DEF QueueLives
    <3>2. CASE k # q
      <4>1. life'[k] = life[k] /\ chan'[k] = chan[k] /\ closed'[k] = closed[k]
        BY <2>1, <2>2, <3>2 DEF Statements, TypeOK
      <4>2. k[1] # at[Main] \/ k[2] # side
        BY <3>2 DEF Queues
      <4>3. k[2] \in {"outbox", "inbox"}
        BY DEF Queues
      <4>4. Destroyed(k)' = Destroyed(k) /\ Closing(k)' = Closing(k)
        BY <1>9, <2>1, <4>2, <4>3 DEF Destroyed, Closing
      <4> QED BY <2>1, <4>1, <4>4 DEF Lives, QueueLives
    <3> QED BY <3>1, <3>2
  <2>4. ASSUME NEW v \in Workers PROVE HandleLives(v)'
    BY <2>1 DEF Lives, HandleLives
  <2>5. NamedLives'
    BY <1>4, <1>9, <2>1 DEF Lives, NamedLives, Statements
  <2>6. Results'
    BY <1>9, <2>1 DEF Results
  <2> QED BY <2>3, <2>4, <2>5, <2>6 DEF Lives
<1>10. CASE ReleaseHandle
  <2> DEFINE w == at[Main]
  <2>1. /\ pc[Main] = "release" /\ pc'[Main] = "run" /\ \A v \in Workers : pc'[v] = pc[v]
        /\ w \in Workers /\ handle'[w] = "freed"
        /\ \A v \in Workers \ {w} : handle'[v] = handle[v]
        /\ UNCHANGED <<life, chan, at, closed, done, result, ready, got>>
    BY <1>4, <1>10 DEF ReleaseHandle, Goto, Statements, TypeOK, queue
  <2>2. ASSUME NEW k \in Queues PROVE QueueLives(k)'
    <3>1. CASE k[1] = w
      BY <2>1, <3>1 DEF Lives, QueueLives, Closing, Destroyed
    <3>2. CASE k[1] # w
      BY <1>1, <2>1, <3>2 DEF Lives, QueueLives, Closing, Destroyed
    <3> QED BY <3>1, <3>2
  <2>3. ASSUME NEW v \in Workers PROVE HandleLives(v)'
    BY <2>1 DEF Lives, HandleLives, NamedLives
  <2>4. NamedLives'
    BY <2>1 DEF NamedLives
  <2> QED BY <2>1, <2>2, <2>3, <2>4 DEF Lives, Results
<1>11. CASE ProgramEnds
  <2>1. /\ pc[Main] = "run" /\ pc'[Main] = "exited"
        /\ \A w \in Workers : pc'[w] = IF pc[w] = "none" THEN "none" ELSE "exited"
        /\ UNCHANGED <<handle, life, chan, at, closed, done, result, ready, got>>
    BY <1>11 DEF ProgramEnds, future, queue
  <2>2. ASSUME NEW k \in Queues PROVE QueueLives(k)'
    BY <2>1 DEF Lives, QueueLives, Closing, Destroyed
  <2>3. ASSUME NEW v \in Workers PROVE HandleLives(v)'
    BY <2>1 DEF Lives, HandleLives
  <2>4. NamedLives'
    BY <2>1 DEF NamedLives
  <2> QED BY <2>1, <2>2, <2>3, <2>4 DEF Lives, Results
<1> QED BY <1>3, <1>5, <1>6, <1>7, <1>8, <1>9, <1>10, <1>11 DEF Awaiting

\* Every step keeps what is said of handles, queues and results.
LEMMA LivesStep == TInv /\ Lives /\ Results /\ [Next]_vars => Lives' /\ Results'
<1> SUFFICES ASSUME TInv, Lives, Results, [Next]_vars PROVE Lives' /\ Results'
  OBVIOUS
<1>1. ASSUME NEW t \in Threads, Begin(t) \/ Continue(t) PROVE Lives' /\ Results'
  BY <1>1, MessageSteps, LivesMessageStep
<1>2. ASSUME NEW w \in Workers, IsCancelled(w) \/ Complete(w) \/ ThreadEnds(w)
      PROVE  Lives' /\ Results'
  BY <1>2, MessageSteps, LivesMessageStep, LivesWorker DEF Threads
<1>3. ASSUME Cancelling \/ \E w \in Workers : Cancel(w) PROVE Lives' /\ Results'
  BY <1>3, MessageSteps, LivesMessageStep DEF Threads
<1>4. CASE BeginMain
  BY <1>3, <1>4, LivesSpawn, LivesWorker, LivesAwait DEF BeginMain
<1>5. CASE Awaiting \/ AwaitWakes \/ ProgramEnds
  BY <1>5, LivesAwait
<1>6. CASE UNCHANGED vars
  BY <1>6 DEF vars, future, queue, blobs, control, Lives, HandleLives, NamedLives, QueueLives,
              Closing, Destroyed, Results
<1> QED BY <1>1, <1>2, <1>3, <1>4, <1>5, <1>6 DEF Next

\* In any program the handles and queues that a thread works on, or will go on
\* working on, are not freed: AWAIT joins the worker before it frees them, and
\* only main, which is in AWAIT, could name them otherwise.
THEOREM LiveUses == Spec => []UsesAreLive
<1> QED BY TInit, TypeStep, LivesInit, LivesStep, LivesUses, PTL DEF Spec

\* In any program AWAIT returns what the worker returned, and it goes to sleep on
\* the condition variable only when the result is still to come.
THEOREM Delivery == Spec => []ResultDelivered
<1>1. TInv /\ Results => ResultDelivered
  BY DEF Results, ResultDelivered
<1> QED BY <1>1, TInit, TypeStep, LivesInit, LivesStep, PTL DEF Spec

-----------------------------------------------------------------------------
(***************************************************************************)
(* Where the blobs are.  A step moves one blob or none from the program to *)
(* a thread, from a thread to a queue, from a queue to a thread or from a  *)
(* thread to the allocator; AWAIT moves a whole queue to the allocator.    *)
(***************************************************************************)

\* The first conjuncts of OneOwner: no blob is in two places of the queues, or
\* in the hands of two threads.
OnceQueued ==
    \A k, l \in Queues : \A i \in DOMAIN chan[k], j \in DOMAIN chan[l] :
        chan[k][i] = chan[l][j] => k = l /\ i = j
OnceHeld == \A t, u \in Threads : slot[t] = slot[u] /\ slot[t] # NULL => t = u

\* OneOwner looks at nothing else.
owned == <<chan, slot, freed, made>>

\* Steps that touch no blob.
LEMMA OwnerSame == OneOwner /\ UNCHANGED owned => OneOwner'
BY DEF owned, OneOwner, Queued, InChan, InSlots

\* SEND and CANCEL: a new blob in an empty hand.
LEMMA OwnerNew ==
    ASSUME TInv, OneOwner, NEW t \in Threads, NEW b \in Blobs \ made,
           slot[t] = NULL, slot' = [slot EXCEPT ![t] = b], made' = made \cup {b},
           UNCHANGED <<chan, freed>>
    PROVE  OneOwner'
<1> USE ProgramAssumption DEF TInv
<1>1. slot'[t] = b /\ b # NULL /\ \A u \in Threads \ {t} : slot'[u] = slot[u]
  BY DEF TypeOK
<1>2. InSlots' = InSlots \cup {b}
  BY <1>1 DEF InSlots
<1>3. Queued' = Queued
  BY DEF Queued, InChan
<1>4. b \notin Queued \cup InSlots \cup freed
  BY DEF OneOwner
<1>5. OnceHeld'
  BY <1>1, <1>4 DEF OnceHeld, OneOwner, InSlots
<1>6. OnceQueued'
  BY DEF OnceQueued, OneOwner
<1> QED BY <1>2, <1>3, <1>4, <1>5, <1>6 DEF OneOwner, OnceHeld, OnceQueued

\* A push: the blob leaves the hand for the end of a queue.
LEMMA OwnerPush ==
    ASSUME TInv, OneOwner, NEW t \in Threads, slot[t] # NULL, NEW k \in Queues,
           chan' = [chan EXCEPT ![k] = Append(chan[k], slot[t])],
           slot' = [slot EXCEPT ![t] = NULL],
           UNCHANGED <<made, freed>>
    PROVE  OneOwner'
<1> USE ProgramAssumption DEF TInv
<1> DEFINE b == slot[t]
           n == Len(chan[k])
<1>1. b \in Blobs /\ b \in InSlots /\ chan[k] \in Seq(Blobs) /\ n \in Nat /\ DOMAIN chan[k] = 1..n
  BY DEF TypeOK, InSlots, Statements
<1>2. /\ chan'[k] = Append(chan[k], b) /\ DOMAIN chan'[k] = 1..(n + 1)
      /\ chan'[k][n + 1] = b /\ \A i \in 1..n : chan'[k][i] = chan[k][i]
      /\ \A l \in Queues \ {k} : chan'[l] = chan[l]
  BY <1>1 DEF Statements
<1>3. slot'[t] = NULL /\ \A u \in Threads \ {t} : slot'[u] = slot[u]
  BY DEF TypeOK
<1>4. InSlots' = InSlots \ {b}
  BY <1>1, <1>3 DEF InSlots, OneOwner
<1>5. InChan(k)' = InChan(k) \cup {b} /\ \A l \in Queues \ {k} : InChan(l)' = InChan(l)
  <2>1. InChan(k)' \subseteq InChan(k) \cup {b}
    BY <1>1, <1>2 DEF InChan
  <2>2. InChan(k) \cup {b} \subseteq InChan(k)'
    BY <1>1, <1>2 DEF InChan
  <2> QED BY <1>2, <2>1, <2>2 DEF InChan
<1>6. Queued' = Queued \cup {b}
  BY <1>5 DEF Queued
<1>7. b \notin Queued
  BY <1>1 DEF OneOwner
<1>8. OnceHeld'
  BY <1>3 DEF OnceHeld, OneOwner
<1>9. OnceQueued'
  <2> SUFFICES ASSUME NEW l \in Queues, NEW m \in Queues,
                      NEW i \in DOMAIN chan'[l], NEW j \in DOMAIN chan'[m],
                      chan'[l][i] = chan'[m][j]
               PROVE  l = m /\ i = j
    BY DEF OnceQueued
  <2>1. \A q \in Queues : \A p \in DOMAIN chan'[q] :
           \/ p \in DOMAIN chan[q] /\ chan'[q][p] = chan[q][p] /\ chan[q][p] # b
           \/ q = k /\ p = n + 1 /\ chan'[q][p] = b
    BY <1>1, <1>2, <1>7 DEF Queued, InChan
  <2> HIDE DEF b, n
  <2> QED BY <2>1 DEF OneOwner
<1> QED BY <1>1, <1>4, <1>6, <1>7, <1>8, <1>9 DEF OneOwner, OnceHeld, OnceQueued

\* A pop: the first blob of a queue goes to an empty hand.
LEMMA OwnerPop ==
    ASSUME TInv, OneOwner, NEW t \in Threads, slot[t] = NULL, NEW k \in Queues,
           chan[k] # << >>,
           chan' = [chan EXCEPT ![k] = Tail(chan[k])],
           slot' = [slot EXCEPT ![t] = Head(chan[k])],
           UNCHANGED <<made, freed>>
    PROVE  OneOwner'
<1> USE ProgramAssumption DEF TInv
<1> DEFINE b == Head(chan[k])
           n == Len(chan[k])
<1>1. /\ chan[k] \in Seq(Blobs) /\ n \in Nat \ {0} /\ DOMAIN chan[k] = 1..n
      /\ b = chan[k][1] /\ b \in Blobs /\ b # NULL /\ b \in InChan(k)
  BY DEF InChan, Statements
<1>2. /\ DOMAIN chan'[k] = 1..(n - 1) /\ \A i \in 1..(n - 1) : chan'[k][i] = chan[k][i + 1]
      /\ \A l \in Queues \ {k} : chan'[l] = chan[l]
  BY <1>1 DEF Statements
<1>3. slot'[t] = b /\ \A u \in Threads \ {t} : slot'[u] = slot[u]
  BY DEF TypeOK
<1>4. InSlots' = InSlots \cup {b}
  BY <1>1, <1>3 DEF InSlots
<1>5. \A l \in Queues : \A p \in DOMAIN chan'[l] :
          LET q == IF l = k THEN p + 1 ELSE p
          IN  q \in DOMAIN chan[l] /\ chan'[l][p] = chan[l][q] /\ chan[l][q] # b
  <2>1. \A l \in Queues : \A i \in DOMAIN chan[l] : chan[l][i] = b => l = k /\ i = 1
    BY <1>1 DEF OneOwner
  <2> QED BY <1>1, <1>2, <2>1
<1>6. Queued' = Queued \ {b}
  <2>1. Queued' \subseteq Queued \ {b}
    BY <1>5 DEF Queued, InChan
  <2>2. ASSUME NEW l \in Queues, NEW i \in DOMAIN chan[l], chan[l][i] # b
        PROVE  chan[l][i] \in InChan(l)'
    <3>1. CASE l # k
      BY <1>2, <3>1 DEF InChan
    <3>2. CASE l = k
      <4>1. i \in 2..n
        BY <1>1, <2>2, <3>2
      <4>2. i - 1 \in DOMAIN chan'[k] /\ chan'[k][i - 1] = chan[k][i]
        BY <1>1, <1>2, <4>1
      <4> QED BY <3>2, <4>2 DEF InChan
    <3> QED BY <3>1, <3>2
  <2>3. Queued \ {b} \subseteq Queued'
    BY <2>2 DEF Queued, InChan
  <2> QED BY <2>1, <2>3
<1>7. b \in Queued /\ b \notin InSlots /\ b \notin freed
  BY <1>1 DEF OneOwner, Queued
<1>8. OnceHeld'
  BY <1>3, <1>7 DEF OnceHeld, OneOwner, InSlots
<1>9. OnceQueued'
  <2> SUFFICES ASSUME NEW l \in Queues, NEW m \in Queues,
                      NEW i \in DOMAIN chan'[l], NEW j \in DOMAIN chan'[m],
                      chan'[l][i] = chan'[m][j]
               PROVE  l = m /\ i = j
    BY DEF OnceQueued
  <2>1. i \in Int /\ j \in Int
    BY <1>1, <1>2 DEF Statements
  <2> QED BY <1>5, <2>1 DEF OneOwner
<1> QED BY <1>4, <1>6, <1>7, <1>8, <1>9 DEF OneOwner, OnceHeld, OnceQueued

\* The end of RECEIVE and of MATCH RECEIVE: the hand is emptied.
LEMMA OwnerFree ==
    ASSUME TInv, OneOwner, NEW t \in Threads,
           slot' = [slot EXCEPT ![t] = NULL],
           freed' = freed \cup ({slot[t]} \ {NULL}),
           UNCHANGED <<made, chan>>
    PROVE  OneOwner'
<1> USE ProgramAssumption DEF TInv
<1>1. slot'[t] = NULL /\ \A u \in Threads \ {t} : slot'[u] = slot[u]
  BY DEF TypeOK
<1>2. InSlots' = InSlots \ {slot[t]}
  BY <1>1 DEF InSlots, OneOwner
<1>3. Queued' = Queued
  BY DEF Queued, InChan
<1>4. {slot[t]} \ {NULL} \subseteq InSlots
  BY DEF InSlots
<1>5. OnceHeld'
  BY <1>1 DEF OnceHeld, OneOwner
<1>6. OnceQueued'
  BY DEF OnceQueued, OneOwner
<1>7. Queued' \cup InSlots' \cup freed' = made' /\ (Queued' \cup InSlots') \cap freed' = {}
  <2>1. Queued \cup InSlots \cup freed = made /\ (Queued \cup InSlots) \cap freed = {}
        /\ Queued \cap InSlots = {} /\ made' = made
    BY DEF OneOwner
  <2>2. CASE slot[t] = NULL
    <3>1. InSlots' = InSlots /\ freed' = freed
      BY <1>2, <2>2 DEF InSlots
    <3> QED BY <1>3, <2>1, <3>1
  <2>3. CASE slot[t] # NULL
    <3>1. slot[t] \in InSlots /\ freed' = freed \cup {slot[t]}
      BY <1>4, <2>3
    <3> QED BY <1>2, <1>3, <2>1, <3>1
  <2> QED BY <2>2, <2>3
<1>8. Queued' \cap InSlots' = {}
  BY <1>2, <1>3 DEF OneOwner
<1> QED BY <1>5, <1>6, <1>7, <1>8 DEF OneOwner, OnceHeld, OnceQueued

\* AWAIT destroys a queue: what is in it is released.
LEMMA OwnerDrain ==
    ASSUME TInv, OneOwner, NEW k \in Queues,
           chan' = [chan EXCEPT ![k] = << >>],
           freed' = freed \cup InChan(k),
           UNCHANGED <<made, slot>>
    PROVE  OneOwner'
<1> USE ProgramAssumption DEF TInv
<1>1. chan'[k] = << >> /\ \A l \in Queues \ {k} : chan'[l] = chan[l]
  BY DEF Statements
<1>2. InChan(k)' = {} /\ \A l \in Queues \ {k} : InChan(l)' = InChan(l)
  BY <1>1 DEF InChan
<1>3. \A l \in Queues \ {k} : InChan(l) \cap InChan(k) = {}
  BY DEF InChan, OneOwner
<1>4. Queued' = Queued \ InChan(k) /\ InChan(k) \subseteq Queued
  BY <1>2, <1>3 DEF Queued
<1>5. InSlots' = InSlots
  BY DEF InSlots
<1>6. OnceHeld'
  BY DEF OnceHeld, OneOwner
<1>7. OnceQueued'
  BY <1>1 DEF OnceQueued, OneOwner
<1> QED BY <1>4, <1>5, <1>6, <1>7 DEF OneOwner, OnceHeld, OnceQueued

-----------------------------------------------------------------------------
\* A program that sends the variable of an arm at most once.
Once == "sendTwice" \notin Style

\* Only thread t moves, and its hand is right afterwards.
LEMMA HandsMove ==
    ASSUME TInv, Hands, NEW t \in Threads, NEW p \in Places,
           pc' = [pc EXCEPT ![t] = p], Hand(t)',
           \A u \in Threads \ {t} : slot'[u] = slot[u] /\ bound'[u] = bound[u]
    PROVE  Hands'
<1>1. pc'[t] = p /\ \A u \in Threads \ {t} : pc'[u] = pc[u]
  BY DEF TInv, Statements
<1>2. ASSUME NEW u \in Threads PROVE Hand(u)'
  BY <1>1 DEF Hands, Hand
<1> QED BY <1>2 DEF Hands, Hand

\* The statements about messages, under Once.
LEMMA OwnerMessages ==
    ASSUME TInv, Hands, OneOwner, Once, NEW t \in Threads,
           \/ Begin(t) \/ Continue(t)
           \/ t = Main /\ (Cancelling \/ \E w \in Workers : Cancel(w))
    PROVE  Hands' /\ OneOwner'
<1> USE ProgramAssumption DEF TInv
<1>0. /\ pc \in [Threads -> Places] /\ slot \in [Threads -> Blobs \cup {NULL}]
      /\ bound \in [Threads -> Blobs \cup {NULL}]
  BY DEF Statements, TypeOK
<1>1. ASSUME NEW w \in Workers, NEW b \in Blobs, Send(t, w, b) PROVE Hands' /\ OneOwner'
  <2>1. slot[t] = NULL /\ bound[t] = NULL
    BY <1>1 DEF Send, Hands, Hand
  <2>2. OneOwner'
    BY <1>1, <2>1, OwnerNew DEF Send, queue
  <2>3. Hand(t)'
    BY <1>0, <1>1, <2>1 DEF Hand, Send, Goto
  <2> QED BY <1>0, <1>1, <2>2, <2>3, HandsMove DEF Send, Goto
<1>2. ASSUME NEW w \in Workers, HasMessage(t, w) PROVE Hands' /\ OneOwner'
  BY <1>2, OwnerSame DEF HasMessage, queue, blobs, owned, Hands, Hand
<1>3. ASSUME NEW w \in Workers, Receive(t, w) PROVE Hands' /\ OneOwner'
  <2>1. slot[t] = NULL /\ bound[t] = NULL
    BY <1>3 DEF Receive, Hands, Hand
  <2>2. PICK p \in {"pop", "match"} : pc' = [pc EXCEPT ![t] = p]
    BY <1>3 DEF Receive, Goto
  <2>3. slot' = slot /\ bound' = bound /\ UNCHANGED owned
    BY <1>3 DEF Receive, queue, blobs, owned
  <2>4. Hand(t)'
    BY <1>0, <2>1, <2>2, <2>3 DEF Hand
  <2> QED BY <2>2, <2>3, <2>4, HandsMove, OwnerSame
<1>4. ASSUME NEW w \in Workers, Forward(t, w) PROVE Hands' /\ OneOwner'
  <2>1. slot[t] # NULL /\ bound[t] = slot[t] /\ slot' = slot /\ bound' = bound /\ UNCHANGED owned
    BY <1>4 DEF Forward, Hands, Hand, queue, owned, Once
  <2>2. Hand(t)'
    BY <1>0, <1>4, <2>1 DEF Hand, Forward, Goto
  <2> QED BY <1>4, <2>1, <2>2, HandsMove, OwnerSame DEF Forward, Goto
<1>5. CASE Push(t) \/ PushForward(t)
  <2> DEFINE k == SendQueue(t, at[t])
  <2>1. PICK b \in Blobs :
            /\ k \in Queues
            /\ chan' = [chan EXCEPT ![k] = Append(chan[k], b)]
            /\ slot' = [slot EXCEPT ![t] = NULL]
            /\ \/ /\ pc[t] \in {"push", "signal"} /\ b = slot[t]
                  /\ pc' = [pc EXCEPT ![t] = "run"]
               \/ /\ pc[t] = "forward" /\ b = bound[t]
                  /\ pc' = [pc EXCEPT ![t] = "arm"]
            /\ bound' = bound /\ UNCHANGED <<made, freed>>
    BY <1>5, PushFacts
  <2> HIDE DEF k
  <2>2. b = slot[t] /\ b # NULL
    BY <2>1 DEF Hands, Hand
  <2>3. OneOwner'
    BY <2>1, <2>2, OwnerPush
  <2>4. PICK p \in {"run", "arm"} : pc' = [pc EXCEPT ![t] = p] /\ (p = "run" => bound[t] = NULL)
    BY <2>1 DEF Hands, Hand
  <2>5. Hand(t)'
    BY <1>0, <2>1, <2>4 DEF Hand
  <2> QED BY <1>0, <2>1, <2>3, <2>4, <2>5, HandsMove
<1>6. CASE Pop(t)
  <2> DEFINE k == ReceiveQueue(t, at[t])
             b == Head(chan[k])
  <2>1. /\ k \in Queues /\ chan[k] # << >> /\ b \in Blobs
        /\ chan' = [chan EXCEPT ![k] = Tail(chan[k])]
        /\ slot' = [slot EXCEPT ![t] = b]
        /\ \/ /\ pc[t] = "pop" /\ bound' = bound
              /\ pc' = [pc EXCEPT ![t] = "holding"]
           \/ /\ pc[t] = "match" /\ bound' \in {bound, [bound EXCEPT ![t] = b]}
              /\ pc' = [pc EXCEPT ![t] = "arm"]
        /\ UNCHANGED <<made, freed>>
    BY <1>6, PopFacts
  <2>2. slot[t] = NULL /\ bound[t] = NULL
    BY <2>1 DEF Hands, Hand
  <2>3. OneOwner'
    BY <2>1, <2>2, OwnerPop
  <2> HIDE DEF k, b
  <2>4. PICK p \in {"holding", "arm"}, c \in {NULL, b} :
            /\ pc' = [pc EXCEPT ![t] = p] /\ bound' = [bound EXCEPT ![t] = c]
            /\ p = "holding" => c = NULL
    BY <1>0, <2>1, <2>2
  <2>5. Hand(t)'
    BY <1>0, <2>1, <2>4 DEF Hand
  <2>6. \A u \in Threads \ {t} : slot'[u] = slot[u] /\ bound'[u] = bound[u]
    BY <1>0, <2>1, <2>4
  <2> QED BY <2>3, <2>4, <2>5, <2>6, HandsMove
<1>7. CASE Unmarshall(t) \/ EndMatch(t)
  <2>1. /\ pc' = [pc EXCEPT ![t] = "run"] /\ slot' = [slot EXCEPT ![t] = NULL]
        /\ bound' = [bound EXCEPT ![t] = NULL]
        /\ freed' = freed \cup ({slot[t]} \ {NULL})
        /\ UNCHANGED <<made, chan>>
    <3>1. CASE Unmarshall(t)
      <4>1. slot[t] # NULL /\ bound[t] = NULL
        BY <3>1 DEF Unmarshall, Statements, Hands, Hand
      <4>2. bound = [bound EXCEPT ![t] = NULL]
        BY <1>0, <4>1
      <4> QED BY <3>1, <4>1, <4>2 DEF Unmarshall, Goto, queue
    <3>2. CASE EndMatch(t)
      BY <3>2 DEF EndMatch, Goto, queue
    <3> QED BY <1>7, <3>1, <3>2
  <2>2. Hand(t)'
    BY <1>0, <2>1 DEF Hand
  <2>3. \A u \in Threads \ {t} : slot'[u] = slot[u] /\ bound'[u] = bound[u]
    BY <1>0, <2>1
  <2> QED BY <2>1, <2>2, <2>3, HandsMove, OwnerFree
<1>8. ASSUME t = Main, NEW w \in Workers, Cancel(w) PROVE Hands' /\ OneOwner'
  <2>1. Hand(t)' /\ slot' = slot /\ bound' = bound /\ UNCHANGED owned
    BY <1>0, <1>8 DEF Cancel, Goto, Hand, Hands, blobs, owned
  <2> QED BY <1>8, <2>1, HandsMove, OwnerSame DEF Cancel, Goto
<1>9. ASSUME t = Main, NEW b \in Blobs, MarshallSignal(b) PROVE Hands' /\ OneOwner'
  <2>1. slot[t] = NULL /\ bound[t] = NULL
    BY <1>9 DEF MarshallSignal, Hands, Hand
  <2>2. OneOwner'
    BY <1>9, <2>1, OwnerNew DEF MarshallSignal, queue
  <2>3. Hand(t)'
    BY <1>0, <1>9, <2>1 DEF Hand, MarshallSignal, Goto
  <2> QED BY <1>0, <1>9, <2>2, <2>3, HandsMove DEF MarshallSignal, Goto
<1> QED BY <1>1, <1>2, <1>3, <1>4, <1>5, <1>6, <1>7, <1>8, <1>9
        DEF Begin, Continue, Cancelling

\* The steps that leave all hands as they are.
LEMMA HandsOther ==
    ASSUME TInv, Hands, slot' = slot, bound' = bound,
           \A t \in Threads :
               \/ pc'[t] = pc[t]
               \/ pc'[t] \in {"finish", "exited"}
               \/ /\ pc[t] \in InAwait \cup {"none", "run"}
                  /\ pc'[t] \in InAwait \cup {"run", "none"}
    PROVE  Hands'
<1>1. ASSUME NEW t \in Threads PROVE Hand(t)'
  BY <1>1 DEF Hands, Hand
<1> QED BY <1>1 DEF Hands

\* The statements about workers: AWAIT frees what the queues of a worker still hold,
\* when no thread uses them; the others touch no blob.
LEMMA OwnerOther ==
    ASSUME TInv, Lives, Hands, OneOwner,
           \/ \E w \in Workers : \/ SpawnPlain(w) \/ Spawn(w) \/ Ready(w) \/ Await(w)
                                 \/ IsCancelled(w) \/ Complete(w) \/ ThreadEnds(w)
           \/ Awaiting \/ AwaitWakes \/ ProgramEnds
    PROVE  Hands' /\ OneOwner'
<1> USE ProgramAssumption DEF TInv, Threads
<1>0. pc \in [Threads -> Places]
  BY DEF Statements
<1>1. ASSUME NEW w \in Workers,
             \/ SpawnPlain(w) \/ Spawn(w) \/ Ready(w) \/ Await(w)
             \/ IsCancelled(w) \/ ThreadEnds(w)
      PROVE  Hands' /\ OneOwner'
  <2>1. slot' = slot /\ bound' = bound /\ UNCHANGED owned
    BY <1>1 DEF SpawnPlain, Spawn, Ready, Await, IsCancelled, ThreadEnds, queue, blobs, owned
  <2>2. CASE SpawnPlain(w) \/ Spawn(w)
    <3>1. pc[w] = "none"
      BY <2>2 DEF SpawnPlain, Spawn, Lives, HandleLives
    <3> QED BY <3>1, <1>0, <2>1, <2>2, HandsOther, OwnerSame DEF SpawnPlain, Spawn, Goto
  <2>3. CASE Ready(w) \/ IsCancelled(w)
    BY <2>1, <2>3, HandsOther, OwnerSame DEF Ready, IsCancelled, control
  <2>4. CASE Await(w)
    BY <1>0, <2>1, <2>4, HandsOther, OwnerSame DEF Await, Goto
  <2>5. CASE ThreadEnds(w)
    BY <1>0, <2>1, <2>5, HandsOther, OwnerSame DEF ThreadEnds, Goto
  <2> QED BY <1>1, <2>2, <2>3, <2>4, <2>5
<1>2. ASSUME NEW w \in Workers, Complete(w) PROVE Hands' /\ OneOwner'
  <2>1. slot' = slot /\ bound' = bound /\ UNCHANGED owned
    BY <1>2 DEF Complete, queue, blobs, owned
  <2>2. \A t \in Threads : pc'[t] = pc[t] \/ pc'[t] = "finish"
                           \/ (pc[t] = "sleep" /\ pc'[t] = "await")
    BY <1>0, <1>2 DEF Complete
  <2> QED BY <2>1, <2>2, HandsOther, OwnerSame
<1>3. ASSUME NEW p \in InAwait \cup {"run"}, pc' = [pc EXCEPT ![Main] = p],
             pc[Main] \in InAwait, slot' = slot, bound' = bound
      PROVE  Hands'
  BY <1>0, <1>3, HandsOther
<1>4. CASE AwaitSleeps \/ AwaitWakes \/ AwaitReads \/ Join \/ CloseBoth \/ ReleaseHandle
  <2>1. slot' = slot /\ bound' = bound /\ UNCHANGED owned
    BY <1>4 DEF AwaitSleeps, AwaitWakes, AwaitReads, Join, CloseBoth, ReleaseHandle, queue, blobs, owned
  <2>2. \E p \in InAwait \cup {"run"} : pc' = [pc EXCEPT ![Main] = p] /\ pc[Main] \in InAwait
    BY <1>4 DEF AwaitSleeps, AwaitWakes, AwaitReads, Join, CloseBoth, ReleaseHandle, Goto
  <2> QED BY <1>3, <2>1, <2>2, OwnerSame
<1>5. ASSUME NEW side \in {"outbox", "inbox"}, NEW next \in {"inbox", "release"},
             Destroy(side, next)
      PROVE  Hands' /\ OneOwner'
  <2> DEFINE k == <<at[Main], side>>
  <2>1. k \in Queues
    BY <1>5 DEF Destroy, Statements, Queues
  <2>2. /\ chan' = [chan EXCEPT ![k] = << >>] /\ freed' = freed \cup InChan(k)
        /\ UNCHANGED <<made, slot>> /\ bound' = bound
    BY <1>5 DEF Destroy, InChan
  <2>3. OneOwner'
    BY <2>1, <2>2, OwnerDrain
  <2>4. Hands'
    BY <1>3, <1>5, <2>2 DEF Destroy, Goto
  <2> QED BY <2>3, <2>4
<1>6. CASE ProgramEnds
  <2>1. \A t \in Threads : pc'[t] \in {pc[t], "exited"}
    BY <1>6 DEF ProgramEnds
  <2> QED BY <1>6, <2>1, HandsOther, OwnerSame DEF ProgramEnds, queue, blobs, owned
<1> QED BY <1>1, <1>2, <1>4, <1>5, <1>6 DEF Awaiting

\* Every step leaves every blob with one owner, in a program that sends a message
\* once.
LEMMA OwnerStep ==
    ASSUME Once, TInv, Lives, Hands, OneOwner, [Next]_vars PROVE Hands' /\ OneOwner'
<1>1. ASSUME NEW t \in Threads, Begin(t) \/ Continue(t) PROVE Hands' /\ OneOwner'
  BY <1>1, OwnerMessages
<1>2. ASSUME NEW w \in Workers, IsCancelled(w) \/ Complete(w) \/ ThreadEnds(w)
      PROVE  Hands' /\ OneOwner'
  BY <1>2, OwnerOther
<1>3. ASSUME Cancelling \/ \E w \in Workers : Cancel(w) PROVE Hands' /\ OneOwner'
  BY <1>3, OwnerMessages DEF Threads
<1>4. CASE BeginMain
  BY <1>3, <1>4, OwnerOther DEF BeginMain
<1>5. CASE Awaiting \/ AwaitWakes \/ ProgramEnds
  BY <1>5, OwnerOther
<1>6. CASE UNCHANGED vars
  BY <1>6, OwnerSame DEF vars, future, queue, blobs, control, Hands, Hand, owned
<1> QED BY <1>1, <1>2, <1>3, <1>4, <1>5, <1>6 DEF Next

\* There is no blob in the beginning.
LEMMA OwnerInit == Init => Hands /\ OneOwner
<1> SUFFICES ASSUME Init PROVE Hands /\ OneOwner
  OBVIOUS
<1>1. \A k \in Queues : chan[k] = << >>
  BY DEF Init
<1>2. \A t \in Threads : slot[t] = NULL /\ bound[t] = NULL
  BY DEF Init
<1>3. Hands
  BY <1>2 DEF Init, Hands, Hand
<1>4. Queued = {} /\ InSlots = {}
  BY <1>1, <1>2 DEF Queued, InChan, InSlots
<1>5. OneOwner
  BY <1>1, <1>2, <1>4 DEF Init, OneOwner
<1> QED BY <1>3, <1>5

\* Every blob is in one queue, in the slot of one thread, or freed, and in one
\* place only: in a program that sends the variable of a forward arm at most once,
\* whatever it does otherwise.
THEOREM Ownership == ASSUME Once PROVE Spec => []OneOwner
<1>1. TInv /\ Lives /\ Hands /\ OneOwner /\ [Next]_vars => Hands' /\ OneOwner'
  BY OwnerStep
<1> QED BY <1>1, TInit, TypeStep, LivesInit, LivesStep, OwnerInit, PTL DEF Spec

-----------------------------------------------------------------------------
\* A program whose workers return only outside MATCH RECEIVE.
NoReturnInArm == "returnInArm" \notin Style

\* A thread that is in no MATCH RECEIVE holds no blob, in a program without RETURN in
\* an arm.
LEMMA KeptStep ==
    ASSUME NoReturnInArm, TInv, Lives, Hands, NothingKept, [Next]_vars
    PROVE  NothingKept'
<1> USE ProgramAssumption DEF TInv, Threads
<1>0. /\ pc \in [Threads -> Places] /\ slot \in [Threads -> Blobs \cup {NULL}]
  BY DEF Statements, TypeOK
<1>1. ASSUME NEW t \in Threads, pc[t] \notin {"finish", "exited"},
             pc'[t] \notin {"finish", "exited"},
             \A u \in Threads \ {t} : pc'[u] = pc[u] /\ slot'[u] = slot[u]
      PROVE  NothingKept'
  BY <1>1 DEF NothingKept
<1>2. ASSUME NEW t \in Threads,
             \/ Begin(t) \/ Continue(t)
             \/ t = Main /\ (Cancelling \/ \E w \in Workers : Cancel(w))
             \/ t \in Workers /\ IsCancelled(t)
      PROVE  NothingKept'
  <2>1. MessageStep(t)
    BY <1>2, MessageSteps
  <2>2. \A u \in Threads \ {t} : slot'[u] = slot[u]
    BY <1>0, <1>2 DEF Begin, Continue, Send, HasMessage, Receive, Forward, Push, PushForward,
            Pop, Unmarshall, EndMatch, Cancelling, Cancel, MarshallSignal, IsCancelled, blobs
  <2> QED BY <1>1, <2>1, <2>2 DEF MessageStep
<1>3. ASSUME NEW w \in Workers, SpawnPlain(w) \/ Spawn(w) PROVE NothingKept'
  <2>1. pc[w] = "none" /\ pc' = [pc EXCEPT ![w] = "run"] /\ slot' = slot
    BY <1>3 DEF SpawnPlain, Spawn, Goto, Lives, HandleLives, blobs
  <2> QED BY <1>0, <1>1, <2>1
<1>4. ASSUME NEW w \in Workers, Complete(w) PROVE NothingKept'
  <2>1. pc[w] = "run" /\ slot[w] = NULL
    BY <1>4 DEF Complete, MayReturn, NoReturnInArm, Hands, Hand
  <2>2. slot' = slot /\ \A v \in Workers \ {w} : pc'[v] = pc[v]
    BY <1>0, <1>4 DEF Complete, blobs
  <2>3. pc'[Main] # "exited" => pc[Main] # "exited"
    BY <1>0, <1>4 DEF Complete
  <2> QED BY <2>1, <2>2, <2>3 DEF NothingKept
<1>5. ASSUME NEW w \in Workers, ThreadEnds(w) PROVE NothingKept'
  BY <1>0, <1>5 DEF ThreadEnds, Goto, NothingKept, blobs
<1>6. ASSUME NEW w \in Workers, Ready(w) \/ Await(w) PROVE NothingKept'
  BY <1>0, <1>6 DEF Ready, Await, Goto, NothingKept, blobs, control
<1>7. CASE Awaiting \/ AwaitWakes
  <2>1. slot' = slot
    BY <1>7 DEF Awaiting, AwaitSleeps, AwaitReads, Join, CloseBoth, Destroy, ReleaseHandle,
                AwaitWakes, blobs
  <2>2. PICK p : pc' = [pc EXCEPT ![Main] = p]
    BY <1>7 DEF Awaiting, AwaitSleeps, AwaitReads, Join, CloseBoth, Destroy, ReleaseHandle,
                AwaitWakes, Goto
  <2>3. pc[Main] # "exited"
    BY <1>7 DEF Awaiting, AwaitSleeps, AwaitReads, Join, CloseBoth, Destroy, ReleaseHandle,
                AwaitWakes
  <2> QED BY <1>0, <2>1, <2>2, <2>3 DEF NothingKept
<1>8. CASE ProgramEnds
  BY <1>8 DEF ProgramEnds, NothingKept
<1>9. CASE UNCHANGED vars
  BY <1>9 DEF vars, blobs, control, NothingKept
<1> QED BY <1>2, <1>3, <1>4, <1>5, <1>6, <1>7, <1>8, <1>9 DEF Next, BeginMain, Threads

\* When all workers are awaited and the main program is between statements, no
\* blob is in a queue or in anybody's hands.
LEMMA Reclaims == TInv /\ Lives /\ Hands /\ OneOwner /\ NothingKept => AllReclaimed
<1> SUFFICES ASSUME TInv, Lives, Hands, OneOwner, NothingKept PROVE AllReclaimed
  OBVIOUS
<1> USE ProgramAssumption DEF TInv, Threads
<1>1. ASSUME NEW w \in Workers, handle[w] = "freed"
      PROVE  /\ pc[w] = "exited"
             /\ \A k \in Queues : k[1] = w => life[k] # "live" /\ chan[k] = << >>
  BY <1>1 DEF Lives, HandleLives, QueueLives
<1>2. ASSUME pc[Main] = "run", \A w \in Workers : handle[w] # "live"
      PROVE  made = freed
  <2>1. \A k \in Queues : chan[k] = << >>
    <3>1. ASSUME NEW k \in Queues PROVE chan[k] = << >>
      <4>1. k[1] \in Workers
        BY DEF Queues
      <4> QED BY <1>2, <4>1 DEF Lives, QueueLives
    <3> QED BY <3>1
  <2>2. Queued = {}
    BY <2>1 DEF Queued, InChan
  <2>3. \A t \in Threads : slot[t] = NULL
    <3>1. slot[Main] = NULL
      BY <1>2 DEF Hands, Hand
    <3>2. ASSUME NEW w \in Workers PROVE slot[w] = NULL
      <4>1. handle[w] \in {"none", "freed"}
        BY <1>2 DEF TypeOK
      <4>2. pc[w] \in {"none", "exited"}
        BY <4>1 DEF Lives, HandleLives
      <4> QED BY <1>2, <4>2 DEF Hands, Hand, NothingKept
    <3> QED BY <3>1, <3>2
  <2>4. InSlots = {}
    BY <2>3 DEF InSlots
  <2> QED BY <2>2, <2>4 DEF OneOwner
<1> QED BY <1>1, <1>2 DEF AllReclaimed

\* AWAIT leaves no thread and no message of the worker, and when every worker has
\* been awaited all blobs are freed: in a program that sends the variable of an arm
\* at most once and whose workers do not return inside one.
THEOREM Reclamation == ASSUME Once, NoReturnInArm PROVE Spec => []AllReclaimed
<1>1. TInv /\ Lives /\ Hands /\ OneOwner /\ [Next]_vars => Hands' /\ OneOwner'
  BY OwnerStep
<1>2. TInv /\ Lives /\ Hands /\ NothingKept /\ [Next]_vars => NothingKept'
  BY KeptStep
<1>3. Init => NothingKept
  BY DEF Init, NothingKept, Threads
<1> QED BY <1>1, <1>2, <1>3, TInit, TypeStep, LivesInit, LivesStep, OwnerInit, Reclaims, PTL DEF Spec
=============================================================================
