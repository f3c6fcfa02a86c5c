---------------------------- MODULE Multiplexer ----------------------------
(***************************************************************************)
(* MultiplexerSocket of src/src/socket/src/multiplexing.rs: many callers   *)
(* share one duplex transport.  A serial caller (send_and_receive)         *)
(* registers a slot and an Event under a fresh correlation id, writes its  *)
(* request and waits for the Event or a timeout.  A stream caller          *)
(* (create_stream) registers a bounded async_channel and polls it.  One    *)
(* dispatcher task reads frames and routes them by correlation id; it      *)
(* holds the senders-map lock while it awaits a full queue.  The peer is   *)
(* the server of the module's test: one reply per serial request, up to    *)
(* StreamResponses replies per stream request, and it may close or break   *)
(* the connection.                                                         *)
(***************************************************************************)
EXTENDS Naturals, Sequences, FiniteSets, Functions, TLC

LOCAL SX == INSTANCE SequencesExt

CONSTANTS
    SerialCallers,    \* tasks calling send_and_receive
    StreamCallers,    \* tasks calling create_stream and polling the stream
    MaxId,            \* bound on the correlation ids handed out
    QueueLen,         \* queue_len given to create_stream (channel capacity)
    StreamResponses,  \* bound on the replies the peer sends to one stream
    PeerFaults,       \* subset of {"close", "break", "dup"} the peer may do
    CanCancel,        \* whether caller futures may be dropped mid-call
    None              \* Option::None of the slot and of the queue item

ASSUME /\ MaxId \in Nat \ {0}
       /\ QueueLen \in Nat \ {0}
       /\ StreamResponses \in Nat \ {0}
       /\ PeerFaults \subseteq {"close", "break", "dup"}
       /\ CanCancel \in BOOLEAN
       /\ SerialCallers \cap StreamCallers = {}

Ids == 1..MaxId
Bodies == SerialCallers \cup (1..StreamResponses)
Results == {"none", "ok", "eof", "timeout", "writeErr", "cancelled"}

VARIABLES
    counter,     \* correlation_id_counter: next id to hand out
    senders,     \* the Senders HashMap: id -> [kind, owner]
    slot,        \* Arc<Mutex<Option<BytesMut>>> of each serial waiter, by id
    notified,    \* ids whose Event::notify(1) reached a registered listener
    chan,        \* async_channel of each queue waiter: [buf, closed], by id
    pc, cid, result, answer,   \* serial callers
    spc, sid, got,             \* stream callers
    toServer,    \* requests the sink has written
    replied,     \* id -> number of replies the peer has written for it
    toClient,    \* frames from the peer to the read half, in TCP order
    peer,        \* "open" | "closed" (EOF) | "broken" (read error)
    disp,        \* dispatcher loop state
    terminated,  \* MultiplexerSocket has been dropped (terminate.notify)
    termHeard,   \* ... and the notification reached a listening dispatcher
    discarded    \* history: ids of frames the dispatcher found no waiter for

callerVars == <<pc, cid, result, answer>>
streamVars == <<spc, sid, got>>
peerVars == <<toServer, replied, toClient, peer>>
vars == <<counter, senders, slot, notified, chan, callerVars, streamVars,
          peerVars, disp, terminated, termHeard, discarded>>

DispRecord(st, i, item, todo) == [st |-> st, id |-> i, item |-> item, todo |-> todo]
DispReading == DispRecord("read", 0, None, {})

(* The dispatcher holds the senders lock across an await: while it blocks  *)
(* on a full queue (line 418) and while it sends None on EOF (line 360).   *)
DispHoldsLock == disp.st \in {"qblocked", "eof"}

(* A serial caller is inside select!, so its EventListener is registered. *)
Listening(i) == \E c \in SerialCallers : pc[c] = "wait" /\ cid[c] = i

Remove(f, i) == Restrict(f, DOMAIN f \ {i})

-----------------------------------------------------------------------------
TypeOK ==
    /\ counter \in 1..(MaxId + 1)
    /\ DOMAIN senders \subseteq Ids
    /\ \A i \in DOMAIN senders :
          senders[i] \in [kind : {"serial"}, owner : SerialCallers]
                         \cup [kind : {"queue"}, owner : StreamCallers]
    /\ slot \in [Ids -> Bodies \cup {None}]
    /\ notified \subseteq Ids
    /\ chan \in [Ids -> [buf : SX!BoundedSeq(Bodies \cup {None}, QueueLen),
                          closed : BOOLEAN]]
    /\ pc \in [SerialCallers -> {"idle", "register", "send", "listen", "wait",
                                 "timeout", "woken"}]
    /\ cid \in [SerialCallers -> 0..MaxId]
    /\ result \in [SerialCallers -> Results]
    /\ answer \in [SerialCallers -> Bodies \cup {None}]
    /\ spc \in [StreamCallers -> {"idle", "register", "send", "open"}]
    /\ sid \in [StreamCallers -> 0..MaxId]
    /\ got \in [StreamCallers -> Seq(Bodies)]
    /\ toServer \subseteq [id : Ids, kind : {"serial", "queue"},
                           owner : SerialCallers \cup StreamCallers]
    /\ replied \in [Ids -> 0..StreamResponses]
    /\ toClient \in Seq([id : Ids, body : Bodies])
    /\ peer \in {"open", "closed", "broken"}
    /\ disp.st \in {"read", "qblocked", "eof", "done"}
    /\ terminated \in BOOLEAN
    /\ termHeard \in BOOLEAN
    /\ discarded \subseteq Ids

Init ==
    /\ counter = 1
    /\ senders = << >>
    /\ slot = [i \in Ids |-> None]
    /\ notified = {}
    /\ chan = [i \in Ids |-> [buf |-> << >>, closed |-> FALSE]]
    /\ pc = [c \in SerialCallers |-> "idle"]
    /\ cid = [c \in SerialCallers |-> 0]
    /\ result = [c \in SerialCallers |-> "none"]
    /\ answer = [c \in SerialCallers |-> None]
    /\ spc = [s \in StreamCallers |-> "idle"]
    /\ sid = [s \in StreamCallers |-> 0]
    /\ got = [s \in StreamCallers |-> << >>]
    /\ toServer = {}
    /\ replied = [i \in Ids |-> 0]
    /\ toClient = << >>
    /\ peer = "open"
    /\ disp = DispReading
    /\ terminated = FALSE
    /\ termHeard = FALSE
    /\ discarded = {}

-----------------------------------------------------------------------------
(***************************************************************************)
(* send_and_receive (lines 111-195), one action per step between awaits.  *)
(***************************************************************************)

(* correlation_id (lines 48-54): the id handed out is the counter's value *)
(* read under its lock; the same critical section stores counter + 1.     *)
CorrelationId == counter

(* Mutant: the lock guard is read but never written back, so every call *)
(* gets the same correlation id.                                           *)
CallNoIncrement(c) ==
    /\ pc[c] = "idle"
    /\ ~terminated
    /\ counter <= MaxId
    /\ cid' = [cid EXCEPT ![c] = counter]
    /\ counter' = counter
    /\ pc' = [pc EXCEPT ![c] = "register"]
    /\ result' = [result EXCEPT ![c] = "none"]
    /\ UNCHANGED <<senders, slot, notified, chan, answer, streamVars, peerVars,
                   disp, terminated, termHeard, discarded>>

(* next_correlation_id and correlation_id (lines 48-54, 105-107, 128-131): *)
(* the counter lock is never held across an await, so the read-increment  *)
(* is one step.                                                            *)
Call(c) ==
    /\ pc[c] = "idle"
    /\ ~terminated
    /\ counter <= MaxId
    /\ cid' = [cid EXCEPT ![c] = CorrelationId]
    /\ counter' = counter + 1
    /\ pc' = [pc EXCEPT ![c] = "register"]
    /\ result' = [result EXCEPT ![c] = "none"]
    /\ UNCHANGED <<senders, slot, notified, chan, answer, streamVars, peerVars,
                   disp, terminated, termHeard, discarded>>

(* Insert the serial waiter before the request is written (lines 133-136). *)
(* HashMap::insert replaces an entry already under that id.                *)
Register(c) ==
    /\ pc[c] = "register"
    /\ ~DispHoldsLock
    /\ senders' = (cid[c] :> [kind |-> "serial", owner |-> c]) @@ senders
    /\ pc' = [pc EXCEPT ![c] = "send"]
    /\ UNCHANGED <<counter, slot, notified, chan, cid, result, answer,
                   streamVars, peerVars, disp, terminated, termHeard, discarded>>

(* sink.send_request (line 143): one whole frame under the sink's mutex.   *)
(* A write to a closed or broken connection may still be buffered, or may  *)
(* fail; on failure `?` returns at once and the waiter stays in the map.   *)
Send(c) ==
    /\ pc[c] = "send"
    /\ \/ /\ toServer' = toServer \cup {[id |-> cid[c], kind |-> "serial", owner |-> c]}
          /\ pc' = [pc EXCEPT ![c] = "listen"]
          /\ UNCHANGED result
       \/ /\ peer # "open"
          /\ pc' = [pc EXCEPT ![c] = "idle"]
          /\ result' = [result EXCEPT ![c] = "writeErr"]
          /\ UNCHANGED toServer
    /\ UNCHANGED <<counter, senders, slot, notified, chan, cid, answer,
                   streamVars, replied, toClient, peer, disp, terminated,
                   termHeard, discarded>>

(* select! (line 148) evaluates msg_event.listen(): only from here on does *)
(* a notify(1) of the dispatcher reach this caller.                        *)
Listen(c) ==
    /\ pc[c] = "listen"
    /\ pc' = [pc EXCEPT ![c] = "wait"]
    /\ UNCHANGED <<counter, senders, slot, notified, chan, cid, result, answer,
                   streamVars, peerVars, disp, terminated, termHeard, discarded>>

(* The sleep(MAX_WAIT_TIME) branch of select! wins (line 149).  Time is    *)
(* abstract: the timer may fire at any point of the wait, also when the    *)
(* notification is ready too (select! picks among ready branches).         *)
Timeout(c) ==
    /\ pc[c] = "wait"
    /\ pc' = [pc EXCEPT ![c] = "timeout"]
    /\ UNCHANGED <<counter, senders, slot, notified, chan, cid, result, answer,
                   streamVars, peerVars, disp, terminated, termHeard, discarded>>

(* The msg_event.listen() branch wins (line 161). *)
Wake(c) ==
    /\ pc[c] = "wait"
    /\ cid[c] \in notified
    /\ pc' = [pc EXCEPT ![c] = "woken"]
    /\ UNCHANGED <<counter, senders, slot, notified, chan, cid, result, answer,
                   streamVars, peerVars, disp, terminated, termHeard, discarded>>

(* Timeout branch body (lines 150-158): remove the waiter, TimedOut. *)
TimeoutRemove(c) ==
    /\ pc[c] = "timeout"
    /\ ~DispHoldsLock
    /\ senders' = Remove(senders, cid[c])
    /\ pc' = [pc EXCEPT ![c] = "idle"]
    /\ result' = [result EXCEPT ![c] = "timeout"]
    /\ UNCHANGED <<counter, slot, notified, chan, cid, answer, streamVars,
                   peerVars, disp, terminated, termHeard, discarded>>

(* Notified branch body (lines 163-192): remove the waiter, then read the  *)
(* slot: bytes decode to the response, an empty slot is UnexpectedEof.     *)
(* msg.try_lock() cannot fail: the dispatcher locks the slot only inside   *)
(* its senders-lock section, which this step excludes.                     *)
WokenRemove(c) ==
    /\ pc[c] = "woken"
    /\ ~DispHoldsLock
    /\ senders' = Remove(senders, cid[c])
    /\ pc' = [pc EXCEPT ![c] = "idle"]
    /\ result' = [result EXCEPT ![c] = IF slot[cid[c]] = None THEN "eof" ELSE "ok"]
    /\ answer' = [answer EXCEPT ![c] = slot[cid[c]]]
    /\ UNCHANGED <<counter, slot, notified, chan, cid, streamVars, peerVars,
                   disp, terminated, termHeard, discarded>>

(* The caller drops the send_and_receive future at one of its awaits.      *)
(* Nothing in the function unregisters the waiter on drop.                 *)
Cancel(c) ==
    /\ CanCancel
    /\ pc[c] \in {"register", "send", "wait", "timeout", "woken"}
    /\ pc' = [pc EXCEPT ![c] = "idle"]
    /\ result' = [result EXCEPT ![c] = "cancelled"]
    /\ UNCHANGED <<counter, senders, slot, notified, chan, cid, answer,
                   streamVars, peerVars, disp, terminated, termHeard, discarded>>

-----------------------------------------------------------------------------
(***************************************************************************)
(* create_stream (lines 199-242) and AsyncResponse (lines 248-307).        *)
(***************************************************************************)

(* Take a correlation id and create the bounded channel (lines 207-214). *)
Create(s) ==
    /\ spc[s] = "idle"
    /\ ~terminated
    /\ counter <= MaxId
    /\ sid' = [sid EXCEPT ![s] = counter]
    /\ counter' = counter + 1
    /\ chan' = [chan EXCEPT ![counter] = [buf |-> << >>, closed |-> FALSE]]
    /\ got' = [got EXCEPT ![s] = << >>]
    /\ spc' = [spc EXCEPT ![s] = "register"]
    /\ UNCHANGED <<senders, slot, notified, callerVars, peerVars, disp,
                   terminated, termHeard, discarded>>

(* Mutant: the retain predicate keeps only open queues, dropping serial *)
(* waiters too.                                                            *)
SRegisterSweepsAll(s) ==
    /\ spc[s] = "register"
    /\ ~DispHoldsLock
    /\ LET live == {i \in DOMAIN senders :
                      senders[i].kind = "queue" /\ ~chan[i].closed}
       IN  senders' = (sid[s] :> [kind |-> "queue", owner |-> s])
                          @@ Restrict(senders, live)
    /\ spc' = [spc EXCEPT ![s] = "send"]
    /\ UNCHANGED <<counter, slot, notified, chan, callerVars, sid, got,
                   peerVars, disp, terminated, termHeard, discarded>>

(* Under the senders lock: drop every queue waiter whose channel is closed *)
(* (retain, lines 219-222), then insert this one (line 224).               *)
SRegister(s) ==
    /\ spc[s] = "register"
    /\ ~DispHoldsLock
    /\ LET live == {i \in DOMAIN senders :
                      senders[i].kind = "serial" \/ ~chan[i].closed}
       IN  senders' = (sid[s] :> [kind |-> "queue", owner |-> s])
                          @@ Restrict(senders, live)
    /\ spc' = [spc EXCEPT ![s] = "send"]
    /\ UNCHANGED <<counter, slot, notified, chan, callerVars, sid, got,
                   peerVars, disp, terminated, termHeard, discarded>>

(* sink.send_request (line 229).  On failure the receiver is dropped with  *)
(* the function's locals, which closes the channel; the waiter stays until *)
(* a later sweep.                                                          *)
SSend(s) ==
    /\ spc[s] = "send"
    /\ \/ /\ toServer' = toServer \cup {[id |-> sid[s], kind |-> "queue", owner |-> s]}
          /\ spc' = [spc EXCEPT ![s] = "open"]
          /\ UNCHANGED chan
       \/ /\ peer # "open"
          /\ chan' = [chan EXCEPT ![sid[s]].closed = TRUE]
          /\ spc' = [spc EXCEPT ![s] = "idle"]
          /\ UNCHANGED toServer
    /\ UNCHANGED <<counter, senders, slot, notified, callerVars, sid, got,
                   replied, toClient, peer, disp, terminated, termHeard, discarded>>

(* The create_stream future is dropped at one of its awaits; its receiver *)
(* goes with it and the channel closes.                                    *)
SCancel(s) ==
    /\ CanCancel
    /\ spc[s] \in {"register", "send"}
    /\ chan' = [chan EXCEPT ![sid[s]].closed = TRUE]
    /\ spc' = [spc EXCEPT ![s] = "idle"]
    /\ UNCHANGED <<counter, senders, slot, notified, callerVars, sid, got,
                   peerVars, disp, terminated, termHeard, discarded>>

(* Mutant: the item is read from the channel but not taken off it. *)
PollPeek(s) ==
    /\ spc[s] = "open"
    /\ chan[sid[s]].buf # << >>
    /\ LET item == Head(chan[sid[s]].buf)
       IN  got' = [got EXCEPT ![s] = IF item = None THEN @ ELSE Append(@, item)]
    /\ UNCHANGED <<counter, senders, slot, notified, chan, callerVars, spc, sid,
                   peerVars, disp, terminated, termHeard, discarded>>

(* poll_next with an item ready (lines 276-306): Some(bytes) is decoded   *)
(* and yielded, None is yielded as Err(SocketClosed).                      *)
Poll(s) ==
    /\ spc[s] = "open"
    /\ chan[sid[s]].buf # << >>
    /\ LET item == Head(chan[sid[s]].buf)
       IN  got' = [got EXCEPT ![s] = IF item = None THEN @ ELSE Append(@, item)]
    /\ chan' = [chan EXCEPT ![sid[s]].buf = Tail(@)]
    /\ UNCHANGED <<counter, senders, slot, notified, callerVars, spc, sid,
                   peerVars, disp, terminated, termHeard, discarded>>

(* poll_next on an empty, closed channel yields None (line 287): the      *)
(* stream has ended and the caller drops the handle.                       *)
EndOfStream(s) ==
    /\ spc[s] = "open"
    /\ chan[sid[s]].buf = << >>
    /\ chan[sid[s]].closed
    /\ spc' = [spc EXCEPT ![s] = "idle"]
    /\ UNCHANGED <<counter, senders, slot, notified, chan, callerVars, sid, got,
                   peerVars, disp, terminated, termHeard, discarded>>

(* Mutant: the caller leaves the stream without dropping the handle (kept *)
(* alive, e.g. moved into a task that never polls it), so the receiver     *)
(* stays open and the dispatcher may block on it.                         *)
AbandonStream(s) ==
    /\ spc[s] = "open"
    /\ spc' = [spc EXCEPT ![s] = "idle"]
    /\ UNCHANGED <<counter, senders, slot, notified, chan, callerVars, sid, got,
                   peerVars, disp, terminated, termHeard, discarded>>

(* Dropping the AsyncResponse closes the receiver (lines 256-262). *)
DropStream(s) ==
    /\ spc[s] = "open"
    /\ chan' = [chan EXCEPT ![sid[s]].closed = TRUE]
    /\ spc' = [spc EXCEPT ![s] = "idle"]
    /\ UNCHANGED <<counter, senders, slot, notified, callerVars, sid, got,
                   peerVars, disp, terminated, termHeard, discarded>>

-----------------------------------------------------------------------------
(***************************************************************************)
(* MultiPlexingResponseDispatcher (lines 311-441).                         *)
(***************************************************************************)

(* queue_sender.send(item).await (lines 360, 418) for an open channel with *)
(* room, or the Err of a closed one; a full open channel blocks instead.   *)
\* mutant: the channel is made unbounded instead of bounded(queue_len)
CanPushUnbounded(i) == TRUE

CanPush(i) == chan[i].closed \/ Len(chan[i].buf) < QueueLen
Push(i, item) ==
    chan' = IF chan[i].closed THEN chan
            ELSE [chan EXCEPT ![i].buf = Append(@, item)]

(* Mutant: the queue send is a try_send that drops the frame when full. *)
DispatchToTrySend(i, b) ==
    \/ /\ i \notin DOMAIN senders
       /\ discarded' = discarded \cup {i}
       /\ UNCHANGED <<slot, notified, chan, disp>>
    \/ /\ i \in DOMAIN senders
       /\ senders[i].kind = "serial"
       /\ slot' = [slot EXCEPT ![i] = b]
       /\ notified' = IF Listening(i) THEN notified \cup {i} ELSE notified
       /\ UNCHANGED <<chan, disp, discarded>>
    \/ /\ i \in DOMAIN senders
       /\ senders[i].kind = "queue"
       /\ IF CanPush(i) THEN Push(i, b) ELSE UNCHANGED chan
       /\ UNCHANGED <<slot, notified, discarded, disp>>

(* send(correlation_id, msg) (lines 391-440), under the senders lock.     *)
(* Serial: store the bytes (overwriting) and notify(1), which only wakes a *)
(* listener already registered.  Queue: push, or block holding the lock.   *)
(* No waiter: the frame is logged and dropped.                             *)
DispatchTo(i, b) ==
    \/ /\ i \notin DOMAIN senders
       /\ discarded' = discarded \cup {i}
       /\ UNCHANGED <<slot, notified, chan, disp>>
    \/ /\ i \in DOMAIN senders
       /\ senders[i].kind = "serial"
       /\ slot' = [slot EXCEPT ![i] = b]
       /\ notified' = IF Listening(i) THEN notified \cup {i} ELSE notified
       /\ UNCHANGED <<chan, disp, discarded>>
    \/ /\ i \in DOMAIN senders
       /\ senders[i].kind = "queue"
       /\ \/ /\ CanPush(i)
             /\ Push(i, b)
             /\ UNCHANGED disp
          \/ /\ ~CanPush(i)
             /\ disp' = DispRecord("qblocked", i, b, {})
             /\ UNCHANGED chan
       /\ UNCHANGED <<slot, notified, discarded>>

(* A frame arrives and its correlation id is decoded (lines 334-345). *)
DispRead ==
    /\ disp.st = "read"
    /\ toClient # << >>
    /\ toClient' = Tail(toClient)
    /\ DispatchTo(Head(toClient).id, Head(toClient).body)
    /\ UNCHANGED <<counter, senders, callerVars, streamVars, toServer, replied,
                   peer, terminated, termHeard>>

(* The blocked queue send completes or fails; the lock is released. *)
DispUnblock ==
    /\ disp.st = "qblocked"
    /\ CanPush(disp.id)
    /\ Push(disp.id, disp.item)
    /\ disp' = DispReading
    /\ UNCHANGED <<counter, senders, slot, notified, callerVars, streamVars,
                   peerVars, terminated, termHeard, discarded>>

(* End of the read half (lines 352-356): lock the map and visit its queue *)
(* waiters in HashMap order.                                               *)
DispEof ==
    /\ disp.st = "read"
    /\ toClient = << >>
    /\ peer = "closed"
    /\ disp' = DispRecord("eof", 0, None,
                          {i \in DOMAIN senders : senders[i].kind = "queue"})
    /\ UNCHANGED <<counter, senders, slot, notified, chan, callerVars,
                   streamVars, peerVars, terminated, termHeard, discarded>>

(* send(None) to one queue waiter (line 360); serial waiters are skipped. *)
DispEofSend ==
    /\ disp.st = "eof"
    /\ \E i \in disp.todo :
          /\ CanPush(i)
          /\ Push(i, None)
          /\ disp' = [disp EXCEPT !.todo = @ \ {i}]
    /\ UNCHANGED <<counter, senders, slot, notified, callerVars, streamVars,
                   peerVars, terminated, termHeard, discarded>>

(* break (line 364); the guard is dropped. *)
DispEofDone ==
    /\ disp.st = "eof"
    /\ disp.todo = {}
    /\ disp' = DispRecord("done", 0, None, {})
    /\ UNCHANGED <<counter, senders, slot, notified, chan, callerVars,
                   streamVars, peerVars, terminated, termHeard, discarded>>

(* A read error on the frame stream (lines 348-351): stop, telling no one. *)
DispBroken ==
    /\ disp.st = "read"
    /\ toClient = << >>
    /\ peer = "broken"
    /\ disp' = DispRecord("done", 0, None, {})
    /\ UNCHANGED <<counter, senders, slot, notified, chan, callerVars,
                   streamVars, peerVars, terminated, termHeard, discarded>>

(* terminate.listen() fires (lines 368-383): close every queue channel. *)
DispTerminate ==
    /\ disp.st = "read"
    /\ termHeard
    /\ chan' = [i \in Ids |->
                  IF i \in DOMAIN senders /\ senders[i].kind = "queue"
                  THEN [chan[i] EXCEPT !.closed = TRUE]
                  ELSE chan[i]]
    /\ disp' = DispRecord("done", 0, None, {})
    /\ UNCHANGED <<counter, senders, slot, notified, callerVars, streamVars,
                   peerVars, terminated, termHeard, discarded>>

-----------------------------------------------------------------------------
(* Drop for MultiplexerSocket (lines 70-75): possible once no call holds  *)
(* the socket.  Event::notify reaches only a listener that exists, i.e. a  *)
(* dispatcher waiting in select! (line 333), not one inside a send.        *)
Drop ==
    /\ ~terminated
    /\ \A c \in SerialCallers : pc[c] = "idle"
    /\ \A s \in StreamCallers : spc[s] \in {"idle", "open"}
    /\ terminated' = TRUE
    /\ termHeard' = (disp.st = "read")
    /\ UNCHANGED <<counter, senders, slot, notified, chan, callerVars,
                   streamVars, peerVars, disp, discarded>>

(***************************************************************************)
(* The peer: the test server of lines 490-560, which answers each echo    *)
(* request once and each status request with a sequence of responses.     *)
(***************************************************************************)
(* A serial request is answered once; under the "dup" fault the peer may  *)
(* write the same reply frame a second time, which send (lines 391-403)   *)
(* stores into the slot again or, once the caller has removed its sender, *)
(* logs and drops.                                                         *)
SerialCopies == IF "dup" \in PeerFaults THEN 2 ELSE 1
MaxReplies(r) == IF r.kind = "serial" THEN SerialCopies ELSE StreamResponses

PeerReply(r) ==
    /\ peer = "open"
    /\ replied[r.id] < MaxReplies(r)
    /\ toClient' = Append(toClient,
                          [id |-> r.id,
                           body |-> IF r.kind = "serial" THEN r.owner
                                    ELSE replied[r.id] + 1])
    /\ replied' = [replied EXCEPT ![r.id] = @ + 1]
    /\ UNCHANGED <<counter, senders, slot, notified, chan, callerVars,
                   streamVars, toServer, peer, disp, terminated, termHeard,
                   discarded>>

(* The connection ends: EOF after the frames already sent, or a read error. *)
PeerFail(f) ==
    /\ peer = "open"
    /\ f \in PeerFaults
    /\ peer' = IF f = "close" THEN "closed" ELSE "broken"
    /\ UNCHANGED <<counter, senders, slot, notified, chan, callerVars,
                   streamVars, toServer, replied, toClient, disp, terminated,
                   termHeard, discarded>>

(* Nothing left to do: every caller idle and no id left or socket dropped. *)
Quiescent ==
    /\ counter > MaxId \/ terminated
    /\ \A c \in SerialCallers : pc[c] = "idle"
    /\ \A s \in StreamCallers : spc[s] = "idle"
    /\ UNCHANGED vars

-----------------------------------------------------------------------------
SerialStep(c) ==
    \/ Call(c) \/ Register(c) \/ Send(c) \/ Listen(c) \/ Timeout(c)
    \/ Wake(c) \/ TimeoutRemove(c) \/ WokenRemove(c) \/ Cancel(c)

StreamStep(s) ==
    \/ Create(s) \/ SRegister(s) \/ SSend(s) \/ SCancel(s) \/ Poll(s)
    \/ EndOfStream(s) \/ DropStream(s)

DispatcherStep ==
    \/ DispRead \/ DispUnblock \/ DispEof \/ DispEofSend \/ DispEofDone
    \/ DispBroken \/ DispTerminate

PeerStep ==
    \/ \E r \in toServer : PeerReply(r)
    \/ \E f \in {"close", "break"} : PeerFail(f)

Next ==
    \/ \E c \in SerialCallers : SerialStep(c)
    \/ \E s \in StreamCallers : StreamStep(s)
    \/ DispatcherStep
    \/ PeerStep
    \/ Drop
    \/ Quiescent

Spec == Init /\ [][Next]_vars

(***************************************************************************)
(* Fairness.  The dispatcher task runs whenever it can; the sink write,    *)
(* listen and the timer of a pending call happen; async_lock's Mutex is    *)
(* fair, so a step waiting for the senders lock, which the dispatcher      *)
(* takes and releases, gets it (strong fairness).  Consumers keep polling  *)
(* an open stream.  Nobody is obliged to call, cancel or drop, and the     *)
(* peer is not obliged to answer or to close.                              *)
(***************************************************************************)
Fairness ==
    /\ \A c \in SerialCallers :
          /\ SF_vars(Register(c)) /\ WF_vars(Send(c)) /\ WF_vars(Listen(c))
          /\ WF_vars(Timeout(c)) /\ SF_vars(TimeoutRemove(c))
          /\ SF_vars(WokenRemove(c))
    /\ \A s \in StreamCallers :
          /\ SF_vars(SRegister(s)) /\ WF_vars(SSend(s))
          /\ WF_vars(Poll(s)) /\ WF_vars(EndOfStream(s))
    /\ WF_vars(DispatcherStep)

FairSpec == Spec /\ Fairness

(* The same, except that a stream's consumer need not poll: it may hold   *)
(* the AsyncResponse and stop reading, which the spec (section 9) allows:  *)
(* "Consumers that fall behind are expected".                              *)
IdleConsumerFairness ==
    /\ \A c \in SerialCallers :
          /\ SF_vars(Register(c)) /\ WF_vars(Send(c)) /\ WF_vars(Listen(c))
          /\ WF_vars(Timeout(c)) /\ SF_vars(TimeoutRemove(c))
          /\ SF_vars(WokenRemove(c))
    /\ \A s \in StreamCallers : SF_vars(SRegister(s)) /\ WF_vars(SSend(s))
    /\ WF_vars(DispatcherStep)

IdleConsumerSpec == Spec /\ IdleConsumerFairness

-----------------------------------------------------------------------------
(***************************************************************************)
(* Properties.                                                             *)
(***************************************************************************)

(* Routing: a serial call that returns Ok returns the response to its own *)
(* request, and a stream yields only responses to its own request.  The   *)
(* response travels back under the correlation id, so this fails if two   *)
(* outstanding exchanges ever share an id (the counter of correlation_id)  *)
(* or a waiter is found under another exchange's id.                       *)
ResponseMatchesRequest ==
    /\ \A c \in SerialCallers : result[c] = "ok" => answer[c] = c
    /\ \A s \in StreamCallers : \A k \in 1..Len(got[s]) : got[s][k] \notin SerialCallers

(* Register before send: a frame for an exchange whose caller is still    *)
(* waiting is never thrown away for want of a waiter.  Breaks if the      *)
(* waiter is inserted after the write, or if the create_stream sweep       *)
(* (retain) or another caller removes a live waiter.                       *)
NoDiscardForLiveWaiter ==
    /\ \A c \in SerialCallers : pc[c] \in {"listen", "wait"} => cid[c] \notin discarded
    /\ \A s \in StreamCallers : spc[s] = "open" => sid[s] \notin discarded

(* Every send_and_receive returns (with a response, an error or TimedOut): *)
(* FLV_SOCKET_WAIT bounds a serial call.                                   *)
SerialCallReturns ==
    \A c \in SerialCallers : (pc[c] # "idle") ~> (pc[c] = "idle")

(* Backpressure without loss (spec section 9): a stream whose consumer  *)
(* keeps polling eventually yields every response the peer has written    *)
(* under its id, or ends; the dispatcher blocking on the full queue while  *)
(* holding the senders lock (line 418) delays the k-th response but never  *)
(* drops it.                                                               *)
StreamYieldsResponses ==
    \A s \in StreamCallers, k \in 1..StreamResponses :
        (spc[s] = "open" /\ replied[sid[s]] >= k)
            ~> (spc[s] # "open" \/ Len(got[s]) >= k)

(* Lost wake-up (spec section 9): a caller waiting in select! whose slot  *)
(* has been filled has been notified.                                      *)
NoLostWakeup ==
    \A c \in SerialCallers :
        (pc[c] = "wait" /\ slot[cid[c]] # None) => cid[c] \in notified

(* Cancellation (spec 4.5.2 step 4): every serial waiter in the map       *)
(* belongs to a caller still inside that call.                             *)
NoOrphanWaiter ==
    \A i \in DOMAIN senders :
        senders[i].kind = "serial" =>
            \E c \in SerialCallers : cid[c] = i /\ pc[c] # "idle"

(* Drop (spec section 8, scenario 6): once the MultiplexerSocket is       *)
(* dropped, a stream still held by a consumer observes end-of-stream.     *)
StreamEndsAfterDrop ==
    \A s \in StreamCallers : (terminated /\ spc[s] = "open") ~> (spc[s] # "open")

(* Dispatcher exit (spec 4.5.4: Open -> Closed on dispatcher closure;    *)
(* 4.6: end-of-file is signalled to queue waiters as stream-end): once    *)
(* dispatcher_loop has returned, an open stream whose consumer keeps       *)
(* polling ends.  Breaks if the loop exits without closing the queues, on  *)
(* a read error (line 349) or EOF (line 360), or if create_stream          *)
(* registers a queue after the loop has gone (line 224).                   *)
StreamEndsAfterDispatcherExit ==
    \A s \in StreamCallers : (spc[s] = "open" /\ disp.st = "done") ~> (spc[s] # "open")

(* Peer closure (spec 4.6): a serial call already waiting, with an empty  *)
(* slot, while the dispatcher handles EOF (lines 352-366, which hold the  *)
(* senders lock, so the waiter was registered before EOF) returns         *)
(* UnexpectedEof ("connection is closed", lines 179-185).                 *)
EofReachesSerialCaller ==
    \A c \in SerialCallers :
        (pc[c] = "wait" /\ slot[cid[c]] = None /\ disp.st = "eof")
        ~> (result[c] = "eof")

-----------------------------------------------------------------------------
(***************************************************************************)
(* Refinement: the stream callers implement StreamExchange.  A stream is  *)
(* open from Create until its spc is idle again, under sid; what it has    *)
(* yielded is got, and the peer's replies under an id are what it emitted. *)
(***************************************************************************)
STX == INSTANCE StreamExchange
        WITH Streams <- StreamCallers,
             sst     <- [s \in StreamCallers |-> IF spc[s] = "idle" THEN "idle" ELSE "open"],
             seen    <- got,
             emitted <- replied

(* create_stream and AsyncResponse keep StreamExchange's promise: a stream *)
(* opens under an id no open stream holds and the peer has not answered,   *)
(* and yields only responses the peer has already emitted under that id,   *)
(* each once and in emission order, through backpressure, EOF, drops and   *)
(* cancellation.                                                           *)
StreamExchangeRefined == STX!SSpec
=============================================================================
