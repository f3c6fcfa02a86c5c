--------------------------- MODULE StreamExchange ---------------------------
(***************************************************************************)
(* What MultiplexerSocket::create_stream promises the holder of the        *)
(* AsyncResponse, with the multiplexing left out.  A stream opens under a  *)
(* correlation id no other open stream holds and the peer has not yet      *)
(* answered; the peer emits numbered responses under ids; the stream       *)
(* yields the responses emitted under its own id, each once and in the     *)
(* order emitted, and never one not yet emitted.  The stream may end at    *)
(* any time (end of stream, cancellation or drop).                         *)
(***************************************************************************)
EXTENDS Naturals, Sequences

CONSTANTS Streams, Ids

VARIABLES
    sst,      \* stream -> "idle" | "open"
    sid,      \* stream -> id of its current (or last) request
    seen,     \* stream -> the responses it has yielded, in order
    emitted   \* id -> how many responses the peer has emitted under it

svars == <<sst, sid, seen, emitted>>

OpenStreamIds == {sid[s] : s \in {t \in Streams : sst[t] = "open"}}

SInit ==
    /\ sst = [s \in Streams |-> "idle"]
    /\ sid = [s \in Streams |-> 0]
    /\ seen = [s \in Streams |-> <<>>]
    /\ emitted = [i \in Ids |-> 0]

OpenStream(s, i) ==
    /\ sst[s] = "idle"
    /\ i \notin OpenStreamIds
    /\ emitted[i] = 0
    /\ sst' = [sst EXCEPT ![s] = "open"]
    /\ sid' = [sid EXCEPT ![s] = i]
    /\ seen' = [seen EXCEPT ![s] = <<>>]
    /\ UNCHANGED emitted

Emit(i) ==
    /\ emitted' = [emitted EXCEPT ![i] = @ + 1]
    /\ UNCHANGED <<sst, sid, seen>>

\* The next response in emission order, once the peer has emitted it.
Yield(s) ==
    /\ sst[s] = "open"
    /\ Len(seen[s]) < emitted[sid[s]]
    /\ seen' = [seen EXCEPT ![s] = Append(@, Len(@) + 1)]
    /\ UNCHANGED <<sst, sid, emitted>>

EndStream(s) ==
    /\ sst[s] = "open"
    /\ sst' = [sst EXCEPT ![s] = "idle"]
    /\ UNCHANGED <<sid, seen, emitted>>

SNext ==
    \/ \E s \in Streams, i \in Ids : OpenStream(s, i)
    \/ \E i \in Ids : Emit(i)
    \/ \E s \in Streams : Yield(s) \/ EndStream(s)

SSpec == SInit /\ [][SNext]_svars

====
