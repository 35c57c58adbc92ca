-------------------------------- MODULE Hub --------------------------------
(***************************************************************************)
(* The event hub behind the server's middleware: a client asks for the     *)
(* stream of events, the hub registers a channel for it, and broadcasts    *)
(* send to the registered channels.  A step is what happens under the      *)
(* hub's lock, or one turn of the handler's loop.  What a handler can do   *)
(* with a response depends on the methods of the writer it is handed.      *)
(***************************************************************************)
EXTENDS Naturals, Sequences

CONSTANTS
    Clients,     \* signed-in clients of GET /ws
    Buffer,      \* the capacity of a channel, 64 in the code
    MaxEvents    \* bound: events broadcast in a behaviour

VARIABLES
    clients,     \* the map of the hub: clients whose channel is in it
    queue,       \* queue[c]: the events in the channel of c
    answer,      \* answer[c]: "none" yet, "refused" (500), or the "stream"
    shown,       \* shown[c]: how many events c's connection was written
    events       \* how many events there were

vars == <<clients, queue, answer, shown, events>>

-----------------------------------------------------------------------------
(* The writer of a response *)

\* The interface every handler is given, and what the server's own writer,
\* *http.response, has besides.
ResponseWriter == {"Header", "Write", "WriteHeader"}
ConnectionWriter == ResponseWriter \cup {"Flush", "Hijack"}

\* logMiddleware hands on a *statusWriter: it embeds the interface, so of the
\* writer it wraps only the methods of the interface are left.
StatusWriter(w) == w \cap ResponseWriter

\* Handler: corsMiddleware and authMiddleware hand on the writer they get.
Handler(w) == StatusWriter(w)

-----------------------------------------------------------------------------

Init ==
    /\ clients = {}
    /\ queue = [c \in Clients |-> <<>>]
    /\ answer = [c \in Clients |-> "none"]
    /\ shown = [c \in Clients |-> 0]
    /\ events = 0

\* HandleWebSocket: the writer must be a Flusher; then the channel is
\* registered, and the answer begins.
Connect(c) ==
    /\ answer[c] = "none"
    /\ IF "Flush" \in Handler(ConnectionWriter)
       THEN /\ clients' = clients \cup {c}
            /\ answer' = [answer EXCEPT ![c] = "stream"]
       ELSE /\ answer' = [answer EXCEPT ![c] = "refused"]
            /\ UNCHANGED clients
    /\ UNCHANGED <<queue, shown, events>>

\* A turn of the handler's loop: an event of the channel is written,
Receive(c) ==
    /\ answer[c] = "stream"
    /\ queue[c] # <<>>
    /\ queue' = [queue EXCEPT ![c] = Tail(@)]
    /\ shown' = [shown EXCEPT ![c] = @ + 1]
    /\ UNCHANGED <<clients, answer, events>>

\* or the request is over and the channel is unregistered.
Disconnect(c) ==
    /\ answer[c] = "stream"
    /\ clients' = clients \ {c}
    /\ queue' = [queue EXCEPT ![c] = <<>>]
    /\ answer' = [answer EXCEPT ![c] = "none"]
    /\ shown' = [shown EXCEPT ![c] = 0]
    /\ UNCHANGED events

\* Broadcast: to every registered channel that has room.
Broadcast ==
    /\ events < MaxEvents
    /\ events' = events + 1
    /\ queue' = [c \in Clients |->
                    IF c \in clients /\ Len(queue[c]) < Buffer
                    THEN Append(queue[c], events') ELSE queue[c]]
    /\ UNCHANGED <<clients, answer, shown>>

Next ==
    \/ \E c \in Clients : Connect(c) \/ Receive(c) \/ Disconnect(c)
    \/ Broadcast

Spec == Init /\ [][Next]_vars

-----------------------------------------------------------------------------
(* What the repository says and the code does not do *)

\* "Connect via: const es = new EventSource("/ws")": a signed-in client that
\* asks for the stream is never refused it.
StreamServed == \A c \in Clients : answer[c] # "refused"
=============================================================================
