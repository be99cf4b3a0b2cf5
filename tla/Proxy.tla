------------------------------- MODULE Proxy -------------------------------
(***************************************************************************)
(* claude_proxy: one client connection, one Claude process.                *)
(*                                                                         *)
(* The proxy admits a bounded number of connections, starts a child for    *)
(* the turn a connection carries, relays the child's frames and ends with  *)
(* an error (if none was sent and there is one to tell) and "done".  A     *)
(* client that hangs up has its child terminated and is sent nothing more. *)
(***************************************************************************)
EXTENDS Naturals, Sequences, FiniteSets, Functions

CONSTANTS Connections,   \* identities of client connections
          ProxySlots,    \* _MAX_CONCURRENT
          Reports        \* what a result frame becomes: usage, then an error

VARIABLES
    stage,    \* where _handle_client is with a connection
    spoke,    \* connections whose child has produced text
    reported, \* connections whose child has produced its result frame
    errored,  \* error_sent
    wire,     \* frames sent and not yet read by the client
    gone,     \* connections the client has closed
    cut       \* connections lost in the network

Stages == {"none", "queued", "running", "closed"}

\* Frames the client tells apart: text; a usage frame with few or with many
\* output tokens; an error, one kind of which says the response stopped
\* arriving; the closing frame; and the end of the stream.
Usage == {"few", "many"}
Errors == {"error", "stalled"}
Frame == {"text", "done", "eof"} \cup Usage \cup Errors

ProxyInit ==
    /\ stage = [c \in Connections |-> "none"]
    /\ spoke = {}
    /\ reported = {}
    /\ errored = {}
    /\ wire = [c \in Connections |-> <<>>]
    /\ gone = {}
    /\ cut = {}

\* What reaches the client: nothing once either end or the network is gone.
Sent(c, frames) ==
    wire' = IF c \in gone \cup cut THEN wire
            ELSE [wire EXCEPT ![c] = @ \o frames]

Running == {c \in Connections : stage[c] = "running"}

\* The handler returns: its locals go with it.
Closed(c) ==
    /\ stage' = [stage EXCEPT ![c] = "closed"]
    /\ spoke' = spoke \ {c}
    /\ reported' = reported \ {c}
    /\ errored' = errored \ {c}

\* handle_client: a slot is taken for the whole connection, the turn is read
\* and the child started.
Spawn(c) ==
    /\ stage[c] = "queued" /\ c \notin gone \cup cut
    /\ Cardinality(Running) < ProxySlots
    /\ stage' = [stage EXCEPT ![c] = "running"]
    /\ UNCHANGED <<spoke, reported, errored, wire, gone, cut>>

SpawnFails(c) ==
    /\ stage[c] = "queued"
    /\ Cardinality(Running) < ProxySlots
    /\ Closed(c)
    /\ Sent(c, <<"error", "done", "eof">>)
    /\ UNCHANGED <<gone, cut>>

\* relay_stdout, a text frame of the child.
ChildSpeaks(c) ==
    /\ stage[c] = "running"
    /\ c \notin spoke \cup reported
    /\ spoke' = spoke \cup {c}
    /\ Sent(c, <<"text">>)
    /\ UNCHANGED <<stage, reported, errored, gone, cut>>

\* relay_stdout, the child's result frame: what was spent, then the error.
ChildReports(c, frames) ==
    /\ stage[c] = "running"
    /\ c \notin reported
    /\ reported' = reported \cup {c}
    /\ errored' = IF Range(frames) \cap Errors = {} THEN errored
                                                   ELSE errored \cup {c}
    /\ Sent(c, frames)
    /\ UNCHANGED <<stage, spoke, gone, cut>>

\* The child has exited, or was terminated after 300 seconds: a failure that
\* no error frame has told is told, and the stream is closed with "done".
ChildExits(c, failed) ==
    /\ stage[c] = "running"
    /\ Closed(c)
    /\ Sent(c, IF failed /\ c \notin errored THEN <<"error", "done", "eof">>
                                             ELSE <<"done", "eof">>)
    /\ UNCHANGED <<gone, cut>>

\* The client has hung up first: the child, if there is one, is terminated.
Hangup(c) ==
    /\ stage[c] \in {"queued", "running"}
    /\ c \in gone \cup cut
    /\ Closed(c)
    /\ UNCHANGED <<wire, gone, cut>>

\* The client closes its end: what it has not read is dropped.
HangsUp(c) ==
    /\ gone' = gone \cup {c}
    /\ wire' = [wire EXCEPT ![c] = <<>>]

\* The network, or the proxy process, is lost: the client reads what was
\* already on its way and then the end of the stream.
Cut(c) ==
    /\ stage[c] \in {"queued", "running"}
    /\ c \notin gone \cup cut
    /\ cut' = cut \cup {c}
    /\ wire' = [wire EXCEPT ![c] = Append(@, "eof")]
    /\ UNCHANGED <<stage, spoke, reported, errored, gone>>

Server(c) ==
    \/ Spawn(c) \/ SpawnFails(c) \/ ChildSpeaks(c)
    \/ \E frames \in Reports : ChildReports(c, frames)
    \/ \E failed \in BOOLEAN : ChildExits(c, failed)
    \/ Hangup(c)

ProxyTypeOK ==
    /\ stage \in [Connections -> Stages]
    /\ spoke \subseteq Connections
    /\ reported \subseteq Connections
    /\ errored \subseteq Connections
    /\ wire \in [Connections -> Seq(Frame)]
    /\ gone \subseteq Connections
    /\ cut \subseteq Connections
=============================================================================
