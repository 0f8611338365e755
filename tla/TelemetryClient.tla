-------------------------- MODULE TelemetryClient --------------------------
(***************************************************************************)
(* client/main.py: the client that comes with the server.  It receives     *)
(* what the server sends in pieces of any length, decodes each, appends it *)
(* to a buffer and cuts the frames out of the buffer.                      *)
(*                                                                         *)
(* The bytes of a message are kept apart where the client looks at them:   *)
(* the braces ("open", "close"), the text "payloadType":"frame"            *)
(* ("frame_type"), the NUL that ends a message ("nul"), and the two bytes  *)
(* of a character outside ASCII, which city names have ("lead", "trail").  *)
(***************************************************************************)
EXTENDS Naturals, Sequences

CONSTANTS
    Kinds,         \* what the server sends: some of "frame", "gameplay"
    Wide,          \* whether the payload has a character outside ASCII
    MaxMessages    \* bound of the model: messages sent

ASSUME KindsAssumption == Kinds \subseteq {"frame", "gameplay"} /\ Wide \in BOOLEAN
ASSUME BoundAssumption == MaxMessages \in Nat

VARIABLES
    sentKinds,     \* the messages the server has sent
    wire,          \* their bytes that the client has not received
    closed,        \* the server has closed the connection
    pc,            \* "recv", "parse" (the inner loop) or "stopped"
    buffer,
    telemetry,     \* history: the numbers of the messages that were loaded
    why            \* history: what stopped the client

vars == <<sentKinds, wire, closed, pc, buffer, telemetry, why>>

\* A message as dump() writes it: the keys are sorted, so the payload comes before
\* the payloadType.  "empty" is the snapshot before there has been a frame.
Layout(kind) ==
    LET type == IF kind = "frame" THEN "frame_type" ELSE "other_type"
    IN IF kind = "empty" THEN <<"nul">>
       ELSE IF Wide THEN <<"open", "open", "lead", "trail", "close", type, "close", "nul">>
       ELSE <<"open", "open", "ascii", "close", type, "close", "nul">>

\* The bytes of the n-th message.
Bytes(n, kind) ==
    [i \in DOMAIN Layout(kind) |-> [of |-> n, at |-> i, byte |-> Layout(kind)[i]]]

\* One complete JSON value: a message without its NUL.
IsObject(s) ==
    \E n \in DOMAIN sentKinds :
        /\ sentKinds[n] # "empty"
        /\ s = SubSeq(Bytes(n, sentKinds[n]), 1, Len(Layout(sentKinds[n])) - 1)

\* The client has connected.
Init ==
    /\ sentKinds = <<>> /\ wire = <<>> /\ closed = FALSE
    /\ pc = "recv" /\ buffer = <<>>
    /\ telemetry = <<>> /\ why = "running"

-----------------------------------------------------------------------------
(* The server: first the snapshot, then events (NetworkHandler.tla) *)

Send(kind) ==
    /\ ~closed /\ Len(sentKinds) < MaxMessages
    /\ sentKinds = <<>> => kind \in {"frame", "empty"}
    /\ kind = "empty" => sentKinds = <<>>
    /\ sentKinds' = Append(sentKinds, kind)
    /\ wire' = wire \o Bytes(Len(sentKinds'), kind)
    /\ UNCHANGED <<closed, pc, buffer, telemetry, why>>

CloseConnection ==
    /\ ~closed /\ closed' = TRUE
    /\ UNCHANGED <<sentKinds, wire, pc, buffer, telemetry, why>>

-----------------------------------------------------------------------------
(* The client *)

Stop(reason) == pc' = "stopped" /\ why' = reason

\* decode("utf-8") raises when a piece begins or ends within a character.
Decodes(data) == data[1].byte # "trail" /\ data[Len(data)].byte # "lead"

\* recv(1024) and decode: any piece of what has come.
Recv ==
    /\ pc = "recv"
    /\ \E n \in 1 .. Len(wire) :
          LET data == SubSeq(wire, 1, n) IN
          /\ wire' = SubSeq(wire, n + 1, Len(wire))
          /\ IF Decodes(data)
             THEN pc' = "parse" /\ buffer' = buffer \o data /\ UNCHANGED why
             ELSE Stop("error") /\ UNCHANGED buffer
    /\ UNCHANGED <<sentKinds, closed, telemetry>>

RecvClosed ==
    /\ pc = "recv" /\ wire = <<>> /\ closed
    /\ Stop("closed")
    /\ UNCHANGED <<sentKinds, wire, closed, buffer, telemetry>>

KeyboardInterrupt ==
    /\ pc # "stopped"
    /\ Stop("interrupt")
    /\ UNCHANGED <<sentKinds, wire, closed, buffer, telemetry>>

\* buffer.find(text, from): 0 when there is none.
Find(text, from) ==
    LET found == {i \in from .. Len(buffer) : buffer[i].byte = text} IN
    IF found = {} THEN 0 ELSE CHOOSE i \in found : \A j \in found : i <= j

frame_start_index == Find("open", 1)
frame_end_index == Find("frame_type", 1)

\* Fault: the first closing brace of the buffer.
LastBracketFirst == Find("close", 1)
last_bracket_index == Find("close", frame_end_index)

\* One pass of the inner loop.  What json.loads does not accept stays in the
\* buffer, and the client waits for more.
Parse ==
    /\ pc = "parse"
    /\ IF frame_start_index = 0 \/ frame_end_index = 0 \/ last_bracket_index = 0
       THEN pc' = "recv" /\ UNCHANGED <<buffer, telemetry, why>>
       ELSE LET json_str == SubSeq(buffer, frame_start_index, last_bracket_index) IN
            IF IsObject(json_str)
            THEN /\ telemetry' = Append(telemetry, json_str[1].of)
                 /\ buffer' = SubSeq(buffer, last_bracket_index + 1, Len(buffer))
                 /\ UNCHANGED <<pc, why>>
            ELSE pc' = "recv" /\ UNCHANGED <<buffer, telemetry, why>>
    /\ UNCHANGED <<sentKinds, wire, closed>>

Stopped == pc = "stopped" /\ UNCHANGED vars

Next ==
    \/ \E kind \in Kinds \cup {"empty"} : Send(kind)
    \/ CloseConnection
    \/ Recv \/ RecvClosed \/ Parse \/ KeyboardInterrupt
    \/ Stopped

Spec == Init /\ [][Next]_vars

-----------------------------------------------------------------------------
(* Properties *)

\* The frames whose last brace the client has received.
Arrived ==
    {n \in DOMAIN sentKinds :
        /\ sentKinds[n] = "frame"
        /\ \A i \in DOMAIN wire : wire[i].of = n => wire[i].byte = "nul"}

\* s has the members of S, each once, in order.
Lists(s, S) ==
    /\ {s[i] : i \in DOMAIN s} = S
    /\ \A i, j \in DOMAIN s : i < j => s[i] < s[j]

\* main.py:25: when the client waits for more, it has processed every complete
\* frame it has received, each once and in order, wherever the stream was cut.
FramesProcessed == pc = "recv" => Lists(telemetry, Arrived)

\* main.py:23, :44: what is received is appended to the buffer, and what is incomplete is
\* waited for, wherever the stream was cut: the client ends only when the server or the
\* user ends the connection.
KeepsRunning == why # "error"
=============================================================================
