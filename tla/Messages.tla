------------------------------ MODULE Messages ------------------------------
(***************************************************************************)
(* A message to the Steam servers and the answer's way back into the       *)
(* program: ProtoMsg (messaging/protomsg.hpp) with the BufferHelpers       *)
(* (utils/jslikebuffer.cpp).  A message is an EMsg of 4 bytes, the size of *)
(* its header in 4 bytes, the header, and the body, which goes to the end. *)
(*                                                                         *)
(* Bytes are counted, not kept: what matters of the header and the body is *)
(* their size and whether protobuf can parse them.                         *)
(*                                                                         *)
(* Definitions whose comment begins with "Without" or "Wrong" are variants *)
(* with a plausible bug.                                                   *)
(***************************************************************************)
EXTENDS Integers

CONSTANTS MaxHeader,   \* bound: bytes in a header
          MaxBody      \* bound: bytes in a body

ASSUME MessagesAssumption == MaxHeader \in Nat \ {0} /\ MaxBody \in Nat

VARIABLES message,   \* the bytes that arrive
          serialized, \* what Serialize was given
          cursorPos, \* FromBinary's cursor
          reader,    \* where FromBinary is
          header,    \* succeeded_parsing_header, and whether its bytes were read
          body,      \* the same of the body
          success    \* what the caller finds in ProtoMsg::success

messagesVars == <<message, serialized, cursorPos, reader, header, body, success>>

UInt32 == 4                       \* sizeof(uint32_t)
Minus1 == -1                      \* how 0xFFFFFFFF compares, ReadUint32's error
AnEMsg == 0                       \* any EMsg but 0xFFFFFFFF
NoMessage == [length |-> 0, eMsg |-> AnEMsg, headerSize |-> 0]
Unread == [read |-> FALSE, ok |-> TRUE, size |-> 0]
\* NULL, returned as a ProtoMsg, is a new one whose success was never set.
Verdict == {"unknown", "true", "false", "uninitialized"}

\* The servers' messages carry any header size, and their parts may not parse.
MessagesInit ==
    /\ serialized \in [header : 1..MaxHeader, body : 0..MaxBody,
                 headerParses : BOOLEAN, bodyParses : BOOLEAN]
    /\ message = NoMessage
    /\ cursorPos = 0
    /\ reader = "idle"
    /\ header = Unread /\ body = Unread
    /\ success = "unknown"

Reads(to) == reader = to

\* ReadUint32 returns -1 and leaves the cursor where it is when fewer than four
\* bytes are left.
CanRead(size) == cursorPos < message.length /\ cursorPos + size <= message.length

\* Wrong end: the byte behind the last one is read.
ReadLengthPastEnd(size) ==
    IF cursorPos <= message.length /\ cursorPos + size <= message.length + 1
    THEN [read |-> TRUE, ok |-> TRUE, size |-> size]
    ELSE [read |-> FALSE, ok |-> FALSE, size |-> size]

\* ReadLength: the bytes, or nullptr when the cursor is at the end already (so
\* also for nothing at all) or not enough are left.
ReadLength(size) ==
    IF CanRead(size) THEN [read |-> TRUE, ok |-> TRUE, size |-> size]
                     ELSE [read |-> FALSE, ok |-> FALSE, size |-> size]

-----------------------------------------------------------------------------
(* Serialize, and the way *)

\* The message arrives as it was serialized.
Serialize ==
    /\ Reads("idle") /\ message = NoMessage
    /\ message' = [length |-> 2 * UInt32 + serialized.header + serialized.body,
                   eMsg |-> AnEMsg, headerSize |-> serialized.header]
    /\ reader' = "eMsg"
    /\ UNCHANGED <<serialized, cursorPos, header, body, success>>

\* A server answers with something else: of any length, with any EMsg, saying any
\* header size.
AnswersOddly(length, eMsg, size) ==
    /\ Reads("idle") /\ message = NoMessage
    /\ message' = [length |-> length, eMsg |-> eMsg, headerSize |-> size]
    /\ reader' = "eMsg"
    /\ UNCHANGED <<serialized, cursorPos, header, body, success>>

-----------------------------------------------------------------------------
(* FromBinary *)

\* ReadUint32, and the check of what it returns: the value may be -1 itself.
ReadUint32(value, next) ==
    /\ cursorPos' = IF CanRead(UInt32) THEN cursorPos + UInt32 ELSE cursorPos
    /\ IF CanRead(UInt32) /\ value # Minus1
       THEN reader' = next /\ success' = success
       ELSE reader' = "done" /\ success' = "false"
    /\ UNCHANGED <<message, serialized, header, body>>

ReadEMsg == Reads("eMsg") /\ ReadUint32(message.eMsg, "headerSize")

ReadHeaderSize == Reads("headerSize") /\ ReadUint32(message.headerSize, "header")

ReadHeader ==
    LET h == ReadLength(message.headerSize)
    IN  /\ Reads("header")
        /\ header' = h
        /\ cursorPos' = IF h.read THEN cursorPos + h.size ELSE cursorPos
        /\ reader' = "body"
        /\ UNCHANGED <<message, serialized, body, success>>

\* The body is what the cursor has left, the unread header included.
ReadBody ==
    LET b == ReadLength(message.length - cursorPos)
    IN  /\ Reads("body")
        /\ body' = b
        /\ cursorPos' = IF b.read THEN cursorPos + b.size ELSE cursorPos
        /\ reader' = "parse"
        /\ UNCHANGED <<message, serialized, header, success>>

\* A std::string of the header's size is made from no bytes: std::logic_error,
\* which is not the exception that is caught.
HeaderThrows ==
    /\ Reads("parse")
    /\ ~header.read /\ header.size > 0
    /\ reader' = "thrown"
    /\ UNCHANGED <<message, serialized, cursorPos, header, body, success>>

\* protobuf parses both; nothing at all parses, too, but is not forgiven when
\* the bytes could not be read.
Parse ==
    LET headerOk == header.ok /\ serialized.headerParses
        bodyOk == body.ok /\ serialized.bodyParses
    IN  /\ Reads("parse")
        /\ header.read \/ header.size = 0
        /\ success' = IF ~headerOk THEN "uninitialized" ELSE IF bodyOk THEN "true" ELSE "false"
        /\ reader' = "done"
        /\ UNCHANGED <<message, serialized, cursorPos, header, body>>

MessagesNext ==
    \/ Serialize
    \/ \E length \in 0 .. 2 * UInt32 + MaxHeader + MaxBody, eMsg \in {AnEMsg, Minus1},
          size \in {Minus1} \cup 0..MaxHeader : AnswersOddly(length, eMsg, size)
    \/ ReadEMsg
    \/ ReadHeaderSize
    \/ ReadHeader
    \/ ReadBody
    \/ HeaderThrows
    \/ Parse

MessagesSpec == MessagesInit /\ [][MessagesNext]_messagesVars

-----------------------------------------------------------------------------
(* Properties *)

MessagesTypeOK ==
    /\ message.length \in Nat /\ message.eMsg \in {AnEMsg, Minus1}
    /\ message.headerSize \in {Minus1} \cup 0..MaxHeader
    /\ cursorPos \in Nat
    /\ reader \in {"idle", "eMsg", "headerSize", "header", "body", "parse", "done", "thrown"}
    /\ header \in [read : BOOLEAN, ok : BOOLEAN, size : Nat]
    /\ body \in [read : BOOLEAN, ok : BOOLEAN, size : Int]
    /\ success \in Verdict

\* Whatever length a message has and whatever header size it claims, nothing
\* past its end is read, and a message that is found good was read to the end,
\* header and body apart (jslikebuffer.cpp:64, protomsg.hpp:143).
ReadsJustTheMessage ==
    /\ cursorPos <= message.length
    /\ success = "true" =>
           /\ cursorPos = message.length
           /\ header.size = message.headerSize
           /\ header.size + body.size = message.length - 2 * UInt32 /\ body.size > 0
=============================================================================
