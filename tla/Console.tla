------------------------------ MODULE Console ------------------------------
(***************************************************************************)
(* One TCP connection, byte for byte: the host tool (app/tcp_client.py),   *)
(* the stream between them, and the connection task, which cuts the stream *)
(* into lines (net/tcp/tcp_client.c) and hands it to the OTA transfer for  *)
(* as long as that lasts (ota/ota_handler.c).                              *)
(*                                                                         *)
(* A byte is a letter, "cr", "nl", or half of a CRC; an image may contain  *)
(* any of them.  A line that begins with "o" is the OTA command.           *)
(***************************************************************************)
EXTENDS Naturals, Sequences, SequencesExt

CONSTANTS
  Scripts,   \* the lines a host may be about to send
  Image,     \* the firmware image
  LineMax,   \* letters the line buffer holds, 127 in the code
  RecvBuf,   \* bytes one recv takes, 256 in the code
  WriteBuf,  \* OTA_WRITE_BUF_SZ
  HostChunk  \* bytes the host sends at once, C.CHUNK

Bytes == {"o", "p", "q", "cr", "nl", "crc1", "crc2"}

\* The host tool strips what its user types, and sends nothing empty (session.py).
Stripped(l) == l # <<>> /\ Head(l) # "cr" /\ \A i \in DOMAIN l : l[i] # "nl"

ASSUME ConsoleAssumption ==
  /\ LineMax \in Nat \ {0} /\ RecvBuf \in Nat \ {0} /\ WriteBuf \in Nat \ {0}
  /\ HostChunk \in Nat \ {0}
  /\ Image \in Seq(Bytes) /\ Image # <<>>
  /\ \A s \in Scripts : s \in Seq(Seq(Bytes)) /\ \A i \in DOMAIN s : Stripped(s[i])

VARIABLES
  todo, hpc, sent,   \* the host: lines to send, program counter, bytes of the image sent
  net, gone, back,   \* bytes on their way; whether the connection has ended after them;
                     \* answers on their way
  dpc, chunk, line,  \* the task: program counter, what is left of buf, the line buffer
  flushing, timed,   \* it has left its loop; SO_RCVTIMEO is set
  got, flashed,      \* recv_fully's buffer, what the session wrote
  asked, executed, fault, astray \* history: lines sent, lines dispatched, a failure of the
                     \* network, the flash or a peer's patience, a transfer given up halfway

host   == <<todo, hpc, sent>>
stream == <<net, gone>>
ota    == <<got, flashed>>
task   == <<dpc, chunk, line, flushing, timed>>
hist   == <<asked, executed, fault, astray>>
vars   == <<host, stream, back, task, ota, hist>>

Tail4    == <<"crc1", "crc2">>     \* the CRC of Image
IsOta(l) == Head(l) = "o"

Init ==
  /\ todo \in Scripts /\ hpc = "idle" /\ sent = 0
  /\ net = <<>> /\ gone = FALSE /\ back = <<>>
  /\ dpc = "recv" /\ chunk = <<>> /\ line = <<>> /\ flushing = FALSE /\ timed = FALSE
  /\ got = <<>> /\ flashed = <<>>
  /\ asked = <<>> /\ executed = <<>> /\ fault = FALSE /\ astray = FALSE

-----------------------------------------------------------------------------
(***************************************************************************)
(* The host.  It gives every answer some time and goes on without.         *)
(***************************************************************************)
HGoto(from, to) == hpc = from /\ hpc' = to
hFrame == <<task, ota, executed, astray>>

HSend ==
  /\ todo # <<>> /\ ~gone
  /\ HGoto("idle", IF IsOta(Head(todo)) THEN "ack" ELSE "reply")
  /\ todo' = Tail(todo) /\ asked' = Append(asked, Head(todo))
  /\ net' = net \o Append(Head(todo), "nl")
  /\ UNCHANGED <<sent, gone, back, fault, hFrame>>

\* send_line: the answer, or nobody's within the timeout.
HReply ==
  /\ HGoto("reply", "idle")
  /\ back' = IF back = <<>> THEN back ELSE Tail(back)
  /\ UNCHANGED <<todo, sent, stream, asked, fault, hFrame>>

\* ota_tcp: the payload follows ACK; any other answer, or none, closes.
HAck ==
  /\ back # <<>> /\ back' = Tail(back)
  /\ IF Head(back) = "ACK" THEN HGoto("ack", "payload") /\ UNCHANGED <<gone, fault>>
                           ELSE HGoto("ack", "closed") /\ gone' = TRUE /\ fault' = TRUE
  /\ UNCHANGED <<todo, sent, net, asked, hFrame>>

HAckTimeout ==
  /\ HGoto("ack", "closed")
  /\ gone' = TRUE /\ fault' = TRUE
  /\ UNCHANGED <<todo, sent, net, back, asked, hFrame>>

HPayload ==
  /\ hpc = "payload" /\ sent < Len(Image)
  /\ sent' = Min({sent + HostChunk, Len(Image)})
  /\ net' = net \o SubSeq(Image, sent + 1, sent')
  /\ UNCHANGED <<todo, hpc, gone, back, asked, fault, hFrame>>

HCrc ==
  /\ sent = Len(Image) /\ HGoto("payload", "verdict")
  /\ net' = net \o Tail4
  /\ UNCHANGED <<todo, sent, gone, back, asked, fault, hFrame>>

\* It closes after an upload, whatever the verdict, and when its user leaves.
HClose ==
  /\ HGoto("verdict", "closed") \/ HGoto("idle", "closed")
  /\ gone' = TRUE
  /\ UNCHANGED <<todo, sent, net, back, asked, fault, hFrame>>

\* The connection breaks, and with it what was on its way.
Cut ==
  /\ ~gone /\ gone' = TRUE
  /\ hpc' = "closed" /\ fault' = TRUE
  /\ \E n \in 0..Len(net) : net' = SubSeq(net, 1, n)
  /\ UNCHANGED <<todo, sent, back, asked, hFrame>>

Upload == HAck \/ HPayload \/ HCrc

-----------------------------------------------------------------------------
(***************************************************************************)
(* The connection task: client_task.                                       *)
(***************************************************************************)
DGoto(from, to) == dpc = from /\ dpc' = to
dFrame == <<host, asked>>

Take(n) == net' = SubSeq(net, n + 1, Len(net))

DRecv ==
  /\ DGoto("recv", "parse")
  /\ \E n \in 1..Min({Len(net), RecvBuf}) : chunk' = SubSeq(net, 1, n) /\ Take(n)
  /\ UNCHANGED <<gone, back, line, flushing, timed, ota, executed, fault, astray, dFrame>>

\* recv returns 0, or -1 when the timeout an OTA command left behind has passed.
DRecvEnds ==
  /\ DGoto("recv", "dispatch")
  /\ net = <<>> /\ (gone \/ timed)
  /\ flushing' = TRUE /\ fault' = (fault \/ ~gone)
  /\ UNCHANGED <<stream, back, chunk, line, timed, ota, executed, astray, dFrame>>

\* Variant: the buffer's end is not looked at.
PutUnbounded(l, c) == IF c # "cr" THEN Append(l, c) ELSE l

\* A letter goes to the line buffer while it has room, "\r" never.
Put(l, c) == IF c # "cr" /\ Len(l) < LineMax THEN Append(l, c) ELSE l

Filled(l, s) ==
  LET copied[n \in 0..Len(s)] == IF n = 0 THEN l ELSE Put(copied[n - 1], s[n])
  IN  copied[Len(s)]

pFrame == <<stream, back, flushing, timed, ota, executed, fault, astray, dFrame>>

\* Variant: what follows the line in the same chunk is dropped.
DParseLineDrops ==
  /\ \E k \in DOMAIN chunk :
       /\ chunk[k] = "nl" /\ \A j \in 1..k-1 : chunk[j] # "nl"
       /\ line' = Filled(line, SubSeq(chunk, 1, k - 1))
  /\ chunk' = <<>>
  /\ DGoto("parse", "dispatch")
  /\ UNCHANGED pFrame

DParseLine ==
  /\ \E k \in DOMAIN chunk :
       /\ chunk[k] = "nl" /\ \A j \in 1..k-1 : chunk[j] # "nl"
       /\ line' = Filled(line, SubSeq(chunk, 1, k - 1))
       /\ chunk' = SubSeq(chunk, k + 1, Len(chunk))
  /\ DGoto("parse", "dispatch")
  /\ UNCHANGED pFrame

DParseRest ==
  /\ \A k \in DOMAIN chunk : chunk[k] # "nl"
  /\ line' = Filled(line, chunk) /\ chunk' = <<>>
  /\ DGoto("parse", "recv")
  /\ UNCHANGED pFrame

\* Where a command returns to: the loop, or the end of the task.
Back == IF flushing THEN "closed" ELSE "parse"

\* Variant: the line buffer is not emptied.
DDispatchKeeps ==
  /\ dpc = "dispatch"
  /\ UNCHANGED line
  /\ executed' = IF line = <<>> THEN executed ELSE Append(executed, line)
  /\ IF line # <<>> /\ IsOta(line)
       THEN dpc' = "ota_ack" /\ UNCHANGED back
       ELSE dpc' = Back /\ back' = IF line = <<>> THEN back ELSE Append(back, "answer")
  /\ UNCHANGED <<stream, chunk, flushing, timed, ota, fault, astray, dFrame>>

\* cmd_dispatch_line, of a complete line or of what is left when the loop ends.
DDispatch ==
  /\ dpc = "dispatch"
  /\ line' = <<>>
  /\ executed' = IF line = <<>> THEN executed ELSE Append(executed, line)
  /\ IF line # <<>> /\ IsOta(line)
       THEN dpc' = "ota_ack" /\ UNCHANGED back
       ELSE dpc' = Back /\ back' = IF line = <<>> THEN back ELSE Append(back, "answer")
  /\ UNCHANGED <<stream, chunk, flushing, timed, ota, fault, astray, dFrame>>

-----------------------------------------------------------------------------
(***************************************************************************)
(* ota_perform, on the same socket.                                        *)
(***************************************************************************)
oFrame == <<chunk, line, flushing, executed, dFrame>>

\* Variant: the socket keeps waiting for ever.
OAckPatient ==
  /\ DGoto("ota_ack", "ota_begin")
  /\ UNCHANGED timed
  /\ back' = Append(back, "ACK")
  /\ UNCHANGED <<stream, ota, fault, astray, oFrame>>

\* The timeout is set, and stays; the size is announced by ACK, before the erase.
OAck ==
  /\ DGoto("ota_ack", "ota_begin")
  /\ timed' = TRUE
  /\ back' = Append(back, "ACK")
  /\ UNCHANGED <<stream, ota, fault, astray, oFrame>>

OBegin ==
  /\ DGoto("ota_begin", "ota_recv")
  /\ got' = <<>> /\ flashed' = <<>>
  /\ UNCHANGED <<stream, back, timed, fault, astray, oFrame>>

\* Variant: the last write takes a full buffer.
WantUncapped == WriteBuf

\* What recv_fully is asked for: payload up to the announced size, then the CRC.
Want == IF Len(flashed) < Len(Image) THEN Min({Len(Image) - Len(flashed), WriteBuf})
                                     ELSE Len(Tail4)

ORecv ==
  /\ dpc = "ota_recv" /\ Len(got) < Want
  /\ \E n \in 1..Min({Len(net), Want - Len(got)}) : got' = got \o SubSeq(net, 1, n) /\ Take(n)
  /\ UNCHANGED <<dpc, gone, back, timed, flashed, fault, astray, oFrame>>

OWrite ==
  /\ dpc = "ota_recv" /\ Len(got) = Want /\ Len(flashed) < Len(Image)
  /\ flashed' = flashed \o got /\ got' = <<>>
  /\ UNCHANGED <<dpc, stream, back, timed, fault, astray, oFrame>>

\* begin, a write or a receive fails: an error line, and back to reading lines.
OGiveUp ==
  /\ \/ dpc = "ota_begin"
     \/ dpc = "ota_recv" /\ Len(flashed) < Len(Image) /\ Len(got) = Want
     \/ dpc = "ota_recv" /\ Len(got) < Want /\ net = <<>>
  /\ dpc' = Back /\ back' = Append(back, "ERR")
  /\ got' = <<>> /\ astray' = TRUE
  /\ fault' = (fault \/ Len(got) = Want \/ hpc \in {"ack", "payload"} \/ dpc = "ota_begin")
  /\ UNCHANGED <<stream, timed, flashed, oFrame>>

AllIn   == dpc = "ota_recv" /\ Len(got) = Want /\ Len(flashed) >= Len(Image)
Matches == got = Tail4 /\ flashed = Image

\* ota_session_finish: the CRC agrees, the next boot is into the image.
OFinish ==
  /\ AllIn /\ Matches
  /\ dpc' = "restart" /\ back' = Append(back, "OK") /\ got' = <<>>
  /\ UNCHANGED <<stream, timed, flashed, fault, astray, oFrame>>

\* It does not agree, or a byte was damaged, or the flash refuses the image.
OFinishFails ==
  /\ AllIn
  /\ dpc' = Back /\ got' = <<>>
  /\ \E answer \in {"CRCFAIL", "ERR"} : back' = Append(back, answer)
  /\ fault' = (fault \/ Matches)
  /\ UNCHANGED <<stream, timed, flashed, astray, oFrame>>

Task == DRecv \/ DRecvEnds \/ DParseLine \/ DParseRest \/ DDispatch
        \/ OAck \/ OBegin \/ ORecv \/ OWrite \/ OGiveUp \/ OFinish \/ OFinishFails

-----------------------------------------------------------------------------
Next == HSend \/ HReply \/ HAckTimeout \/ Upload \/ HClose \/ Cut \/ Task

Spec == Init /\ [][Next]_vars

\* The task runs, and its receive timeout passes when nothing comes; a host in the
\* middle of an upload goes on with it (its user may still interrupt it: Cut).
FairSpec == Spec /\ WF_vars(Task) /\ WF_vars(Upload)

-----------------------------------------------------------------------------
\* Types, and the line buffer's bound.
TypeOK ==
  /\ todo \in Seq(Seq(Bytes)) /\ hpc \in {"idle", "reply", "ack", "payload", "verdict", "closed"}
  /\ sent \in 0..Len(Image)
  /\ net \in Seq(Bytes) /\ back \in Seq({"answer", "ACK", "ERR", "OK", "CRCFAIL"})
  /\ chunk \in Seq(Bytes) /\ Len(chunk) <= RecvBuf
  /\ line \in Seq(Bytes) /\ Len(line) <= LineMax
  /\ got \in Seq(Bytes) /\ flashed \in Seq(Bytes)
  /\ asked \in Seq(Seq(Bytes)) /\ executed \in Seq(Seq(Bytes))
  /\ {gone, flushing, timed, fault, astray} \subseteq BOOLEAN
  /\ dpc \in {"recv", "parse", "dispatch", "ota_ack", "ota_begin", "ota_recv", "closed", "restart"}

Seen(l) == Filled(<<>>, l)

\* Line i is dispatched as sent, cut to the buffer; the last one before the end of the
\* connection may be any beginning of it.
Faithful(i) ==
  \/ executed[i] = Seen(asked[i])
  \/ i = Len(executed) /\ flushing /\ IsPrefix(executed[i], Seen(asked[i]))

\* However the stream is cut into receives, the task dispatches the lines the host
\* sent, once and in order, and nothing else; what an OTA transfer reads never turns
\* into a command, unless the transfer was given up with its payload still to come.
LinesInOrder ==
  astray \/ (Len(executed) <= Len(asked) /\ \A i \in DOMAIN executed : Faithful(i))

\* What is flashed is the payload and nothing but: neither the CRC behind it nor the
\* bytes around the command get in.  (What follows a transfer given up halfway may
\* even look like another OTA command.)
FlashedIsPayload == astray \/ IsPrefix(flashed, Image)

\* Every line sent is dispatched, also when several arrive in one receive.
Served == []<>(fault \/ Len(executed) >= Len(asked))

\* An upload once begun ends in a restart into it, if nothing fails on the way.
UploadSucceeds == hpc = "payload" ~> (fault \/ dpc = "restart")

\* A transfer and what comes after it never hold the task for ever, however the host
\* stalls: the receive timeout stays with the socket.
TransferEnds == timed \/ dpc = "ota_begin" ~> dpc \in {"closed", "restart"}
=============================================================================
