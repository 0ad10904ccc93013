------------------------------- MODULE Relays -------------------------------
(***************************************************************************)
(* How the repository's programs read packets and pass them on: the        *)
(* gateway (gateway.go), the four modes of testthroughput/eth/eth2ip.go    *)
(* (main1 to main4), testthroughput/ip/ip2ip.go, and the TCP handler       *)
(* (tcp/tcp_handler.go) with the senders of cnt/handler.go and the         *)
(* BuffersPool.  They differ in whose memory a packet is in when it is     *)
(* sent: the variable program says which one runs.                         *)
(*                                                                         *)
(* sendToIpv2 of both relays and sendToContainerHelper of cnt/handler.go   *)
(* are the same code.  Each takes its sync.RWMutex by value, so every      *)
(* goroutine locks a copy of its own, and nothing excludes the others.     *)
(*                                                                         *)
(* The gateway's sender ends with the write; the routing in between is in  *)
(* FlowTable.  Packets are long enough for their addresses and ports to be *)
(* read.  A write that fails is logged, and counts as a write.             *)
(***************************************************************************)
EXTENDS BuffersPool, FiniteSets

CONSTANTS
  Program,    \* the programs to look at
  Packets,    \* a bound on the packets that arrive
  Arrivals,   \* how many arrive for each program
  FlowOf,     \* the CRC of each packet's addresses and ports
  Header,     \* bytes 9 (protocol) and 23 (port) of each packet
  ZeroFlow,   \* the CRC of a zeroed buffer
  Nil         \* no connection

Packet == 1..Packets

Flow == {FlowOf[p] : p \in Packet} \cup {ZeroFlow}

Programs == {"gateway", "main1", "main2", "main3", "main4", "ip2ip", "tcp"}

ASSUME RelaysAssumption ==
  /\ Program \subseteq Programs
  /\ Packets \in Nat /\ Nil \notin Packet
  /\ Arrivals \in [Program -> 0..Packets]
  /\ \A p \in Packet : Header[p] \in [{9, 23} -> 0..255]

VARIABLES
  program,  \* the program that runs
  reader,   \* the reading loop: [pc, pkt, buf]
  rbuf,     \* the packet in the one buffer it reads into
  sender,   \* the goroutine that sends each packet: [pc, from, code, conn, late]
  connMap,  \* crc2ConnMap, crcConnMap: the connection of each flow
  out,      \* the packets whose senders have written, in order
  last,     \* the last write: the bytes and the code of its flow
  panic     \* what ended the program, or "none"

relayVars == <<program, reader, rbuf, sender, connMap, out, last, panic>>
vars == <<buffersVars, relayVars>>

-----------------------------------------------------------------------------
(* Whose memory a packet is in: its own, the buffer that the loop reads    *)
(* into, or a buffer of the pool, by its number.                           *)
Own == -1
Shared == -2

NoSender == [pc |-> "off", from |-> Own, code |-> ZeroFlow, conn |-> Nil,
             late |-> FALSE]

(* A flow without a connection maps to 0, a failed dial to Nil, and a      *)
(* connection is known by the packet whose sender dialled it.              *)
Init ==
  /\ BuffersInit
  /\ program \in Program
  /\ reader = [pc |-> IF program = "tcp" THEN "next" ELSE "read",
               pkt |-> 0, buf |-> 0]
  /\ rbuf = 0
  /\ sender = [p \in Packet |-> NoSender]
  /\ connMap = [f \in Flow |-> 0]
  /\ out = <<>>
  /\ last = [data |-> {}, code |-> ZeroFlow]
  /\ panic = "none"

Crash(cause) ==
  /\ panic' = cause
  /\ UNCHANGED <<buffersVars, program, reader, rbuf, sender, connMap, out, last>>

(* Mutants: the gateway looks at the target port; main1 starts a sender    *)
(* for each packet; the map is not looked at; packets to port 67 are not   *)
(* passed on.                                                              *)
PortIs67(p) == Header[p][23] = 67
LineAlwaysFree == TRUE
KnownNever(f) == FALSE
Dropped67(p) == program # "ip2ip" /\ Header[p][23] = 67

-----------------------------------------------------------------------------
(* The payload of a frame starts at its byte 14.                           *)
FrameByte(p, k) == Header[p][k - 14]

IsUDP(p) == Header[p][9] = 17

(* gateway.go: the handler gets the read buffer itself, or the payload,    *)
(* which UnmarshalBinary has copied.                                       *)
GivesBuffer(p) == FrameByte(p, 23) = 67

GatewayFrom(p) == IF GivesBuffer(p) THEN Shared ELSE Own

PayloadFrom(p) == Own

(* ip2ip and main4 pass a slice of the read buffer on.                     *)
SharedFrom(p) == Shared

(* Whose memory the packet is in when it is passed on.                     *)
From(p) ==
  CASE program = "gateway" -> GatewayFrom(p)
    [] program \in {"main1", "main2", "main3"} -> PayloadFrom(p)
    [] program \in {"main4", "ip2ip"} -> SharedFrom(p)

Spawn(p, from) ==
  sender' = [sender EXCEPT ![p] =
    [pc |-> "crc", from |-> from, code |-> ZeroFlow, conn |-> Nil,
     late |-> connMap[FlowOf[p]] # 0]]

(* A packet is read; what is not UDP is dropped.  ip2ip reads from a UDP   *)
(* socket and looks at nothing.                                            *)
Dropped(p) == program # "ip2ip" /\ ~IsUDP(p)

Arrives(p) == p = reader.pkt + 1 /\ p <= Arrivals[program]

(* The loops of gateway.go, main2 and ip2ip: a goroutine for each packet.  *)
ReadAndSpawn(p) ==
  /\ program \in {"gateway", "main2", "ip2ip"}
  /\ reader.pc = "read" /\ Arrives(p)
  /\ reader' = [reader EXCEPT !.pkt = p]
  /\ rbuf' = p
  /\ IF Dropped(p) THEN UNCHANGED sender ELSE Spawn(p, From(p))
  /\ UNCHANGED <<buffersVars, program, connMap, out, last, panic>>

(* The loops of main1, main3 and main4: offer the packet to the sender, or *)
(* send it, before the next read.                                          *)
ReadOne(p) ==
  /\ program \in {"main1", "main3", "main4"}
  /\ reader.pc = "read" /\ Arrives(p)
  /\ reader' = [reader EXCEPT !.pkt = p,
                  !.pc = IF Dropped(p) THEN "read"
                         ELSE IF program = "main1" THEN "offer" ELSE "inline"]
  /\ rbuf' = p
  /\ UNCHANGED <<buffersVars, program, sender, connMap, out, last, panic>>

(* main1: pktChan <- ipBuff, when sendToIp has written what it got before. *)
LineFree == \A q \in Packet : sender[q].pc = "off"

Offer(p) ==
  /\ program = "main1" /\ reader.pc = "offer" /\ p = reader.pkt
  /\ LineFree
  /\ reader' = [reader EXCEPT !.pc = "read"]
  /\ sender' = [sender EXCEPT ![p].pc = "write", ![p].from = From(p),
                              ![p].conn = p]
  /\ UNCHANGED <<buffersVars, program, rbuf, connMap, out, last, panic>>

(* main3 and main4: sendToIpv3 writes the packet before the next read.     *)
Inline(p) == IF From(p) = Own THEN p ELSE rbuf

WriteInline(p) ==
  /\ reader.pc = "inline" /\ p = reader.pkt
  /\ out' = Append(out, p) /\ last' = [data |-> {Inline(p)}, code |-> ZeroFlow]
  /\ reader' = [reader EXCEPT !.pc = "read"]
  /\ UNCHANGED <<buffersVars, program, rbuf, sender, connMap, panic>>

-----------------------------------------------------------------------------
(* The TCP handler: take a buffer, read a packet into it, pass the buffer's*)
(* bytes to sendToContainer, which starts a sender, and release it.        *)
TcpNext ==
  /\ program = "tcp" /\ reader.pc = "next"
  /\ \E b \in Buffer : NextBuffer(b) /\ reader' = [reader EXCEPT !.pc = "read",
                                                                !.buf = b]
  /\ UNCHANGED <<program, rbuf, sender, connMap, out, last, panic>>

TcpRead(p) ==
  /\ program = "tcp" /\ reader.pc = "read" /\ Arrives(p)
  /\ Fill(reader.buf, p)
  /\ reader' = [reader EXCEPT !.pc = "offer", !.pkt = p]
  /\ UNCHANGED <<program, rbuf, sender, connMap, out, last, panic>>

(* The read fails: release the buffer and return.                          *)
TcpReadError ==
  /\ program = "tcp" /\ reader.pc = "read"
  /\ Release(reader.buf)
  /\ reader' = [reader EXCEPT !.pc = "stopped"]
  /\ UNCHANGED <<program, rbuf, sender, connMap, out, last, panic>>

TcpOffer(p) ==
  /\ program = "tcp" /\ reader.pc = "offer" /\ p = reader.pkt
  /\ Spawn(p, reader.buf)
  /\ reader' = [reader EXCEPT !.pc = "release"]
  /\ UNCHANGED <<buffersVars, program, rbuf, connMap, out, last, panic>>

TcpRelease ==
  /\ program = "tcp" /\ reader.pc = "release"
  /\ Release(reader.buf)
  /\ reader' = [reader EXCEPT !.pc = "next"]
  /\ UNCHANGED <<program, rbuf, sender, connMap, out, last, panic>>

(* A read, an unmarshalling or the one dial of main1 fails: log.Fatalf;    *)
(* main4 reads again.                                                      *)
ReadFatal ==
  /\ program \notin {"main4", "tcp"} /\ reader.pc = "read"
  /\ Crash("exit")

Reader ==
  \/ \E p \in Packet : \/ ReadAndSpawn(p) \/ ReadOne(p) \/ Offer(p)
                        \/ WriteInline(p) \/ TcpRead(p) \/ TcpOffer(p)
  \/ TcpNext \/ TcpReadError \/ TcpRelease \/ ReadFatal

-----------------------------------------------------------------------------
SenderTo(p, l) == sender' = [sender EXCEPT ![p].pc = l]

(* The packets whose bytes a sender may find in its packet's memory.  A    *)
(* read that overlaps with the next one into that memory, or with Memset   *)
(* of a clean-up goroutine, sees a mixture.                                *)
Bytes(p, from) ==
  CASE from = Own -> {{p}}
    [] from = Shared -> {{rbuf, q} : q \in rbuf..Arrivals[program]}
    [] OTHER -> {{buff[from], q} : q \in {buff[from], 0} \cup ((p + 1)..Arrivals[program])}

(* PktCrc16; the code of a mixture may be any.                             *)
CodesOf(d) ==
  IF Cardinality(d) > 1 THEN Flow
  ELSE {IF q = 0 THEN ZeroFlow ELSE FlowOf[q] : q \in d}

Crc(p) ==
  /\ sender[p].pc = "crc"
  /\ \E d \in Bytes(p, sender[p].from) : \E f \in CodesOf(d) :
       sender' = [sender EXCEPT
         ![p].code = f,
         ![p].pc = IF program = "gateway" THEN "write" ELSE "lookup",
         ![p].conn = IF program = "gateway" THEN p ELSE Nil]
  /\ UNCHANGED <<buffersVars, program, reader, rbuf, connMap, out, last, panic>>

Known(f) == connMap[f] # 0

(* The first look at the map, and one more check.                          *)
Lookup(p) ==
  LET f == sender[p].code IN
  /\ sender[p].pc \in {"lookup", "check"}
  /\ sender' = [sender EXCEPT
       ![p].pc = IF Known(f) THEN "write"
                 ELSE IF sender[p].pc = "lookup" THEN "check"
                 ELSE IF program = "tcp" THEN "wait" ELSE "dial",
       ![p].conn = IF Known(f) THEN connMap[f] ELSE Nil]
  /\ UNCHANGED <<buffersVars, program, reader, rbuf, connMap, out, last, panic>>

(* handleContainerPool passes a registered container on to cnt := <-cntChan.*)
AwaitContainer(p) ==
  /\ sender[p].pc = "wait"
  /\ SenderTo(p, "dial")
  /\ UNCHANGED <<buffersVars, program, reader, rbuf, connMap, out, last, panic>>

(* net.DialUDP.  The relays exit when it fails, the gateway's sender logs. *)
Dial(p) ==
  /\ sender[p].pc = "dial"
  /\ \E c \in IF program = "tcp" THEN {p, Nil} ELSE {p} :
       sender' = [sender EXCEPT ![p].pc = "store", ![p].conn = c]
  /\ UNCHANGED <<buffersVars, program, reader, rbuf, connMap, out, last, panic>>

DialFatal(p) ==
  /\ sender[p].pc = "dial" /\ program # "tcp"
  /\ Crash("exit")

Store(p) ==
  /\ sender[p].pc = "store"
  /\ connMap' = [connMap EXCEPT ![sender[p].code] = sender[p].conn]
  /\ SenderTo(p, "write")
  /\ UNCHANGED <<buffersVars, program, reader, rbuf, out, last, panic>>

(* The map is written while another goroutine reads or writes it.          *)
MapRace(p) ==
  /\ sender[p].pc = "store"
  /\ \E q \in Packet \ {p} : sender[q].pc \in {"lookup", "check", "store"}
  /\ Crash("concurrent map access")

Write(p) ==
  LET s == sender[p] IN
  /\ s.pc = "write" /\ s.conn # Nil
  /\ out' = Append(out, p)
  /\ \E d \in Bytes(p, s.from) : last' = [data |-> d, code |-> s.code]
  /\ sender' = [sender EXCEPT ![p] = NoSender]
  /\ UNCHANGED <<buffersVars, program, reader, rbuf, connMap, panic>>

WriteNil(p) ==
  /\ sender[p].pc = "write" /\ sender[p].conn = Nil
  /\ Crash("nil connection")

Sender(p) ==
  \/ Crc(p) \/ Lookup(p) \/ Dial(p) \/ DialFatal(p)
  \/ Store(p) \/ MapRace(p) \/ Write(p) \/ WriteNil(p)

Next ==
  /\ panic = "none"
  /\ \/ Reader
     \/ \E p \in Packet : Sender(p) \/ AwaitContainer(p)
     \/ \E c \in Cleaner : CleanUp(c) /\ UNCHANGED relayVars

Spec == Init /\ [][Next]_vars

-----------------------------------------------------------------------------
Written(p) == \E k \in 1..Len(out) : out[k] = p

(* Where each packet has memory of its own, or is sent before the next one *)
(* is read, exactly that packet is written, by the gateway and main2 with  *)
(* the code of its flow.  ip2ip and the TCP handler give the memory away   *)
(* while the sender still reads it: what is written there may come from a  *)
(* later packet or be zeroed, but never comes from an earlier packet.      *)
Faithful ==
  out # <<>> =>
    LET p == out[Len(out)] IN
    /\ program \notin {"ip2ip", "tcp"} => last.data = {p}
    /\ program \in {"gateway", "main2"} => last.code = FlowOf[p]
    /\ program = "ip2ip" => \A d \in last.data : d >= p
    /\ program = "tcp" => \A d \in last.data : d = 0 \/ d >= p

(* main1, main3 and main4 keep the order of the packets and lose none: a   *)
(* UDP packet read before another one is written before it.                *)
InOrder ==
  program \in {"main1", "main3", "main4"} =>
    \A k \in 1..Len(out), p \in Packet :
      p < out[k] /\ IsUDP(p) => \E j \in 1..(k - 1) : out[j] = p

(* main2: a packet that is read when its flow has a connection never dials *)
(* another one, whatever the senders before it do.                         *)
NoSecondDial ==
  program = "main2" =>
    \A p \in Packet : sender[p].late => sender[p].pc \notin {"dial", "store"}

(* The Go scheduler runs every goroutine that can run.  Nothing obliges a  *)
(* packet to arrive or a container to register.                            *)
LiveSpec ==
  /\ Spec
  /\ WF_vars(panic = "none" /\ (TcpNext \/ TcpRelease))
  /\ \A p \in Packet :
       /\ WF_vars(panic = "none" /\ (Offer(p) \/ WriteInline(p) \/ TcpOffer(p)))
       /\ WF_vars(panic = "none" /\ Sender(p))
  /\ \A c \in Cleaner : WF_vars(panic = "none" /\ CleanUp(c) /\ UNCHANGED relayVars)

(* Every UDP packet that a relay reads is written in the end, unless the   *)
(* program ends.                                                           *)
PassedOn ==
  \A p \in Packet :
    (reader.pkt = p /\ program \notin {"gateway", "tcp"}
       /\ (IsUDP(p) \/ program = "ip2ip"))
      ~> (Written(p) \/ panic # "none")

(* The TCP handler gets a buffer, whatever its senders wait for, when the  *)
(* pool is large enough to have a clean-up goroutine.                      *)
NextReturns ==
  Cleaner # {} => (reader.pc = "next" ~> (reader.pc # "next" \/ panic # "none"))

=============================================================================
