--------------------------- MODULE Fragmentation ---------------------------
(***************************************************************************)
(* The data path of a WebTransport connection with fragmentation: packets  *)
(* handed to Socket.WritePacket by any number of goroutines are cut into   *)
(* datagrams (writePacketFragmented), the network loses and reorders those,*)
(* and the peer's dataMessageHandler puts packets together again and       *)
(* throws old fragments away (cleanupFragments).                           *)
(*                                                                         *)
(* A slice stands for the bytes from..to-1 of a packet.  Arithmetic is     *)
(* that of the code: uint16 lengths, a seven-bit index, and an identifier  *)
(* of four bytes, each a remainder modulo 0xFF.  A datagram that is never  *)
(* received is a lost one; QUIC does not duplicate datagrams.              *)
(***************************************************************************)
EXTENDS Integers, FiniteSets

CONSTANTS
    Packets,       \* calls of WritePacket
    Lengths,       \* the lengths their packets may have
    UintMod,       \* 2^16
    IdMod,         \* 2^32
    ByteMod,       \* 256
    FirstIDs,      \* values of lastFragmentID when the first call is made
    Skips,         \* numbers of packets that may be lost altogether in a row
    MaxSkips,      \* bound on how often that happens
    InitialMax,    \* the payload limit RefreshFeatures sets
    Limits,        \* payload limits the QUIC stack may report
    MaxRefreshes   \* bound on the calls of RefreshFeatures

\* 5 bytes of header on a fragment, 1 on a whole packet.
FragmentHeader == 5

Payloads == {InitialMax} \cup Limits

ASSUME ModAssumption ==
    UintMod \in Nat \ {0} /\ IdMod \in Nat \ {0} /\ ByteMod \in Nat \ {0, 1}
ASSUME LengthsAssumption == Lengths \subseteq Nat
\* The seven bits of the index are enough for a packet of the largest size.
ASSUME PayloadsAssumption ==
    /\ Payloads \subseteq (FragmentHeader + 1)..(UintMod - 1)
    /\ \A m \in Payloads : 128 * (m - FragmentHeader) >= UintMod
ASSUME IdsAssumption == FirstIDs \subseteq 0..(IdMod - 1) /\ Skips \subseteq Nat
ASSUME BoundsAssumption == MaxSkips \in Nat /\ MaxRefreshes \in Nat

VARIABLES
    pc,              \* where each call of WritePacket is
    len,             \* the length of its packet
    attempt,         \* what its current writePacketFragmented is doing
    sending,         \* the calls whose datagram has passed the size check
    maxPayloadLen,   \* WebTransportAdapter.maxPayloadLen
    lastFragmentID,  \* Socket.lastFragmentID
    net,             \* datagrams on their way
    defragBuffer,    \* the receiver's Socket.defragBuffer
    delivered,       \* what processPacket has been given
    attempts,        \* history: the fragmentations that were started
    skips, refreshes

senderVars == <<pc, len, attempt, sending, maxPayloadLen, lastFragmentID, attempts>>
vars == <<senderVars, net, defragBuffer, delivered, skips, refreshes>>

----------------------------------------------------------------------------
(* Cutting a packet into fragments *)

Uint16(n) == n % UintMod

\* The four bytes of the identifier, as writePacketFragmented writes them.
EncodeID(id) == [i \in 0..3 |-> (id \div ByteMod^i) % (ByteMod - 1)]

\* An attempt to send a packet of length len in chunks under an identifier.
NoAttempt == [id |-> 0, packet |-> 0, len |-> 0, chunk |-> 0, frag |-> 0]

fragmentCount(a) == (a.len \div a.chunk) + (IF a.len % a.chunk # 0 THEN 1 ELSE 0)

fragStart(a, frag) == Uint16(frag * a.chunk)

fragEnd(a, frag) ==
    LET end == Uint16(fragStart(a, frag) + a.chunk)
    IN  IF end > a.len THEN a.len ELSE end

Slice(p, from, to) == [packet |-> p, from |-> from, to |-> to]

\* A whole packet has no identifier.
NoCode == [i \in 0..3 |-> -1]

Whole(p) == [code |-> NoCode, index |-> 0, last |-> TRUE, slice |-> Slice(p, 0, len[p])]

\* uint8(frag), whose highest bit is the last-fragment flag.
Fragment(a, frag) ==
    [code |-> EncodeID(a.id), index |-> frag % 128,
     last |-> frag % 256 >= 128 \/ frag = fragmentCount(a) - 1,
     slice |-> Slice(a.packet, fragStart(a, frag), fragEnd(a, frag))]

----------------------------------------------------------------------------
Init ==
    /\ pc = [p \in Packets |-> "idle"]
    /\ len = [p \in Packets |-> 0]
    /\ attempt = [p \in Packets |-> NoAttempt]
    /\ sending = {}
    /\ maxPayloadLen = InitialMax
    /\ lastFragmentID \in FirstIDs
    /\ net = {}
    /\ defragBuffer = [k \in {} |-> 0]
    /\ delivered = {}
    /\ attempts = {}
    /\ skips = 0
    /\ refreshes = 0

----------------------------------------------------------------------------
(* The sender *)

InBounds(n) == 0 < n /\ n <= UintMod - 1

\* WritePacket is called, on a socket that is ready and fragments.  A packet
\* whose size is out of bounds is refused (and closes the socket).
WritePacket(p) ==
    /\ pc[p] = "idle"
    /\ \E n \in Lengths :
          /\ len' = [len EXCEPT ![p] = n]
          /\ pc' = [pc EXCEPT ![p] = IF InBounds(n) THEN "write" ELSE "refused"]
    /\ UNCHANGED <<attempt, sending, maxPayloadLen, lastFragmentID, attempts, net, defragBuffer,
                   delivered, skips, refreshes>>

\* A round of WritePacket's loop reads the payload limit; a packet that fits is
\* sent whole.
SendWhole(p) ==
    /\ pc[p] = "write"
    /\ Uint16(len[p] + 1) <= maxPayloadLen
    /\ pc' = [pc EXCEPT ![p] = "whole"]
    /\ UNCHANGED <<len, attempt, sending, maxPayloadLen, lastFragmentID, attempts, net,
                   defragBuffer, delivered, skips, refreshes>>

\* Mutant: the first fragment is skipped.
StartFragmentsAtOne(p) ==
    /\ pc[p] = "write"
    /\ Uint16(len[p] + 1) > maxPayloadLen
    /\ lastFragmentID' = (lastFragmentID + 1) % IdMod
    /\ LET a == [id |-> lastFragmentID', packet |-> p, len |-> len[p],
                 chunk |-> Uint16(maxPayloadLen - FragmentHeader), frag |-> 1]
       IN  /\ attempt' = [attempt EXCEPT ![p] = a]
           /\ attempts' = attempts \cup {a}
    /\ pc' = [pc EXCEPT ![p] = "fragments"]
    /\ UNCHANGED <<len, sending, maxPayloadLen, net, defragBuffer, delivered, skips, refreshes>>

\* Any other gets an identifier and is cut into chunks.
StartFragments(p) ==
    /\ pc[p] = "write"
    /\ Uint16(len[p] + 1) > maxPayloadLen
    /\ lastFragmentID' = (lastFragmentID + 1) % IdMod
    /\ LET a == [id |-> lastFragmentID', packet |-> p, len |-> len[p],
                 chunk |-> Uint16(maxPayloadLen - FragmentHeader), frag |-> 0]
       IN  /\ attempt' = [attempt EXCEPT ![p] = a]
           /\ attempts' = attempts \cup {a}
    /\ pc' = [pc EXCEPT ![p] = "fragments"]
    /\ UNCHANGED <<len, sending, maxPayloadLen, net, defragBuffer, delivered, skips, refreshes>>

\* The slice data[fragStart:fragEnd] of the next fragment does not exist.
OutOfRange(p) ==
    /\ pc[p] = "fragments"
    /\ fragStart(attempt[p], attempt[p].frag) > fragEnd(attempt[p], attempt[p].frag)
    /\ pc' = [pc EXCEPT ![p] = "panic"]
    /\ UNCHANGED <<len, attempt, sending, maxPayloadLen, lastFragmentID, attempts, net,
                   defragBuffer, delivered, skips, refreshes>>

\* The datagram a call is about to write, and its size.
Writing(p) ==
    \/ pc[p] = "whole"
    \/ /\ pc[p] = "fragments"
       /\ fragStart(attempt[p], attempt[p].frag) <= fragEnd(attempt[p], attempt[p].frag)

Datagram(p) ==
    IF pc[p] = "whole" THEN Whole(p) ELSE Fragment(attempt[p], attempt[p].frag)

Size(p) ==
    IF pc[p] = "whole" THEN len[p] + 1
    ELSE FragmentHeader + fragEnd(attempt[p], attempt[p].frag)
                        - fragStart(attempt[p], attempt[p].frag)

\* WriteDataMessage: the datagram is within the limit ...
WriteDataMessage(p) ==
    /\ Writing(p)
    /\ p \notin sending
    /\ Size(p) <= maxPayloadLen
    /\ sending' = sending \cup {p}
    /\ UNCHANGED <<pc, len, attempt, maxPayloadLen, lastFragmentID, attempts, net,
                   defragBuffer, delivered, skips, refreshes>>

\* Mutant: a datagram that is too large is tried again.
PayloadTooLargeRetries(p) ==
    /\ Writing(p)
    /\ p \notin sending
    /\ Size(p) > maxPayloadLen
    /\ pc' = [pc EXCEPT ![p] = "write"]
    /\ UNCHANGED <<len, attempt, sending, maxPayloadLen, lastFragmentID, attempts, net,
                   defragBuffer, delivered, skips, refreshes>>

\* ... or exceeds it, as when another call has lowered it meanwhile.
PayloadTooLarge(p) ==
    /\ Writing(p)
    /\ p \notin sending
    /\ Size(p) > maxPayloadLen
    /\ pc' = [pc EXCEPT ![p] = "failed"]
    /\ UNCHANGED <<len, attempt, sending, maxPayloadLen, lastFragmentID, attempts, net,
                   defragBuffer, delivered, skips, refreshes>>

\* QUIC takes the datagram ...
SendDatagram(p) ==
    /\ Writing(p)
    /\ p \in sending
    /\ sending' = sending \ {p}
    /\ net' = net \cup {Datagram(p)}
    /\ IF pc[p] = "whole" \/ attempt[p].frag = fragmentCount(attempt[p]) - 1
       THEN pc' = [pc EXCEPT ![p] = "done"] /\ UNCHANGED attempt
       ELSE attempt' = [attempt EXCEPT ![p].frag = @ + 1] /\ UNCHANGED pc
    /\ UNCHANGED <<len, maxPayloadLen, lastFragmentID, attempts, defragBuffer,
                   delivered, skips, refreshes>>

\* ... or refuses it and reports a lower limit: the packet starts afresh ...
PayloadLimitReduced(p) ==
    /\ Writing(p)
    /\ p \in sending
    /\ sending' = sending \ {p}
    /\ \E m \in Limits :
          /\ m < Size(p)
          /\ m < maxPayloadLen
          /\ maxPayloadLen' = m
    /\ pc' = [pc EXCEPT ![p] = "write"]
    /\ UNCHANGED <<len, attempt, lastFragmentID, attempts, net, defragBuffer,
                   delivered, skips, refreshes>>

\* ... or fails: the session is closed, or the limit has been lowered already.
SendFails(p) ==
    /\ Writing(p)
    /\ p \in sending
    /\ sending' = sending \ {p}
    /\ pc' = [pc EXCEPT ![p] = "failed"]
    /\ UNCHANGED <<len, attempt, maxPayloadLen, lastFragmentID, attempts, net,
                   defragBuffer, delivered, skips, refreshes>>

\* A command of the peer leads to featureCheck, which resets the limit.
RefreshFeatures ==
    /\ refreshes < MaxRefreshes
    /\ refreshes' = refreshes + 1
    /\ maxPayloadLen' = InitialMax
    /\ UNCHANGED <<pc, len, attempt, sending, lastFragmentID, attempts, net, defragBuffer,
                   delivered, skips>>

\* Other packets take n identifiers, and none of their datagrams arrives.
OthersLost ==
    /\ skips < MaxSkips
    /\ skips' = skips + 1
    /\ \E n \in Skips : lastFragmentID' = (lastFragmentID + n) % IdMod
    /\ UNCHANGED <<pc, len, attempt, sending, maxPayloadLen, attempts, net, defragBuffer,
                   delivered, refreshes>>

----------------------------------------------------------------------------
(* The receiver *)

\* "Very small value as an indicator for not set, yet".
NotSet == -1000

\* The entry of the buffer a fragment is added to.
FragInfo(code) ==
    IF code \in DOMAIN defragBuffer THEN defragBuffer[code]
    ELSE [lastIndex |-> NotSet, data |-> [i \in {} |-> 0]]

Added(info, m) ==
    [lastIndex |-> IF m.last THEN m.index ELSE info.lastIndex,
     data |-> [i \in DOMAIN info.data \cup {m.index} |->
                  IF i = m.index THEN m.slice ELSE info.data[i]]]

\* Mutant: the number of fragments is taken for the index of the last.
CompleteTooEarly(info) == Cardinality(DOMAIN info.data) = info.lastIndex

Complete(info) == Cardinality(DOMAIN info.data) = info.lastIndex + 1

\* What the loop over the fragments writes; an index that is missing adds nothing.
Joined(info) == [i \in (0..info.lastIndex) \cap DOMAIN info.data |-> info.data[i]]

Without(code) ==
    [k \in DOMAIN defragBuffer \ {code} |-> defragBuffer[k]]

\* dataMessageHandler: a last fragment with index 0 is a whole packet.
ReceiveWhole(m) ==
    /\ m \in net
    /\ m.last /\ m.index = 0
    /\ net' = net \ {m}
    /\ delivered' = delivered \cup {[i \in {0} |-> m.slice]}
    /\ UNCHANGED <<senderVars, defragBuffer, skips, refreshes>>

\* A fragment that completes its packet ...
ReceiveLast(m) ==
    /\ m \in net
    /\ ~(m.last /\ m.index = 0)
    /\ Complete(Added(FragInfo(m.code), m))
    /\ net' = net \ {m}
    /\ defragBuffer' = Without(m.code)
    /\ delivered' = delivered \cup {Joined(Added(FragInfo(m.code), m))}
    /\ UNCHANGED <<senderVars, skips, refreshes>>

\* ... and one that does not.
ReceiveFragment(m) ==
    /\ m \in net
    /\ ~(m.last /\ m.index = 0)
    /\ ~Complete(Added(FragInfo(m.code), m))
    /\ net' = net \ {m}
    /\ defragBuffer' = [k \in DOMAIN defragBuffer \cup {m.code} |->
                           IF k = m.code THEN Added(FragInfo(m.code), m)
                           ELSE defragBuffer[k]]
    /\ UNCHANGED <<senderVars, delivered, skips, refreshes>>

\* cleanupFragments: the entries nothing was added to for fragmentExpiryTime are
\* thrown away.  Time is not modelled: any entry may be that old.
CleanupFragments ==
    /\ \E expired \in SUBSET DOMAIN defragBuffer :
          /\ expired # {}
          /\ defragBuffer' = [k \in DOMAIN defragBuffer \ expired |-> defragBuffer[k]]
    /\ UNCHANGED <<senderVars, net, delivered, skips, refreshes>>

----------------------------------------------------------------------------
Writer(p) ==
    \/ SendWhole(p) \/ StartFragments(p) \/ OutOfRange(p)
    \/ WriteDataMessage(p) \/ PayloadTooLarge(p)
    \/ SendDatagram(p) \/ PayloadLimitReduced(p) \/ SendFails(p)

Receiver ==
    \/ \E m \in net : ReceiveWhole(m) \/ ReceiveLast(m) \/ ReceiveFragment(m)
    \/ CleanupFragments

\* Everything that will arrive has arrived.
Finished ==
    /\ \A p \in Packets : pc[p] \in {"done", "failed", "refused", "panic"}
    /\ UNCHANGED vars

Next ==
    \/ \E p \in Packets : WritePacket(p) \/ Writer(p)
    \/ Receiver
    \/ RefreshFeatures
    \/ OthersLost
    \/ Finished

\* A goroutine inside WritePacket is scheduled again and again.
Fairness == \A p \in Packets : WF_vars(Writer(p))

Spec == Init /\ [][Next]_vars /\ Fairness

----------------------------------------------------------------------------
(* Properties *)

Attempts ==
    [id : 0..(IdMod - 1), packet : Packets, len : Nat, chunk : Nat, frag : Nat]

\* The types: in particular no chunk is empty and no attempt has an identifier of
\* more than 32 bits.
TypeOK ==
    /\ pc \in [Packets -> {"idle", "write", "whole", "fragments", "done", "failed",
                           "refused", "panic"}]
    /\ len \in [Packets -> Lengths \cup {0}]
    /\ attempt \in [Packets -> Attempts \cup {NoAttempt}]
    /\ sending \subseteq Packets
    /\ maxPayloadLen \in Payloads
    /\ lastFragmentID \in 0..(IdMod - 1)
    /\ attempts \subseteq {a \in Attempts : a.frag = 0 /\ a.chunk > 0}
    /\ skips \in 0..MaxSkips
    /\ refreshes \in 0..MaxRefreshes

\* The fragments of all attempts are told apart by their identifiers.
CodesDistinct ==
    \A a, b \in attempts : EncodeID(a.id) = EncodeID(b.id) => a = b

\* What was put together is one packet, from its first byte to its last.
Intact(d) ==
    \E p \in Packets, n \in 0..127 :
        /\ DOMAIN d = 0..n
        /\ \A i \in 0..n : d[i].packet = p
        /\ d[0].from = 0
        /\ \A i \in 0..(n - 1) : d[i].to = d[i + 1].from
        /\ d[n].to = len[p]

\* Every packet the receiver hands on is one that was sent, complete and in
\* order, whatever is lost, reordered, resent under a lower limit or thrown away
\* by the cleanup in between, unless two identifiers collide on the wire
\* (dataMessageHandler, writePacketFragmented).
IntactUnlessCollision ==
    CodesDistinct => \A d \in delivered : Intact(d)

\* "To allow re-assembling the fragments of the same packet back together if
\* multiple packets are in-flight at once": the same without the condition.
PacketsIntact == \A d \in delivered : Intact(d)

\* WritePacket returns: its loop does not resend a packet for ever.
WriteReturns ==
    \A p \in Packets :
        pc[p] = "write" ~> pc[p] \in {"done", "failed", "panic"}
=============================================================================
