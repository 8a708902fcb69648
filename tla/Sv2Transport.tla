---------------------------- MODULE Sv2Transport ----------------------------
(***************************************************************************)
(* src/sv2/transport.cpp and src/sv2/noise.cpp: the two ends of one        *)
(* encrypted connection, from the first byte of the Noise handshake, with  *)
(* the byte streams between them cut anywhere.                             *)
(*                                                                         *)
(* A byte is a record [of, at]: byte number `at' of the object `of'.       *)
(* Cryptography is symbolic.  A ciphertext is <<"seal", key, nonce, ad,    *)
(* plain>> and opens only with the same key, nonce and associated data,    *)
(* from exactly its own bytes.  A hash is the sequence of what was mixed   *)
(* into it, a chaining key the sequence of the secrets mixed into it.      *)
(* All sizes are constants, small ones when the model is checked.          *)
(***************************************************************************)
EXTENDS Integers, Sequences

CONSTANTS
  KeySize,             \* ELLSWIFT_PUB_KEY_SIZE
  CertSize,            \* Sv2SignatureNoiseMessage::SIZE
  TagLen,              \* Poly1305::TAGLEN
  HeaderSize,          \* SV2_HEADER_PLAIN_SIZE
  MaxChunk,            \* NOISE_MAX_CHUNK_SIZE
  LenModulus,          \* 2^24: the header has three bytes for the length
  RecvSize,            \* most bytes that one call of EventGotData gets
  Certificates,        \* certificates the responder may present
  Now,                 \* GetTime() of the initiator
  Lengths,             \* payload lengths that are sent
  MaxSent,             \* bound on the messages sent by both sides together
  MaxCorrupt           \* bound on the bytes altered on the way

ASSUME SizeAssumption ==
  /\ KeySize \in Nat \ {0}
  /\ CertSize \in Nat \ {0}
  /\ HeaderSize \in Nat \ {0}
  /\ TagLen \in Nat \ {0}
  /\ MaxChunk \in Nat
  /\ MaxChunk > TagLen
  /\ HeaderSize + TagLen <= MaxChunk
  /\ RecvSize \in Nat \ {0}
  /\ \A n \in Lengths : n \in 0..(LenModulus - 1)

VARIABLES
  certificate,         \* m_certificate of the responder
  recv_state,          \* m_recv_state
  send_state,          \* m_send_state
  recv_buffer,         \* m_recv_buffer
  send_buffer,         \* m_send_buffer, without the first m_send_pos bytes
  header,              \* m_header.m_msg_len
  message,             \* m_message
  noise,               \* m_cipher.m_handshake_state: hash, chaining key and cipher
  cs1, cs2,            \* m_cipher.m_cs1, m_cipher.m_cs2
  span,                \* the bytes of EventGotData not processed yet
  refused,             \* ReceivedBytes returned false
  wire,                \* bytes on the way to a side
  sent,                \* payloads accepted by SetMessageToSend
  delivered,           \* payloads returned by GetReceivedMessage
  corrupted            \* bytes altered so far

vars == <<certificate, recv_state, send_state, recv_buffer, send_buffer, header,
          message, noise, cs1, cs2, span, refused, wire, sent, delivered, corrupted>>

Sides == {"initiator", "responder"}
Peer(p) == IF p = "initiator" THEN "responder" ELSE "initiator"

---------------------------------------------------------------------------
(* Bytes and keys *)

Bytes(object, n) == [i \in 1..n |-> [of |-> object, at |-> i]]

Junk == [of |-> <<"junk">>, at |-> 0]

\* The ephemeral key of a side and the static key of the responder.
EphemeralKey(p) == Bytes(<<"ephemeral", p>>, KeySize)
StaticKey == Bytes(<<"static">>, KeySize)

\* Message number k of a side, with n bytes.
Payload(p, k, n) == Bytes(<<"message", p, k>>, n)

\* ComputeBIP324ECDHSecret hashes the two keys in the order initiator,
\* responder: both sides get the same secret when they agree on the keys.
ECDHSecret(ours, theirs, initiating) ==
  IF initiating THEN <<ours, theirs>> ELSE <<theirs, ours>>

---------------------------------------------------------------------------
(* Sv2CipherState: a key and the nonce of the next message *)

CipherState(k) == [key |-> k, nonce |-> 0]

Seal(cs, ad, plain) ==
  Bytes(<<"seal", cs.key, cs.nonce, ad, plain>>, Len(plain) + TagLen)

\* The state after n ciphertexts; UINT64_MAX of them are out of reach.
Advance(cs, n) == [cs EXCEPT !.nonce = @ + n]

\* The bytes are a ciphertext that the cipher state opens.
Opens(cs, ad, bytes) ==
  /\ Len(bytes) > TagLen
  /\ bytes[1].of[1] = "seal"
  /\ LET plain == bytes[1].of[5]
     IN bytes[1].of = <<"seal", cs.key, cs.nonce, ad, plain>> /\ bytes = Seal(cs, ad, plain)

\* DecryptWithAd: the nonce goes up only when decryption succeeds.
DecryptWithAd(cs, ad, bytes) ==
  IF Opens(cs, ad, bytes)
  THEN [ok |-> TRUE, cs |-> Advance(cs, 1), plain |-> bytes[1].of[5]]
  ELSE [ok |-> FALSE, cs |-> cs, plain |-> <<>>]

MaxPlain == MaxChunk - TagLen

NumChunks(len) == (len + MaxPlain - 1) \div MaxPlain

EncryptedMessageSize(len) == len + NumChunks(len) * TagLen

HeaderEncryptedSize == HeaderSize + TagLen

HandshakeStep2Size == KeySize + (KeySize + TagLen) + (CertSize + TagLen)

\* The smaller of two numbers, std::min.
Least(a, b) == IF a < b THEN a ELSE b

\* Chunk number i, from 0, of the bytes when they are cut into pieces of `size'.
Chunk(bytes, i, size) == SubSeq(bytes, i * size + 1, Least((i + 1) * size, Len(bytes)))

\* EncryptMessage: one ciphertext after the other, each MaxChunk bytes long but
\* the last.
EncryptMessage(cs, plain) ==
  LET n == NumChunks(Len(plain))
      sealed(i) == Seal(Advance(cs, i), <<>>, Chunk(plain, i, MaxPlain))
  IN [cs |-> Advance(cs, n),
      bytes |-> [j \in 1..EncryptedMessageSize(Len(plain)) |->
                   sealed((j - 1) \div MaxChunk)[((j - 1) % MaxChunk) + 1]]]

\* MUTANT: the receiver cuts the message where the plain text was cut.
DecryptMessagePlainChunks(cs, bytes) ==
  LET n == (Len(bytes) + MaxPlain - 1) \div MaxPlain
      chunk(i) == Chunk(bytes, i, MaxPlain)
      failed == {i \in 0..(n - 1) : ~Opens(Advance(cs, i), <<>>, chunk(i))}
      first == CHOOSE i \in failed : \A j \in failed : i <= j
  IN IF failed # {}
     THEN [ok |-> FALSE, cs |-> Advance(cs, first), plain |-> <<>>]
     ELSE [ok |-> TRUE, cs |-> Advance(cs, n),
           plain |-> [j \in 1..(Len(bytes) - n * TagLen) |->
                        chunk((j - 1) \div MaxPlain)[1].of[5][((j - 1) % MaxPlain) + 1]]]

\* DecryptMessage: the chunks are opened in order, the first that does not open
\* ends the loop and leaves the nonce of the chunks before it.
DecryptMessage(cs, bytes) ==
  LET n == (Len(bytes) + MaxChunk - 1) \div MaxChunk
      chunk(i) == Chunk(bytes, i, MaxChunk)
      failed == {i \in 0..(n - 1) : ~Opens(Advance(cs, i), <<>>, chunk(i))}
      first == CHOOSE i \in failed : \A j \in failed : i <= j
  IN IF failed # {}
     THEN [ok |-> FALSE, cs |-> Advance(cs, first), plain |-> <<>>]
     ELSE [ok |-> TRUE, cs |-> Advance(cs, n),
           plain |-> [j \in 1..(Len(bytes) - n * TagLen) |->
                        chunk((j - 1) \div MaxPlain)[1].of[5][((j - 1) % MaxPlain) + 1]]]

---------------------------------------------------------------------------
(* Sv2SymmetricState and Sv2HandshakeState *)

InitialNoise == [hash |-> <<>>, ck |-> <<>>, cipher |-> CipherState(<<>>)]

MixHash(s, input) == [s EXCEPT !.hash = Append(@, input)]

\* HKDF2 of the chaining key and an input: two keys, told apart by `out'.
HKDF2(ck, input, out) == <<Append(ck, input), out>>

MixKey(s, secret) ==
  [s EXCEPT !.ck = Append(@, secret), !.cipher = CipherState(HKDF2(s.ck, secret, 1))]

EncryptAndHash(s, plain) ==
  LET bytes == Seal(s.cipher, s.hash, plain)
  IN [bytes |-> bytes, s |-> MixHash([s EXCEPT !.cipher = Advance(@, 1)], bytes)]

DecryptAndHash(s, bytes) ==
  LET r == DecryptWithAd(s.cipher, s.hash, bytes)
  IN [ok |-> r.ok, plain |-> r.plain,
      s |-> IF r.ok THEN MixHash([s EXCEPT !.cipher = r.cs], bytes) ELSE s]

\* WriteMsgEphemeralPK and ReadMsgEphemeralPK mix the same two inputs.
EphemeralPK(s, key) == MixHash(MixHash(s, key), <<>>)

WriteMsgES(s, remote, cert) ==
  LET ours == EphemeralKey("responder")
      key == EncryptAndHash(MixKey(MixHash(s, ours), ECDHSecret(ours, remote, FALSE)),
                            StaticKey)
      signed == EncryptAndHash(MixKey(key.s, ECDHSecret(StaticKey, remote, FALSE)),
                               Bytes(<<"certificate", cert>>, CertSize))
  IN [bytes |-> ours \o key.bytes \o signed.bytes, s |-> signed.s]

\* MUTANT: the end of the validity window is not checked.
ValidateExpired(cert, static) ==
  /\ cert.version = 0
  /\ cert.valid_from <= Now
  /\ cert.sig = <<"authority", cert.version, cert.valid_from, cert.valid_to, static>>

\* Sv2SignatureNoiseMessage::Validate, for the static key that was received.
Validate(cert, static) ==
  /\ cert.version = 0
  /\ cert.valid_from <= Now
  /\ cert.valid_to >= Now
  /\ cert.sig = <<"authority", cert.version, cert.valid_from, cert.valid_to, static>>

ReadMsgES(s, msg) ==
  LET ours == EphemeralKey("initiator")
      remote == SubSeq(msg, 1, KeySize)
      key == DecryptAndHash(MixKey(MixHash(s, remote), ECDHSecret(ours, remote, TRUE)),
                            SubSeq(msg, KeySize + 1, 2 * KeySize + TagLen))
      signed == DecryptAndHash(MixKey(key.s, ECDHSecret(ours, key.plain, TRUE)),
                               SubSeq(msg, 2 * KeySize + TagLen + 1, HandshakeStep2Size))
  IN IF ~key.ok THEN [ok |-> FALSE, s |-> key.s]
     ELSE [ok |-> signed.ok /\ Validate(signed.plain[1].of[2], key.plain), s |-> signed.s]

\* FinishHandshake: the keys of the two directions.
Split(s, out) == CipherState(HKDF2(s.ck, <<>>, out))

---------------------------------------------------------------------------
(* The two ends *)

\* The value of m_header.m_msg_len before the first header: not initialized.
Unset == LenModulus

\* The constructors; the initiator's runs StartSendingHandshake.
Init ==
  /\ certificate \in Certificates
  /\ recv_state = [initiator |-> "HANDSHAKE_STEP_2", responder |-> "HANDSHAKE_STEP_1"]
  /\ send_state = [p \in Sides |-> "HANDSHAKE_STEP_2"]
  /\ recv_buffer = [p \in Sides |-> <<>>]
  /\ send_buffer = [initiator |-> EphemeralKey("initiator"), responder |-> <<>>]
  /\ header = [p \in Sides |-> Unset]
  /\ message = [p \in Sides |-> <<>>]
  /\ noise = [initiator |-> EphemeralPK(InitialNoise, EphemeralKey("initiator")),
              responder |-> InitialNoise]
  /\ cs1 = [p \in Sides |-> CipherState(<<>>)]
  /\ cs2 = [p \in Sides |-> CipherState(<<>>)]
  /\ span = [p \in Sides |-> <<>>]
  /\ refused = [p \in Sides |-> FALSE]
  /\ wire = [p \in Sides |-> <<>>]
  /\ sent = [p \in Sides |-> <<>>]
  /\ delivered = [p \in Sides |-> <<>>]
  /\ corrupted = 0

receiver == <<recv_state, recv_buffer, header, message, span, refused>>

\* Sv2Cipher::FinishHandshake
FinishHandshake(p, s) ==
  /\ cs1' = [cs1 EXCEPT ![p] = Split(s, 0)]
  /\ cs2' = [cs2 EXCEPT ![p] = Split(s, 1)]
  /\ noise' = [noise EXCEPT ![p] = InitialNoise]

\* SetMessageToSend returns false and does nothing in any other state.  The
\* header has the payload's length in three bytes.
SetMessageToSend(p, payload) ==
  /\ send_state[p] = "READY"
  /\ send_buffer[p] = <<>>
  /\ LET cs == IF p = "initiator" THEN cs1[p] ELSE cs2[p]
         hdr == EncryptMessage(cs, Bytes(<<"header", Len(payload) % LenModulus>>, HeaderSize))
         body == EncryptMessage(hdr.cs, payload)
     IN /\ send_buffer' = [send_buffer EXCEPT ![p] = hdr.bytes \o body.bytes]
        /\ IF p = "initiator"
           THEN cs1' = [cs1 EXCEPT ![p] = body.cs] /\ UNCHANGED cs2
           ELSE cs2' = [cs2 EXCEPT ![p] = body.cs] /\ UNCHANGED cs1
  /\ sent' = [sent EXCEPT ![p] = Append(@, payload)]
  /\ UNCHANGED <<certificate, send_state, noise, receiver, wire, delivered, corrupted>>

\* GetBytesToSend, a send that takes n bytes, and MarkBytesSent.
SendBytes(p, n) ==
  /\ n \in 1..Len(send_buffer[p])
  /\ wire' = [wire EXCEPT ![Peer(p)] = @ \o SubSeq(send_buffer[p], 1, n)]
  /\ send_buffer' = [send_buffer EXCEPT ![p] = SubSeq(@, n + 1, Len(@))]
  /\ UNCHANGED <<certificate, send_state, noise, cs1, cs2, receiver, sent, delivered,
                 corrupted>>

\* EventGotData is called with what has arrived.  A transport that refused its
\* stream is called again when more arrives before the client is removed.
EventGotData(p) ==
  /\ span[p] = <<>>
  /\ recv_state[p] # "APP_READY"
  /\ wire[p] # <<>>
  /\ LET n == Least(RecvSize, Len(wire[p]))
     IN /\ span' = [span EXCEPT ![p] = SubSeq(wire[p], 1, n)]
        /\ wire' = [wire EXCEPT ![p] = SubSeq(@, n + 1, Len(@))]
  /\ UNCHANGED <<certificate, recv_state, send_state, recv_buffer, send_buffer, header,
                 message, noise, cs1, cs2, refused, sent, delivered, corrupted>>

GetMaxBytesToProcess(p, msg_len) ==
  CASE recv_state[p] = "HANDSHAKE_STEP_1" -> KeySize - Len(recv_buffer[p])
    [] recv_state[p] = "HANDSHAKE_STEP_2" -> HandshakeStep2Size - Len(recv_buffer[p])
    [] recv_state[p] = "APP" ->
         IF Len(recv_buffer[p]) < HeaderEncryptedSize
         THEN HeaderEncryptedSize - Len(recv_buffer[p])
         ELSE HeaderEncryptedSize + EncryptedMessageSize(msg_len) - Len(recv_buffer[p])
    [] recv_state[p] = "APP_READY" -> 0

\* The length that is read from m_header.  Before a header was received, which happens
\* when the first one does not decrypt, it is not initialized: the smallest and the
\* largest length that a header can hold stand for all.
HeaderLength(p) == IF header[p] = Unset THEN {0, LenModulus - 1} ELSE {header[p]}

\* The loop of ReceivedBytes moves as much as it may from the data to the buffer.
MaxRead(p, msg_len) == Least(Len(span[p]), GetMaxBytesToProcess(p, msg_len))
Filled(p, msg_len) == recv_buffer[p] \o SubSeq(span[p], 1, MaxRead(p, msg_len))
Rest(p, msg_len) == SubSeq(span[p], MaxRead(p, msg_len) + 1, Len(span[p]))

\* ReceivedBytes returns false; EventGotData flags the client and drops the data.
RefuseBytes(p) ==
  /\ refused' = [refused EXCEPT ![p] = TRUE]
  /\ span' = [span EXCEPT ![p] = <<>>]

\* Act 1 at the responder; the last byte of the key makes it write act 2.
ProcessReceivedEphemeralKeyBytes(p) ==
  LET key == Filled(p, Unset)
      reply == WriteMsgES(EphemeralPK(noise[p], key), key, certificate)
  IN /\ recv_state[p] = "HANDSHAKE_STEP_1"
     /\ span[p] # <<>>
     /\ span' = [span EXCEPT ![p] = Rest(p, Unset)]
     /\ IF Len(key) = KeySize
        THEN /\ recv_buffer' = [recv_buffer EXCEPT ![p] = <<>>]
             /\ send_buffer' = [send_buffer EXCEPT ![p] = reply.bytes]
             /\ FinishHandshake(p, reply.s)
             /\ send_state' = [send_state EXCEPT ![p] = "READY"]
             /\ recv_state' = [recv_state EXCEPT ![p] = "APP"]
        ELSE /\ recv_buffer' = [recv_buffer EXCEPT ![p] = key]
             /\ UNCHANGED <<send_buffer, noise, cs1, cs2, send_state, recv_state>>
     /\ UNCHANGED <<certificate, header, message, refused, wire, sent, delivered, corrupted>>

\* MUTANT: what was received together with the end of the reply is dropped.
ProcessReceivedHandshakeReplyBytesOnly(p) ==
  LET reply == Filled(p, Unset)
      read == ReadMsgES(noise[p], reply)
  IN /\ recv_state[p] = "HANDSHAKE_STEP_2"
     /\ span[p] # <<>>
     /\ IF Len(reply) < HandshakeStep2Size
        THEN /\ recv_buffer' = [recv_buffer EXCEPT ![p] = reply]
             /\ span' = [span EXCEPT ![p] = Rest(p, Unset)]
             /\ UNCHANGED <<refused, noise, cs1, cs2, send_state, recv_state>>
        ELSE IF read.ok
        THEN /\ recv_buffer' = [recv_buffer EXCEPT ![p] = <<>>]
             /\ span' = [span EXCEPT ![p] = <<>>]
             /\ FinishHandshake(p, read.s)
             /\ recv_state' = [recv_state EXCEPT ![p] = "APP"]
             /\ send_state' = [send_state EXCEPT ![p] = "READY"]
             /\ UNCHANGED refused
        ELSE /\ recv_buffer' = [recv_buffer EXCEPT ![p] = reply]
             /\ noise' = [noise EXCEPT ![p] = read.s]
             /\ RefuseBytes(p)
             /\ UNCHANGED <<cs1, cs2, send_state, recv_state>>
     /\ UNCHANGED <<certificate, send_buffer, header, message, wire, sent, delivered, corrupted>>

\* Act 2 at the initiator.  When it is not accepted the buffer stays full and the
\* handshake state is left as far as it got.
ProcessReceivedHandshakeReplyBytes(p) ==
  LET reply == Filled(p, Unset)
      read == ReadMsgES(noise[p], reply)
  IN /\ recv_state[p] = "HANDSHAKE_STEP_2"
     /\ span[p] # <<>>
     /\ IF Len(reply) < HandshakeStep2Size
        THEN /\ recv_buffer' = [recv_buffer EXCEPT ![p] = reply]
             /\ span' = [span EXCEPT ![p] = Rest(p, Unset)]
             /\ UNCHANGED <<refused, noise, cs1, cs2, send_state, recv_state>>
        ELSE IF read.ok
        THEN /\ recv_buffer' = [recv_buffer EXCEPT ![p] = <<>>]
             /\ span' = [span EXCEPT ![p] = Rest(p, Unset)]
             /\ FinishHandshake(p, read.s)
             /\ recv_state' = [recv_state EXCEPT ![p] = "APP"]
             /\ send_state' = [send_state EXCEPT ![p] = "READY"]
             /\ UNCHANGED refused
        ELSE /\ recv_buffer' = [recv_buffer EXCEPT ![p] = reply]
             /\ noise' = [noise EXCEPT ![p] = read.s]
             /\ RefuseBytes(p)
             /\ UNCHANGED <<cs1, cs2, send_state, recv_state>>
     /\ UNCHANGED <<certificate, send_buffer, header, message, wire, sent, delivered, corrupted>>

\* The cipher state for receiving is m_cs2 of the initiator, m_cs1 of the responder.
DecryptWith(p, bytes) == DecryptMessage(IF p = "initiator" THEN cs2[p] ELSE cs1[p], bytes)

SetReceiveCipher(p, cs) ==
  IF p = "initiator"
  THEN cs2' = [cs2 EXCEPT ![p] = cs] /\ UNCHANGED cs1
  ELSE cs1' = [cs1 EXCEPT ![p] = cs] /\ UNCHANGED cs2

\* A complete header is decrypted; the encrypted one stays in the buffer.
ReceiveHeader(p, buffer) ==
  LET r == DecryptWith(p, buffer)
      msg_len == r.plain[1].of[2]
  IN /\ recv_buffer' = [recv_buffer EXCEPT ![p] = buffer]
     /\ SetReceiveCipher(p, r.cs)
     /\ header' = IF r.ok THEN [header EXCEPT ![p] = msg_len] ELSE header
     /\ IF r.ok /\ msg_len \in 1..(LenModulus - 1)
        THEN span' = [span EXCEPT ![p] = Rest(p, Unset)] /\ UNCHANGED refused
        ELSE RefuseBytes(p)
     /\ UNCHANGED <<message, recv_state>>

\* MUTANT: a packet that does not decrypt resets the header but not the buffer.
ReceivePayloadReset(p, buffer, msg_len) ==
  LET r == DecryptWith(p, SubSeq(buffer, HeaderEncryptedSize + 1, Len(buffer)))
  IN /\ SetReceiveCipher(p, r.cs)
     /\ IF r.ok
        THEN /\ recv_buffer' = [recv_buffer EXCEPT ![p] = <<>>]
             /\ message' = [message EXCEPT ![p] = r.plain]
             /\ recv_state' = [recv_state EXCEPT ![p] = "APP_READY"]
             /\ span' = [span EXCEPT ![p] = Rest(p, msg_len)]
             /\ UNCHANGED refused
        ELSE /\ recv_buffer' = [recv_buffer EXCEPT ![p] = buffer]
             /\ RefuseBytes(p)
             /\ UNCHANGED <<message, recv_state>>
     /\ header' = [header EXCEPT ![p] = IF r.ok THEN msg_len ELSE 0]

\* A complete packet: m_message is set and nothing more is read until it is taken.
ReceivePayload(p, buffer, msg_len) ==
  LET r == DecryptWith(p, SubSeq(buffer, HeaderEncryptedSize + 1, Len(buffer)))
  IN /\ SetReceiveCipher(p, r.cs)
     /\ IF r.ok
        THEN /\ recv_buffer' = [recv_buffer EXCEPT ![p] = <<>>]
             /\ message' = [message EXCEPT ![p] = r.plain]
             /\ recv_state' = [recv_state EXCEPT ![p] = "APP_READY"]
             /\ span' = [span EXCEPT ![p] = Rest(p, msg_len)]
             /\ UNCHANGED refused
        ELSE /\ recv_buffer' = [recv_buffer EXCEPT ![p] = buffer]
             /\ RefuseBytes(p)
             /\ UNCHANGED <<message, recv_state>>
     /\ header' = [header EXCEPT ![p] = msg_len]

\* Fewer bytes than the header, or than the packet: wait for the others.
ReceivePart(p, buffer, msg_len) ==
  /\ recv_buffer' = [recv_buffer EXCEPT ![p] = buffer]
  /\ span' = [span EXCEPT ![p] = Rest(p, msg_len)]
  /\ header' = IF Len(buffer) > HeaderEncryptedSize
               THEN [header EXCEPT ![p] = msg_len] ELSE header
  /\ UNCHANGED <<cs1, cs2, message, recv_state, refused>>

ProcessReceivedPacketBytes(p, msg_len) ==
  LET buffer == Filled(p, msg_len)
  IN /\ recv_state[p] = "APP"
     /\ span[p] # <<>>
     /\ CASE Len(buffer) = HeaderEncryptedSize -> ReceiveHeader(p, buffer)
          [] Len(buffer) > HeaderEncryptedSize
             /\ Len(buffer) = HeaderEncryptedSize + EncryptedMessageSize(msg_len) ->
               ReceivePayload(p, buffer, msg_len)
          [] OTHER -> ReceivePart(p, buffer, msg_len)
     /\ UNCHANGED <<certificate, send_state, send_buffer, noise, wire, sent, delivered, corrupted>>

\* One iteration of the loop of ReceivedBytes.  m_recv_mutex is held throughout
\* the loop, but no other thread reads what it guards.
ReceivedBytes(p) ==
  \/ ProcessReceivedEphemeralKeyBytes(p)
  \/ ProcessReceivedHandshakeReplyBytes(p)
  \/ \E msg_len \in HeaderLength(p) : ProcessReceivedPacketBytes(p, msg_len)

\* EventGotData takes the message as soon as ReceivedMessageComplete.
GetReceivedMessage(p) ==
  /\ recv_state[p] = "APP_READY"
  /\ recv_state' = [recv_state EXCEPT ![p] = "APP"]
  /\ delivered' = [delivered EXCEPT ![p] = Append(@, message[p])]
  /\ UNCHANGED <<certificate, send_state, recv_buffer, send_buffer, header, message, noise,
                 cs1, cs2, span, refused, wire, sent, corrupted>>

\* A byte is altered on the way, by a fault of the network or of the peer.
Corrupt(p, i) ==
  /\ corrupted < MaxCorrupt
  /\ corrupted' = corrupted + 1
  /\ wire' = [wire EXCEPT ![p][i] = Junk]
  /\ UNCHANGED <<certificate, send_state, send_buffer, noise, cs1, cs2, receiver, sent, delivered>>

\* What a side does with the bytes it has to send or has received.
Process(p) ==
  \/ \E n \in 1..Len(send_buffer[p]) : SendBytes(p, n)
  \/ EventGotData(p)
  \/ ReceivedBytes(p)
  \/ GetReceivedMessage(p)

Next ==
  \E p \in Sides :
    \/ /\ Len(sent["initiator"]) + Len(sent["responder"]) < MaxSent
       /\ \E n \in Lengths : SetMessageToSend(p, Payload(p, Len(sent[p]) + 1, n))
    \/ Process(p)
    \/ \E i \in 1..Len(wire[p]) : Corrupt(p, i)

Spec == Init /\ [][Next]_vars

---------------------------------------------------------------------------
(* Properties *)

\* The certificate is one that the initiator trusts: the authority signed the
\* responder's static key for a time that includes Now.
Trusted ==
  LET c == certificate
  IN /\ Now \in (c.valid_from)..(c.valid_to)
     /\ c.version = 0
     /\ c.sig = <<"authority", 0, c.valid_from, c.valid_to, StaticKey>>

Payloads == {Payload(p, k, n) : p \in Sides, k \in 1..MaxSent, n \in Lengths}

Channel == INSTANCE SecureChannel WITH
  Messages <- Payloads,
  trusted <- Trusted,
  open <- [p \in Sides |-> send_state[p] = "READY"]

\* The handshake and the packet code together implement the secure channel:
\* however the streams are cut, what GetReceivedMessage returns is what the
\* other side gave to SetMessageToSend, in order and complete; nothing is
\* delivered after ReceivedBytes returned false, although EventGotData may
\* call it again; the initiator finishes only with a certificate that
\* Validate accepts.
IsSecureChannel == Channel!Spec

\* GetMaxBytesToProcess never subtracts below zero (its result is a size_t), not
\* even when ReceivedBytes is called again after it returned false.
MaxReadIsNatural ==
  \A p \in Sides : \A n \in HeaderLength(p) : GetMaxBytesToProcess(p, n) >= 0

\* ReceivedBytes refuses only for a reason: a byte was altered, the certificate
\* is not valid, or the peer sent an empty message.
RefusedForCause ==
  \A p \in Sides : refused[p] =>
    \/ corrupted > 0
    \/ p = "initiator" /\ ~Trusted
    \/ \E i \in DOMAIN sent[Peer(p)] : sent[Peer(p)][i] = <<>>

\* When no bytes are left to send, on the way or to process, every message that
\* SetMessageToSend accepted was delivered, unless the receiver refused the
\* stream: no message waits in a buffer for bytes that will not come.
NoMessageIsStuck ==
  \A p \in Sides :
    /\ send_buffer[p] = <<>>
    /\ wire[Peer(p)] = <<>>
    /\ span[Peer(p)] = <<>>
    /\ recv_state[Peer(p)] = "APP"
    => refused[Peer(p)] \/ Len(delivered[Peer(p)]) = Len(sent[p])
=============================================================================
