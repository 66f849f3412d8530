------------------------------ MODULE BindFrames ------------------------------
(***************************************************************************)
(* The frames of the printer's port 3000 (src/src/lan_bind_tcp.cpp): two   *)
(* magic bytes, a length, a payload, two magic bytes.  The socket hands    *)
(* the stream over in pieces.                                              *)
(***************************************************************************)
EXTENDS Naturals, Sequences

CONSTANTS
    Bytes,       \* the byte values of payloads and noise
    MaxPayload,  \* the longest payload
    MaxNoise,    \* the longest noise between two frames
    SplitMagic   \* the socket may cut the stream inside the magic bytes of a frame's head

\* encode_frame refuses a frame whose length does not fit two bytes.
ASSUME FramesAssumption ==
    /\ Bytes \subseteq 0..255
    /\ MaxPayload \in 0..65535 - 6 /\ MaxNoise \in Nat /\ SplitMagic \in BOOLEAN

VARIABLES
    sent,         \* the payloads the printer sent
    stream, fed,  \* the bytes that carry them, and how many have been received
    buf, drained  \* the receive buffer, and what was taken from it

frameVars == <<sent, stream, fed, buf, drained>>

A5 == 165
A7 == 167

encode_frame(p) ==
    LET total == 6 + Len(p)
    IN  <<A5, A5>> \o <<total % 256, total \div 256>> \o p \o <<A7, A7>>

IsMagic(b, i) == b[i] = A5 /\ b[i + 1] = A5

FirstMagic(b) ==
    LET at == {i \in 1..Len(b) - 1 : IsMagic(b, i)}
    IN  IF at = {} THEN 0 ELSE CHOOSE i \in at : \A j \in at : i <= j

From(b, i) == SubSeq(b, i, Len(b))

\* The length a frame claims, and its tail.
Claimed(c) == c[3] + 256 * c[4]
WellEnded(c) == c[Claimed(c) - 1] = A7 /\ c[Claimed(c)] = A7

\* drain_frames: what is taken out, and what stays.  A length below the least frame, or
\* a wrong tail, skips the magic bytes only.
Incomplete(b) == b

drain_frames[b \in Seq(Nat)] ==
    LET c == From(b, FirstMagic(b))
    IN  CASE FirstMagic(b) = 0 -> [out |-> <<>>, rest |-> <<>>]
          [] FirstMagic(b) # 0 /\ Len(c) < 4 -> [out |-> <<>>, rest |-> Incomplete(c)]
          [] FirstMagic(b) # 0 /\ Len(c) >= 4 /\ Claimed(c) < 6 -> drain_frames[From(c, 3)]
          [] FirstMagic(b) # 0 /\ Len(c) >= 4 /\ Claimed(c) >= 6 /\ Len(c) < Claimed(c) ->
                 [out |-> <<>>, rest |-> Incomplete(c)]
          [] OTHER ->
                 IF WellEnded(c)
                 THEN LET d == drain_frames[From(c, Claimed(c) + 1)]
                      IN  [out |-> <<SubSeq(c, 5, Claimed(c) - 2)>> \o d.out, rest |-> d.rest]
                 ELSE drain_frames[From(c, 3)]

Strings(n) == UNION {[1..k -> Bytes] : k \in 0..n}
Payloads == Strings(MaxPayload)
\* Noise does not look like the head of a frame, alone or with the frame behind it.
Noise == {g \in Strings(MaxNoise) : FirstMagic(g \o <<A5>>) = 0}

\* Byte n is the first of a frame's head, the next one still to come.
CutsMagic(n) == n \in {1, Len(stream) - Len(encode_frame(sent[2])) + 1}

FramesInit ==
    /\ sent \in Payloads \X Payloads
    /\ stream \in {encode_frame(sent[1]) \o g \o encode_frame(sent[2]) : g \in Noise}
    /\ fed = 0 /\ buf = <<>> /\ drained = <<>>

\* recv_some appends a piece, then the buffer is drained.
FeedFrames ==
    \E n \in fed + 1..Len(stream) :
        /\ SplitMagic \/ ~CutsMagic(n)
        /\ fed' = n
        /\ LET d == drain_frames[buf \o SubSeq(stream, fed + 1, n)]
           IN  buf' = d.rest /\ drained' = drained \o d.out
        /\ UNCHANGED <<sent, stream>>

FramesSpec == FramesInit /\ [][FeedFrames]_frameVars

-----------------------------------------------------------------------------
\* However the stream is cut, the payloads that were sent come out, in order, also with
\* noise between the frames and magic bytes inside them.
FramesSurviveCuts == fed = Len(stream) => drained = sent
===============================================================================
