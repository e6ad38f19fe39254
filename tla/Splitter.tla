------------------------------ MODULE Splitter ------------------------------
(***************************************************************************)
(* How grind.handle cuts the text of a group's port into entries.  Text    *)
(* comes in chunks of whatever size a read of the feeder connection        *)
(* completes with; what is not consumed waits in group.leftovers, which    *)
(* all connections of the group share.  An entry starts after a signature  *)
(* and ends where the next one begins.                                     *)
(*                                                                         *)
(* A byte is a record: the feed and the message it belongs to, and its     *)
(* offset there.  A message opens with SigLen signature bytes; the         *)
(* signature matches wherever bytes with offsets 1..SigLen follow each     *)
(* other, whatever they belong to.                                         *)
(***************************************************************************)
EXTENDS Naturals, Sequences, SequencesExt

CONSTANTS
  Feeds,         \* the connections to the group's port
  Sizes,         \* per feed, the lengths of the messages after the signature
  SigLen,        \* length of the signature
  MaxChunk       \* bytes per read: BUFSZ of connection.hpp

ASSUME FeedAssumption == Sizes \in [Feeds -> Seq(Nat \ {0})]

(* A signature of one byte would make the loop of grind.handle find the    *)
(* same match forever; the signatures in share/grind are longer.           *)
ASSUME SigAssumption == SigLen \in Nat /\ SigLen > 1
ASSUME ChunkAssumption == MaxChunk \in Nat \ {0}

VARIABLES
  arrived,       \* every byte received so far, in order of arrival
  sent,          \* how many bytes of each feed have arrived
  leftovers,     \* group.leftovers
  handled        \* the entries handed to the formats so far

vars == <<arrived, sent, leftovers, handled>>

Message(c, n) == [o \in 1..(SigLen + Sizes[c][n]) |-> [feed |-> c, msg |-> n, off |-> o]]

Stream(c) == FlattenSeq([n \in 1..Len(Sizes[c]) |-> Message(c, n)])

Byte == UNION {{Stream(c)[i] : i \in 1..Len(Stream(c))} : c \in Feeds}

TypeOK == /\ arrived \in Seq(Byte)
          /\ sent \in [Feeds -> Nat]
          /\ leftovers \in Seq(Byte)
          /\ handled \in Seq(Seq(Byte))

Init == /\ arrived = <<>>
        /\ sent = [c \in Feeds |-> 0]
        /\ leftovers = <<>>
        /\ handled = <<>>

(* The signature matches at position i.                                    *)
Matches(text, i) == \A j \in 1..SigLen : /\ i + j - 1 <= Len(text)
                                         /\ text[i + j - 1].off = j

(* The positions the finds of the loop stop at, one after the other.       *)
Signatures(text) ==
  LET upto[i \in 0..Len(text)] ==
        IF i = 0 THEN <<>>
        ELSE IF Matches(text, i) THEN Append(upto[i - 1], i) ELSE upto[i - 1]
  IN upto[Len(text)]

(* The entries between consecutive signatures.                             *)
Segments(text) ==
  LET m == Signatures(text) IN
  [i \in 1..(IF Len(m) = 0 THEN 0 ELSE Len(m) - 1) |->
     SubSeq(text, m[i] + SigLen, m[i + 1] - 1)]

\* Slips in grind.lua:121: up to the end of the last signature (the line that
\* is commented out below it), or the last entry instead of the sum.
ConsumedPast(text) ==
  LET m == Signatures(text) IN IF Len(m) < 2 THEN 0 ELSE m[Len(m)] + SigLen - 1
ConsumedLast(text) ==
  LET m == Signatures(text) IN IF Len(m) < 2 THEN 0 ELSE m[Len(m)] - m[Len(m) - 1]

(* The sum of b2 - b over the entries: the distance from the first         *)
(* signature to the last, not the position of the last.                    *)
Consumed(text) ==
  LET m == Signatures(text) IN IF Len(m) < 2 THEN 0 ELSE m[Len(m)] - m[1]

(* Lua's text:sub(n) starts at byte n, and at the first for n = 0.         *)
LuaSub(text, n) == SubSeq(text, IF n = 0 THEN 1 ELSE n, Len(text))

(* A read of n bytes of c's stream completes.                              *)
Chunk(c, n) == SubSeq(Stream(c), sent[c] + 1, sent[c] + n)
Arrives(c, n) == /\ sent[c] + n <= Len(Stream(c))
                 /\ arrived' = arrived \o Chunk(c, n)
                 /\ sent' = [sent EXCEPT ![c] = @ + n]

\* Slips in grind.lua:103-142: the new text in front of the leftovers, the
\* entries of a read collected last first, a line end after what is left.
ReceiveSwapped(c, n) ==
  LET text == Chunk(c, n) \o leftovers
  IN /\ Arrives(c, n)
     /\ handled' = handled \o Segments(text)
     /\ leftovers' = LuaSub(text, Consumed(text))
ReceiveReversed(c, n) ==
  LET text == leftovers \o Chunk(c, n)
  IN /\ Arrives(c, n)
     /\ handled' = handled \o Reverse(Segments(text))
     /\ leftovers' = LuaSub(text, Consumed(text))
ReceiveLine(c, n) ==
  LET text == leftovers \o Chunk(c, n)
      end == [feed |-> c, msg |-> 0, off |-> 0]
  IN /\ Arrives(c, n)
     /\ handled' = handled \o Segments(text)
     /\ leftovers' = Append(LuaSub(text, Consumed(text)), end)

Receive(c, n) ==
  LET text == leftovers \o Chunk(c, n)
  IN /\ Arrives(c, n)
     /\ handled' = handled \o Segments(text)
     /\ leftovers' = LuaSub(text, Consumed(text))

Next == \E c \in Feeds, n \in 1..MaxChunk : Receive(c, n)

Spec == Init /\ [][Next]_vars

-----------------------------------------------------------------------------
(***************************************************************************)
(* Properties                                                              *)
(***************************************************************************)
(* Cutting the text chunk by chunk hands over the entries that cutting all *)
(* of it at once would: none lost, none damaged, however reads split or    *)
(* join the messages (grind.lua:103-142, 269).                             *)
ChunkingInvisible == Range(handled) = Range(Segments(arrived))

(* Entries are handed over in order: each can be given its place in the    *)
(* whole text so that after an entry comes its successor, or one that was  *)
(* handed over before (grind.lua:103-142).                                 *)
InOrder ==
  LET whole == Segments(arrived)
      places[i \in 0..Len(handled)] ==
        IF i = 0 THEN {0}
        ELSE {j \in 1..Len(whole) : /\ whole[j] = handled[i]
                                    /\ \E h \in places[i - 1] : j <= h + 1}
  IN places[Len(handled)] # {}

(* What waits is the tail of what arrived, so the bytes that separate two  *)
(* reads of a message are never dropped or moved.                          *)
LeftoversAreTail ==
  /\ Len(leftovers) <= Len(arrived)
  /\ leftovers = LuaSub(arrived, Len(arrived) - Len(leftovers) + 1)

(* The bytes of handled entries that the arithmetic of Consumed leaves     *)
(* behind grow by one with every call that consumes, but never beyond the  *)
(* longest gap between two signatures.                                     *)
Stale == LET m == Signatures(leftovers) IN IF m = <<>> THEN 0 ELSE Last(m) - 1

LongestGap == LET m == Signatures(arrived) IN
  Max({0} \cup {m[i + 1] - m[i] : i \in 1..(Len(m) - 1)} \cup
      {m[i] : i \in {1} \cap 1..Len(m)})

StaleBounded == Stale <= LongestGap

(* Expected of the code by its own words, and not so.                      *)

(* A log entry takes one pass through the pipeline that starts with "an    *)
(* application produces a log entry which is relayed to grind"             *)
(* (doc/grind_02.pdf, page 9).                                             *)
HandledOnce == IsInjective(handled)
=============================================================================
