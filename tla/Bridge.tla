------------------------------- MODULE Bridge -------------------------------
(***************************************************************************)
(* The receiving end of a watcher connection in Ruby: the web watcher's    *)
(* link to grind (watchers/ruby/app.rb) and the Keeper (keepers/mongo).    *)
(* grind writes JSON objects one after the other, without a separator; a   *)
(* read delivers any number of bytes.  receive_data keeps the bytes in     *)
(* @data until an object is complete and hands @data to a streaming        *)
(* parser, which keeps a state of its own between calls.                   *)
(*                                                                         *)
(* A byte is a record: the object it belongs to and its offset there.      *)
(* The names of the specification begin with Bridge, so that a module can  *)
(* extend this one and that of the other end.                              *)
(***************************************************************************)
EXTENDS Naturals, Sequences, SequencesExt

CONSTANTS
  Sizes,         \* the length of each object grind sends
  Kind,          \* what it is: an "entry", the "reply" to a command, a "purge"
  MaxChunk,      \* bound on the bytes of a read
  Rescues        \* TRUE of the watcher, which rescues; FALSE of the Keeper

(* The shortest object is {}.                                              *)
ASSUME SizeAssumption == Sizes \in Seq(Nat \ {0, 1})
ASSUME KindAssumption == Kind \in [1..Len(Sizes) -> {"entry", "reply", "purge"}]
ASSUME ModeAssumption == Rescues \in BOOLEAN

VARIABLES
  link,          \* the connection: "up", "down", or the process "died"
  arrived,       \* bytes received
  data,          \* @data
  at,            \* the last byte the parser took, when within an object
  confused,      \* the parser was fed bytes that do not continue its object
  published,     \* the objects object_parsed was called with
  archive,       \* what the Keeper has in its database
  split          \* history: arrived when first a read completed no object, or
                 \* the length of the stream

bridgeVars == <<link, arrived, data, at, confused, published, archive, split>>

Byte == UNION {[obj : {o}, off : 1..Sizes[o]] : o \in 1..Len(Sizes)}
Between == [obj |-> 0, off |-> 0]

Stream == FlattenSeq([o \in 1..Len(Sizes) |->
                        [i \in 1..Sizes[o] |-> [obj |-> o, off |-> i]]])

BridgeTypeOK ==
  /\ link \in {"up", "down", "died"}
  /\ arrived \in 0..Len(Stream)
  /\ data \in Seq(Byte)
  /\ at \in Byte \cup {Between}
  /\ confused \in BOOLEAN
  /\ published \in Seq(1..Len(Sizes))
  /\ archive \in Seq(1..Len(Sizes))
  /\ split \in 0..Len(Stream)

BridgeInit ==
  /\ link = "up"
  /\ arrived = 0 /\ data = <<>>
  /\ at = Between /\ confused = FALSE
  /\ published = <<>> /\ archive = <<>>
  /\ split = Len(Stream)

(* One byte for the parser.  Out of place, it makes the text invalid or    *)
(* nests it in the object at hand; either way no object completes again.   *)
Feed(p, b) ==
  CASE p.confused -> p
    [] ~p.confused /\ \/ p.at = Between /\ b.off = 1
                      \/ b.obj = p.at.obj /\ b.off = p.at.off + 1 ->
         IF b.off = Sizes[b.obj]
         THEN [p EXCEPT !.at = Between, !.done = Append(@, b.obj)]
         ELSE [p EXCEPT !.at = b]
    [] OTHER -> [p EXCEPT !.confused = TRUE]

ParseChunk(bytes) ==
  FoldLeft(Feed, [at |-> at, done |-> <<>>, confused |-> confused], bytes)

\* A slip in keeper.rb:51: whatever has a command purges.
KeepAny(db, o) == IF Kind[o] = "entry" THEN Append(db, o) ELSE <<>>

(* The Keeper's object_parsed.                                             *)
Keep(db, o) ==
  CASE Kind[o] = "entry" -> Append(db, o)
    [] Kind[o] = "purge" -> <<>>
    [] Kind[o] = "reply" -> db

Chunk(n) == SubSeq(Stream, arrived + 1, arrived + n)

CompletesOne(n) == \E i \in 1..n : Chunk(n)[i].off = Sizes[Chunk(n)[i].obj]

(* A read of n bytes is delivered.                                         *)
Delivers(n) == /\ link = "up"
               /\ arrived + n <= Len(Stream)
               /\ arrived' = arrived + n
               /\ split' = IF split = Len(Stream) /\ ~CompletesOne(n)
                           THEN arrived ELSE split

\* A slip in object_parsed: @data is not emptied.
ReceiveKeeps(n) ==
  LET buf == data \o Chunk(n)
      p == ParseChunk(buf)
  IN /\ Delivers(n)
     /\ at' = p.at /\ confused' = p.confused
     /\ data' = buf
     /\ published' = published \o p.done
     /\ archive' = FoldLeft(Keep, archive, p.done)
     /\ UNCHANGED link

\* A slip in receive_data: the parser is dropped with the buffer.
ReceiveResets(n) ==
  LET p == ParseChunk(data \o Chunk(n)) IN
  /\ Delivers(n)
  /\ at' = Between /\ confused' = FALSE
  /\ data' = <<>>
  /\ published' = published \o p.done
  /\ archive' = FoldLeft(Keep, archive, p.done)
  /\ UNCHANGED link

\* A slip in receive_data: a line end is put after each read.
ReceiveLine(n) ==
  LET p == ParseChunk(data \o Chunk(n)) IN
  /\ Delivers(n)
  /\ at' = p.at /\ confused' = p.confused
  /\ data' = IF p.done = <<>> THEN Append(data \o Chunk(n), Between) ELSE <<>>
  /\ published' = published \o p.done
  /\ archive' = FoldLeft(Keep, archive, p.done)
  /\ UNCHANGED link

(* All of @data goes to the parser, with what it has seen before unless an *)
(* object was completed since.  A parse error is rescued by the watcher    *)
(* and ends the Keeper.                                                    *)
Receive(n) ==
  LET buf == data \o Chunk(n)
      p == ParseChunk(buf)
  IN /\ Delivers(n)
     /\ at' = p.at /\ confused' = p.confused
     /\ data' = IF p.done = <<>> THEN buf ELSE <<>>
     /\ published' = published \o p.done
     /\ archive' = FoldLeft(Keep, archive, p.done)
     /\ link' \in IF p.confused /\ ~Rescues THEN {"up", "died"} ELSE {"up"}

Unbind ==
  /\ link = "up"
  /\ link' = "down"
  /\ UNCHANGED <<arrived, data, at, confused, published, archive, split>>

BridgeNext == Unbind \/ \E n \in 1..MaxChunk : Receive(n)

BridgeSpec == BridgeInit /\ [][BridgeNext]_bridgeVars

-----------------------------------------------------------------------------
(***************************************************************************)
(* Properties                                                              *)
(***************************************************************************)
(* However reads split the stream, what is passed on is a prefix of what   *)
(* grind sent: nothing twice, nothing out of order and nothing skipped,    *)
(* although the parser may be fed the same bytes again (app.rb:26-28).     *)
InSequence == published = [i \in 1..Len(published) |-> i]

(* The archive holds the entries that came after the last order to purge,  *)
(* also when a read brings both (keeper.rb:48-60).                         *)
SincePurge ==
  LET kept == {i \in 1..Len(published) :
                 /\ Kind[published[i]] = "entry"
                 /\ \A j \in i..Len(published) : Kind[published[j]] # "purge"}
  IN  /\ Len(archive) = Cardinality(kept)
      /\ \A i \in kept : archive[Cardinality(kept \cap 1..i)] = published[i]

(* The objects that are complete within the first n bytes.                 *)
Complete(n) == {i \in 1..n : Stream[i].off = Sizes[Stream[i].obj]}

(* Every object that arrived before the first read that completes none is  *)
(* passed on, also when a read ends within one: then the parser, not @data, *)
(* holds its first bytes (app.rb:26-28, 46-51).                            *)
PassedOnUntilSplit ==
  Len(published) >= Cardinality(Complete(IF arrived < split THEN arrived ELSE split))
=============================================================================
