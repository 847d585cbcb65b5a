--------------------------- MODULE ProtobufCodec ----------------------------
(***************************************************************************)
(* What the generated members of every message class do, written once and  *)
(* driven by the tables of MessageClasses: clear, serialize, size, parse,  *)
(* merge.  A message is its class, the value of each member and the fields *)
(* that its parser did not know.  A stream is a sequence of tokens: a tag, *)
(* a length, a varint, a fixed-size value or a character is one token      *)
(* each, so that sizes count tokens where the code counts bytes.  A member *)
(* that is one message holds a sequence of at most one.                    *)
(***************************************************************************)
EXTENDS Integers, SequencesExt, MessageClasses

CONSTANTS Int32Bits,     \* width of an int32, scaled down
          Utf8           \* the characters that a parsed string may have

ASSUME Int32Assumption == Int32Bits \in Nat \ {0}

IsDefault(kind, v) == v = IF kind.type \in {"string", "message"} THEN <<>> ELSE 0

Default(kind) == IF kind.type \in {"string", "message"} THEN <<>> ELSE 0

(* A new message: the constant-initialized default instance. *)
Empty(c) ==
  [class |-> c,
   val   |-> [f \in DOMAIN Members[c] |-> Default(Members[c][f])],
   unknown |-> <<>>]

(* Clear also drops what the parser did not know. *)
Clear(m) == Empty(m.class)

With(m, f, v) == [m EXCEPT !.val[f] = v]

-----------------------------------------------------------------------------
(* Serialization. *)

WireType(kind) ==
  CASE kind.type \in {"string", "message"} -> 2
    [] kind.type = "float"                 -> 5
    [] OTHER                               -> 0

Tag(f) == f.number * 8 + WireType(f.kind)

RECURSIVE Serialize(_)

(* A field is left out when it has its default value. *)
SerializeField(f, v) ==
  CASE f.kind.type = "message" ->
         FlattenSeq([i \in DOMAIN v |->
           LET sub == Serialize(v[i]) IN <<Tag(f), Len(sub)>> \o sub])
    [] IsDefault(f.kind, v)    -> <<>>
    [] f.kind.type = "string"  -> <<Tag(f), Len(v)>> \o v
    [] OTHER                   -> <<Tag(f), v>>

(* The fields in the order of their numbers, then what was not known. *)
Serialize(m) ==
  FlattenSeq([i \in DOMAIN Wire[m.class] |->
    SerializeField(Wire[m.class][i], m.val[Wire[m.class][i].name])]) \o m.unknown

RECURSIVE ByteSize(_)

(* Faulty variant: the tags of a list's elements are not counted. *)
FieldSizeWithoutTags(f, v) ==
  CASE f.kind.type = "message" ->
         FoldLeft(LAMBDA n, sub : n + 1 + ByteSize(sub), 0, v)
    [] IsDefault(f.kind, v)    -> 0
    [] f.kind.type = "string"  -> 2 + Len(v)
    [] OTHER                   -> 2

FieldSize(f, v) ==
  CASE f.kind.type = "message" ->
         FoldLeft(LAMBDA n, sub : n + 2 + ByteSize(sub), 0, v)
    [] IsDefault(f.kind, v)    -> 0
    [] f.kind.type = "string"  -> 2 + Len(v)
    [] OTHER                   -> 2

(* The size is computed apart from the writing, and the length in front of *)
(* a nested message is this size.                                          *)
ByteSize(m) ==
  FoldLeft(LAMBDA n, f : n + FieldSize(f, m.val[f.name]), 0, Wire[m.class]) + Len(m.unknown)

-----------------------------------------------------------------------------
(* Parsing. *)

(* Faulty variant: the announced length is not compared with what is left. *)
ExtentUnchecked(s) ==
  IF Len(s) < 2 THEN 0
  ELSE CASE s[1] = 0           -> 0
         [] s[1] % 8 \in {0, 5} -> 2
         [] s[1] % 8 = 2       -> IF 2 + s[2] > Len(s) THEN Len(s) ELSE 2 + s[2]
         [] OTHER              -> 0

(* How many tokens the first field of a stream takes; 0 when the stream is *)
(* cut short or has a tag that ends a message, opens a group or announces  *)
(* a 64-bit value, which no class of this project writes.                  *)
Extent(s) ==
  IF Len(s) < 2 THEN 0
  ELSE LET n == CASE s[1] = 0            -> 0
                  [] s[1] % 8 \in {0, 5} -> 2
                  [] s[1] % 8 = 2        -> 2 + s[2]
                  [] OTHER               -> 0
       IN  IF n <= Len(s) THEN n ELSE 0

(* Faulty variant: the int32 is as wide as what was written. *)
ReadWide(kind, v) == v

(* ReadVarint32 keeps the low bits of what an int64 may have written, and  *)
(* a bool is whether any is set.                                           *)
ReadScalar(kind, v) ==
  LET half == 2 ^ (Int32Bits - 1)
  IN  CASE kind.type = "int32" -> ((v + half) % (2 * half)) - half
        [] kind.type = "bool"  -> IF v = 0 THEN 0 ELSE 1
        [] OTHER               -> v

(* Faulty variant: a field that is not known is skipped. *)
KeepNothing(m, piece) == m

(* An element of a list is appended; a single message was merged in place. *)
StoreMessage(f, old, sub) == IF f.kind.repeated THEN Append(old, sub) ELSE <<sub>>

KeepUnknown(m, piece) == [m EXCEPT !.unknown = @ \o piece]

Parsed(m) == [ok |-> TRUE, msg |-> m]

RECURSIVE MergeFromStream(_, _)

(* One field, by its whole tag: a known number with another wire type is   *)
(* not a known field.  A string is checked to be UTF-8.                    *)
ParseField(m, piece) ==
  LET known   == SelectSeq(Wire[m.class], LAMBDA f : Tag(f) = piece[1])
      payload == SubSeq(piece, 3, Len(piece))
  IN  IF known = <<>> THEN Parsed(KeepUnknown(m, piece))
      ELSE LET f   == Head(known)
               old == m.val[f.name]
           IN  CASE f.kind.type = "message" ->
                      LET into == IF f.kind.repeated \/ old = <<>>
                                  THEN Empty(f.kind.of) ELSE old[1]
                          sub  == MergeFromStream(into, payload)
                      IN  [ok  |-> sub.ok,
                           msg |-> With(m, f.name, StoreMessage(f, old, sub.msg))]
                 [] f.kind.type = "string" ->
                      [ok |-> ToSet(payload) \subseteq Utf8, msg |-> With(m, f.name, payload)]
                 [] OTHER ->
                      Parsed(With(m, f.name, ReadScalar(f.kind, piece[2])))

(* The parser's loop; the first field that fails ends it. *)
MergeFromStream(m, s) ==
  IF s = <<>> THEN Parsed(m)
  ELSE IF Extent(s) = 0 THEN [ok |-> FALSE, msg |-> m]
  ELSE LET first == ParseField(m, SubSeq(s, 1, Extent(s)))
       IN  IF first.ok
           THEN MergeFromStream(first.msg, SubSeq(s, Extent(s) + 1, Len(s)))
           ELSE first

(* ParseFromString. *)
Parse(c, s) == MergeFromStream(Empty(c), s)

-----------------------------------------------------------------------------
(* Merging and copying. *)

RECURSIVE MergeFrom(_, _)

(* Faulty variant: the other message's list takes the place of this one's. *)
MergeReplacing(kind, mine, theirs) ==
  IF IsDefault(kind, theirs) THEN mine ELSE theirs

(* What a member becomes: lists are joined, single messages merged, and a  *)
(* scalar of the other message counts when it is not the default.          *)
MergeMember(kind, mine, theirs) ==
  CASE kind.repeated            -> mine \o theirs
    [] IsDefault(kind, theirs)  -> mine
    [] kind.type # "message"    -> theirs
    [] IsDefault(kind, mine)    -> <<MergeFrom(Empty(kind.of), theirs[1])>>
    [] OTHER                    -> <<MergeFrom(mine[1], theirs[1])>>

MergeFrom(m, from) ==
  [m EXCEPT !.val = [f \in DOMAIN m.val |->
                       MergeMember(Members[m.class][f], m.val[f], from.val[f])],
            !.unknown = @ \o from.unknown]

(* CopyFrom. *)
CopyOf(m, from) == MergeFrom(Clear(m), from)

-----------------------------------------------------------------------------
(* Does every string of a message survive the check of the parser? *)
RECURSIVE AllUtf8(_)

AllUtf8(m) ==
  \A f \in DOMAIN m.val :
    CASE Members[m.class][f].type = "string"  -> ToSet(m.val[f]) \subseteq Utf8
      [] Members[m.class][f].type = "message" -> \A i \in DOMAIN m.val[f] : AllUtf8(m.val[f][i])
      [] OTHER -> TRUE
=============================================================================
