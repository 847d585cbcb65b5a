------------------------------ MODULE Messages ------------------------------
(***************************************************************************)
(* Two objects of a generated message class, as a program may use them: it *)
(* edits one through its accessors, copies, merges and swaps them, and     *)
(* hands one to a Subscriber, whose callback serializes whatever message   *)
(* comes off the queue and parses the bytes as its own type, without any   *)
(* comparison of the two types (subscriber.inl).                           *)
(***************************************************************************)
EXTENDS ProtobufCodec

CONSTANTS Classes,      \* the classes that are looked at
          Strings,      \* string values other than the empty one
          Numbers,      \* numbers other than 0 that are set, before narrowing
          MaxEdits,     \* bound: how many calls
          MaxRepeated,  \* bound: the length of a list that is added to
          MaxUnknown    \* bound: tokens kept as unknown

ASSUME ClassesAssumption == Classes \subseteq AllClasses
ASSUME EditsAssumption   == MaxEdits \in Nat /\ MaxRepeated \in Nat

VARIABLES object,   \* the message in hand
          other,    \* another one
          edits     \* calls so far

vars == <<object, other, edits>>

Init == \E c \in Classes : object = Empty(c) /\ other = Empty(c) /\ edits = 0

(* What a setter can be given: the argument has the type of the member. *)
ValuesOf(kind) ==
  IF kind.type = "string" THEN Strings ELSE {ReadScalar(kind, n) : n \in Numbers} \ {0}

KindOf(f) == Members[object.class][f]

Become(m) == object' = m

Counted == edits < MaxEdits /\ edits' = edits + 1

-----------------------------------------------------------------------------
(* Accessors. *)

(* set_f.  A member cannot be set to what it is. *)
SetMember(f) ==
  /\ KindOf(f).type # "message"
  /\ \E v \in ValuesOf(KindOf(f)) \ {object.val[f]} : Become(With(object, f, v))

(* clear_f, and for the message also what release_f does to it. *)
ClearMember(f) ==
  /\ ~IsDefault(KindOf(f), object.val[f])
  /\ Become(With(object, f, Default(KindOf(f))))

(* mutable_f makes a single message that is absent; add_f a list element. *)
Allocate(f) ==
  /\ KindOf(f).type = "message"
  /\ Len(object.val[f]) < IF KindOf(f).repeated THEN MaxRepeated ELSE 1
  /\ Become(With(object, f, Append(object.val[f], Empty(KindOf(f).of))))

(* mutable_f()->set_g, of the last element of a list. *)
SetInside(f) ==
  /\ KindOf(f).type = "message"
  /\ object.val[f] # <<>>
  /\ LET n == Len(object.val[f])
     IN  \E g \in DOMAIN Members[KindOf(f).of] :
           \E v \in ValuesOf(Members[KindOf(f).of][g]) \ {object.val[f][n].val[g]} :
             Become(With(object, f, [object.val[f] EXCEPT ![n] = With(@, g, v)]))

Access == /\ Counted
          /\ \E f \in DOMAIN object.val :
               SetMember(f) \/ ClearMember(f) \/ Allocate(f) \/ SetInside(f)
          /\ UNCHANGED other

-----------------------------------------------------------------------------
(* Whole messages. *)

ClearObject == /\ Counted
               /\ Become(Clear(object))
               /\ UNCHANGED other

CopyObject == /\ Counted
              /\ object.class = other.class
              /\ other' = CopyOf(other, object)
              /\ UNCHANGED object

MergeOther == /\ Counted
              /\ object.class = other.class
              /\ Become(MergeFrom(object, other))
              /\ Len(object'.unknown) <= MaxUnknown
              /\ UNCHANGED other

Swap == /\ Counted
        /\ object.class = other.class
        /\ Become(other)
        /\ other' = object

(* The callback of a subscriber of class d: what does not parse is dropped *)
(* and logged; what does is handed over as a new message of class d.       *)
TypedCallback(d) ==
  /\ Counted
  /\ LET typed_msg == Parse(d, Serialize(object))
     IN  /\ typed_msg.ok
         /\ Become(typed_msg.msg)
         /\ other' = Empty(d)

Next == \/ Access
        \/ ClearObject
        \/ CopyObject
        \/ MergeOther
        \/ Swap
        \/ \E d \in Classes : TypedCallback(d)

Spec == Init /\ [][Next]_vars

-----------------------------------------------------------------------------
(* Properties. *)

RECURSIVE WellTyped(_)

WellTyped(m) ==
  \A f \in DOMAIN Members[m.class] :
    LET kind == Members[m.class][f]
    IN  CASE kind.type = "message" ->
               /\ kind.repeated \/ Len(m.val[f]) <= 1
               /\ \A i \in DOMAIN m.val[f] :
                    m.val[f][i].class = kind.of /\ WellTyped(m.val[f][i])
          [] kind.type = "int32" ->
               m.val[f] \in -(2 ^ (Int32Bits - 1)) .. 2 ^ (Int32Bits - 1) - 1
          [] kind.type = "bool" -> m.val[f] \in {0, 1}
          [] OTHER -> TRUE

(* Type invariant: every member holds a value of the type it is declared   *)
(* with in the generated headers, whatever bytes it was parsed from.       *)
TypeOK == /\ object.class \in Classes /\ WellTyped(object)
          /\ other.class \in Classes /\ WellTyped(other)
          /\ edits \in 0..MaxEdits

(* Parsing what was serialized gives the same message back, the fields its *)
(* class does not know included, and the size computed beforehand is the   *)
(* size written.  It fails for one reason alone, a string that is not      *)
(* UTF-8: the serializer only logs it and the parser refuses the message.  *)
RoundTrip ==
  LET s    == Serialize(object)
      back == Parse(object.class, s)
  IN  /\ ByteSize(object) = Len(s)
      /\ back.ok <=> AllUtf8(object)
      /\ back.ok => back.msg = object

(* The bytes of two messages in a row parse as the merge of the two: the   *)
(* parser's last-one-wins, merge and append agree with MergeFrom.          *)
MergeIsConcatenation ==
  object.class = other.class =>
    LET joined == Parse(object.class, Serialize(object) \o Serialize(other))
    IN  joined.ok => joined.msg = MergeFrom(object, other)

(* A message cut short is refused, or it is a shorter message that was     *)
(* really serialized: nothing is made up from a stream that ends early.    *)
CutStreamInventsNothing ==
  LET s == Serialize(object)
  IN  \A n \in 0 .. Len(s) - 1 :
        LET cut == Parse(object.class, SubSeq(s, 1, n))
        IN  cut.ok => Serialize(cut.msg) = SubSeq(s, 1, n)

(* Two classes that do not disagree on a field: what both know by the same *)
(* tag has the same kind, or the second one keeps a list of the first's    *)
(* single messages.                                                        *)
Compatible(c, d) ==
  \A f \in ToSet(Wire[c]), g \in ToSet(Wire[d]) :
    Tag(f) = Tag(g) =>
      /\ f.kind.type = g.kind.type
      /\ f.kind.of = g.kind.of
      /\ f.kind.repeated => g.kind.repeated

(* A message that passes through a subscriber of another type loses none   *)
(* of its members, unless the two classes use one tag for different kinds: *)
(* what the other type does not know it passes on.                         *)
ThroughAnotherType ==
  \A d \in Classes :
    Compatible(object.class, d) /\ AllUtf8(object) =>
      LET seen == Parse(d, Serialize(object))
      IN  seen.ok => Parse(object.class, Serialize(seen.msg)).msg.val = object.val
=============================================================================
