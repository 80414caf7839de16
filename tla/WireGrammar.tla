---------------------------- MODULE WireGrammar ----------------------------
(***************************************************************************)
(* The language that the generated decoders accept, as a grammar of byte   *)
(* strings: an item is a scalar, or a group around a chain of items, and a *)
(* message is a chain of fields.  (p, q) is the interval of s from         *)
(* position p up to, not including, position q.  It is written from the    *)
(* wire format and says nothing of loops, sums that overflow, or depths.   *)
(***************************************************************************)
EXTENDS ProtoWire, FiniteSetsExt

(* A varint: the first byte that does not go on is its last, and it has no *)
(* more bytes than the greatest word needs.                                *)
LastBytes(s, p) == {r \in p .. Len(s) - 1 : s[r + 1] < Cont}
BehindVarint(s, p) == Min(LastBytes(s, p)) + 1
HasVarint(s, p) == LastBytes(s, p) # {} /\ BehindVarint(s, p) - p =< Sov(Modulus - 1)

(* Its number, the lowest bits first: of the varint n bytes before the end *)
(* of s.  What does not fit into a word is lost.                           *)
Numbers(s) ==
    LET number[n \in 0 .. Len(s)] ==
            IF n = 0 THEN 0
            ELSE LET b == s[Len(s) - n + 1]
                 IN  (b % Cont) + (IF b < Cont THEN 0 ELSE Cont * number[n - 1])
    IN  number

Value(s, p) == Numbers(s)[Len(s) - p] % Modulus

TypeAt(s, p) == Value(s, p) % 8
NumberAt(s, p) == (Value(s, p) \div 8) % (2 * FieldLimit)

(* What has a length has it behind the tag, and the content behind it.     *)
LengthAt(s, p) == BehindVarint(s, p)
ContentAt(s, p) == BehindVarint(s, LengthAt(s, p))
BehindContent(s, p) == ContentAt(s, p) + Value(s, LengthAt(s, p))

IsScalar(s, p, q) ==
    /\ HasVarint(s, p)
    /\ LET b == BehindVarint(s, p)
       IN  \/ TypeAt(s, p) = 0 /\ HasVarint(s, b) /\ q = BehindVarint(s, b)
           \/ TypeAt(s, p) = 1 /\ q = b + 8
           \/ TypeAt(s, p) = 2 /\ HasVarint(s, b) /\ q = BehindContent(s, p)
           \/ TypeAt(s, p) = 5 /\ q = b + 4

EndsGroup(s, p, q) == HasVarint(s, p) /\ TypeAt(s, p) = 4 /\ q = BehindVarint(s, p)

(* Chains(s)[n][p]: the n bytes from p on are a chain of items.            *)
IsGroup(chain, s, p, q) ==
    /\ HasVarint(s, p) /\ TypeAt(s, p) = 3
    /\ LET b == BehindVarint(s, p)
       IN  \E r \in b .. q - 1 : EndsGroup(s, r, q) /\ chain[r - b][b]

Chains(s) ==
    LET chain[n \in 0 .. Len(s)] == [p \in 0 .. Len(s) - n |->
            n = 0 \/ \E k \in 1 .. n : /\ IsScalar(s, p, p + k) \/ IsGroup(chain, s, p, p + k)
                                      /\ chain[n - k][p + k]]
    IN  chain

IsItem(s, p, q) == IsScalar(s, p, q) \/ IsGroup(Chains(s), s, p, q)
IsChain(s, p, q) == Chains(s)[q - p][p]

(* Where the items of a chain from p to q begin.                           *)
Beginnings(s, p, q) == {r \in p .. q - 1 : IsChain(s, p, r)}

(* Items are fields if their numbers are right, and fields that a message  *)
(* knows have a length.  One that is a message holds Params, which knows   *)
(* no fields.                                                              *)
IsNumbered(s, p) == NumberAt(s, p) \in 1 .. FieldLimit - 1

IsParams(s, p, q) == IsChain(s, p, q) /\ \A r \in Beginnings(s, p, q) : IsNumbered(s, r)

IsKnown(s, m, p, kind) ==
    NumberAt(s, p) \in DOMAIN Schema[m] /\ Schema[m][NumberAt(s, p)] = kind

IsField(s, m, p) ==
    /\ IsNumbered(s, p)
    /\ IsKnown(s, m, p, "string") => TypeAt(s, p) = 2
    /\ IsKnown(s, m, p, "message") =>
           TypeAt(s, p) = 2 /\ IsParams(s, ContentAt(s, p), BehindContent(s, p))

IsMessage(s, m) ==
    IsChain(s, 0, Len(s)) /\ \A p \in Beginnings(s, 0, Len(s)) : IsField(s, m, p)

(* The authority that is meant by the fields before q: the last one named. *)
Namings(s, m, q) == {p \in Beginnings(s, 0, q) : IsKnown(s, m, p, "string")}

Meaning(s, m, q) ==
    IF Namings(s, m, q) = {} THEN <<>>
    ELSE LET p == Max(Namings(s, m, q))
         IN  SubSeq(s, ContentAt(s, p) + 1, BehindContent(s, p))

(* What is accepted is a message of the grammar, with the last authority   *)
(* it names and whatever unknown fields and groups around it; what is      *)
(* rejected is none.                                                       *)
DecodesByGrammar ==
    /\ pc = "accepted" => IsMessage(data, message) /\ authority = Meaning(data, message, Len(data))
    /\ pc = "rejected" => ~ IsMessage(data, message)
=============================================================================
