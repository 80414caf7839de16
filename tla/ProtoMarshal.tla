---------------------------- MODULE ProtoMarshal ----------------------------
(***************************************************************************)
(* x/chainrice/types/*.pb.go: how the generated code encodes a message.    *)
(* Size says how long the buffer must be; MarshalToSizedBuffer then writes *)
(* the fields into it from its end to its start, last field first and each *)
(* field's content before its length and its tag, except that the bytes of *)
(* a varint are written forwards into the room that sov computes for them. *)
(* Nothing but that arithmetic keeps the writes inside the buffer.         *)
(*                                                                         *)
(* The five files hold one template; the state machine is that template, a *)
(* statement that writes to the buffer to an action.                       *)
(***************************************************************************)
EXTENDS Integers, Sequences

CONSTANTS
    Cont,         \* the continuation bit of a byte: 0x80
    IntLimit,     \* 2^63: where int overflows
    Authorities,  \* the values of the string Authority that are encoded
    Spares        \* how much longer than Size the buffer of MarshalTo may be

Bytes == 0 .. 2 * Cont - 1

----------------------------------------------------------------------------
(* The fields of each message by number: the string Authority, or Params.  *)
MsgUpdateParams == <<"string", "message">>
MsgUpdateParamsResponse == <<>>
GenesisState == <<"message">>
QueryParamsRequest == <<>>
QueryParamsResponse == <<"message">>
Module == <<"string">>
Params == <<>>

Schema == [
    MsgUpdateParams |-> MsgUpdateParams,
    MsgUpdateParamsResponse |-> MsgUpdateParamsResponse,
    GenesisState |-> GenesisState,
    QueryParamsRequest |-> QueryParamsRequest,
    QueryParamsResponse |-> QueryParamsResponse,
    Module |-> Module,
    Params |-> Params]

HasField(m, kind) == \E n \in DOMAIN Schema[m] : Schema[m][n] = kind

(* The bytes of a varint, from its bit length: the least n >= 1 groups of  *)
(* bits that hold it.                                                      *)
Power[n \in Nat] == IF n = 0 THEN 1 ELSE Cont * Power[n - 1]

Sov(v) == CHOOSE n \in 1 .. v + 1 : v < Power[n] /\ (n = 1 \/ v >= Power[n - 1])

(* A string is left out when empty, a message is always written; Params    *)
(* has no fields.                                                          *)
Content(kind, a) == IF kind = "string" THEN a ELSE <<>>
Omitted(kind, a) == kind = "string" /\ a = <<>>

SizeOf(kind, a) ==
    IF Omitted(kind, a) THEN 0 ELSE 1 + Len(Content(kind, a)) + Sov(Len(Content(kind, a)))

\* Mutant: an empty string is counted.
MutSize(m, a) ==
    (IF HasField(m, "string") THEN 1 + Len(a) + Sov(Len(a)) ELSE 0)
    + (IF HasField(m, "message") THEN SizeOf("message", a) ELSE 0)

(* Of a nil receiver, which is not encoded here, the size is 0.            *)
Size(m, a) ==
    (IF HasField(m, "string") THEN SizeOf("string", a) ELSE 0)
    + (IF HasField(m, "message") THEN SizeOf("message", a) ELSE 0)

ASSUME ContAssumption == Cont \in Nat /\ Cont > 18  \* the tags are one byte
ASSUME IntLimitAssumption == IntLimit \in Nat \ {0}
ASSUME SparesAssumption == 0 \in Spares /\ Spares \subseteq Nat
(* A slice's length is an int, with room for the greatest fixed step.      *)
ASSUME AuthoritiesAssumption ==
    \A a \in Authorities \cup {<<>>} : a \in Seq(Bytes)
        /\ \A m \in DOMAIN Schema, k \in Spares : Size(m, a) + k + 8 < IntLimit

----------------------------------------------------------------------------
VARIABLES
    message,   \* the message
    data,      \* dAtA
    pc,        \* where the code is
    value,     \* m.Authority of the message that is encoded
    limit,     \* the buffer that is written is dAtA[:limit]
    todo,      \* fields that are still to be written
    i,         \* what lies from here on is written
    offset,    \* of encodeVarint
    rest       \* v, of encodeVarint

marshalVars == <<message, data, pc, value, limit, todo, i, offset, rest>>

Kind == Schema[message][todo]
Field == Content(Kind, value)

InitMarshal ==
    /\ message \in DOMAIN Schema
    /\ value \in IF HasField(message, "string") THEN Authorities ELSE {<<>>}
    /\ pc = "size" /\ data = <<>> /\ limit = 0 /\ todo = 0 /\ i = 0 /\ offset = 0 /\ rest = 0

(* Go panics when an index is outside the slice.                           *)
Put(p, b, next) ==
    IF 0 =< p /\ p < limit
    THEN data' = [data EXCEPT ![p + 1] = b] /\ pc' = next
    ELSE data' = data /\ pc' = "panicked"

(* Marshal makes a buffer of Size bytes; MarshalTo is given one that may   *)
(* be longer, and slices it.                                               *)
MakeBuffer ==
    /\ pc = "size"
    /\ \E spare \in Spares :
           LET size == Size(message, value)
           IN /\ data' = [p \in 1 .. size + spare |-> 0]
              /\ limit' = size /\ i' = size
    /\ todo' = Len(Schema[message]) /\ pc' = "write"
    /\ UNCHANGED <<message, value, offset, rest>>

OmitField ==
    /\ pc = "write" /\ todo > 0 /\ Omitted(Kind, value)
    /\ todo' = todo - 1
    /\ UNCHANGED <<message, data, pc, value, limit, i, offset, rest>>

\* Mutant: encodeVarint begins where the content does.
MutVarintStart(p, v) == p - 1
VarintStart(p, v) == p - Sov(v)

(* The content is copied to where it fits, if dAtA[i:] has its bounds in   *)
(* order, and encodeVarint is called for its length.                       *)
PutContent ==
    /\ pc = "write" /\ todo > 0 /\ ~Omitted(Kind, value)
    /\ i' = i - Len(Field)
    /\ IF i' >= 0
       THEN /\ data' = [p \in DOMAIN data |->
                           IF p - i' \in DOMAIN Field /\ p =< limit THEN Field[p - i'] ELSE data[p]]
            /\ pc' = "putVarint"
       ELSE data' = data /\ pc' = "panicked"
    /\ rest' = Len(Field) /\ offset' = VarintStart(i', Len(Field))
    /\ UNCHANGED <<message, value, limit, todo>>

PutVarintByte ==
    /\ pc = "putVarint" /\ rest >= Cont
    /\ Put(offset, (rest % Cont) + Cont, "putVarint")
    /\ rest' = rest \div Cont /\ offset' = offset + 1
    /\ UNCHANGED <<message, value, limit, todo, i>>

(* The last byte; encodeVarint returns the place of the first.             *)
PutLastByte ==
    /\ pc = "putVarint" /\ rest < Cont
    /\ Put(offset, rest, "putTag")
    /\ i' = VarintStart(i, Len(Field))
    /\ UNCHANGED <<message, value, limit, todo, offset, rest>>

Tag(n) == 8 * n + 2

PutTag ==
    /\ pc = "putTag"
    /\ i' = i - 1 /\ todo' = todo - 1
    /\ Put(i', Tag(todo), "write")
    /\ UNCHANGED <<message, value, limit, offset, rest>>

(* The caller takes dAtA[:n], the first n bytes of the buffer, where n is  *)
(* the number of bytes written at its end.                                 *)
Return ==
    /\ pc = "write" /\ todo = 0
    /\ data' = SubSeq(data, 1, limit - i) /\ pc' = "returned"
    /\ UNCHANGED <<message, value, limit, todo, i, offset, rest>>

Marshal ==
    \/ MakeBuffer \/ OmitField \/ PutContent \/ PutVarintByte \/ PutLastByte \/ PutTag
    \/ Return

MarshalTx == message \in {"MsgUpdateParams", "MsgUpdateParamsResponse"} /\ Marshal
MarshalParams == message = "Params" /\ Marshal
MarshalGenesis == message = "GenesisState" /\ Marshal
MarshalQuery == message \in {"QueryParamsRequest", "QueryParamsResponse"} /\ Marshal
MarshalModule == message = "Module" /\ Marshal

----------------------------------------------------------------------------
MarshalSteps == {"size", "write", "putVarint", "putTag", "returned"}

MarshalTypeOK ==
    /\ message \in DOMAIN Schema /\ value \in Seq(Bytes) /\ data \in Seq(Bytes)
    /\ Len(data) + 8 < IntLimit /\ limit \in Nat /\ todo \in 0 .. Len(Schema[message])
    /\ i \in Int /\ offset \in Int /\ rest \in Nat

(* What is written ends up at the front of the buffer too, as the callers  *)
(* that take its first n bytes rely on: Size is what was written.          *)
FillsBuffer == pc = "returned" => (i = 0 /\ Len(data) = limit)
=============================================================================
